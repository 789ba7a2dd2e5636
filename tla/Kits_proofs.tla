----------------------------- MODULE Kits_proofs -----------------------------
(***************************************************************************)
(* Proofs about the kits and the start of a node: the pool of threads, the *)
(* ring, the memory pool, the streams, the pid file, the command line, the *)
(* steps and the figures of the machine.  None of them has a specification *)
(* of its own: each theorem is about its Init and its next-state relation, *)
(* whatever the rest of the node does between two of its steps.            *)
(***************************************************************************)
EXTENDS ThreadPool, CircuitQueue, AllocPool, Streams, Startup, CommandLine, Steps, DevStat,
        FiniteSetTheorems, WellFoundedInduction, TLAPS

\* A set of numbers has a least member.
LEMMA LeastMember ==
  ASSUME NEW T, T \subseteq Nat, T # {}
  PROVE  \E x \in T : \A y \in T : x <= y
<1>1. IsWellFoundedOn(OpToRel(<, Nat), Nat)
  BY NatLessThanWellFounded
<1>2. PICK x \in T : \A y \in T : ~ (<<y, x>> \in OpToRel(<, Nat))
  BY <1>1, WFMin
<1>3. \A y \in T : x <= y
  <2>1. ASSUME NEW y \in T  PROVE x <= y
    <3>1. ~ (y < x)
      BY <1>2 DEF OpToRel
    <3>2. QED  BY <3>1
  <2>2. QED  BY <2>1
<1>4. QED  BY <1>3

\* A set of numbers below one of them has a greatest member.
LEMMA GreatestMember ==
  ASSUME NEW n \in Nat, NEW T, T \subseteq 0 .. n, T # {}
  PROVE  \E x \in T : \A y \in T : y <= x
<1> DEFINE D == {n - x : x \in T}
<1>1. D \subseteq Nat /\ D # {}
  OBVIOUS
<1>2. PICK d \in D : \A e \in D : d <= e
  BY <1>1, LeastMember
<1>3. PICK x \in T : d = n - x
  BY <1>2
<1>4. ASSUME NEW y \in T  PROVE y <= x
  <2>1. n - x <= n - y
    BY <1>2, <1>3
  <2>2. QED  BY <2>1
<1>5. QED  BY <1>4

(*****************************************************************************)
(* ThreadPool: the pool of threads.                                          *)
(*****************************************************************************)

Place == {"loop", "wait", "idle--", "idle-- write", "handle", "idle++", "idle++ write", "gone"}

ThreadPoolTypes ==
  /\ tasks \in Seq(Nat) /\ begun \in Seq(Nat)
  /\ stop \in BOOLEAN /\ raced \in BOOLEAN
  /\ idle \in 0..255
  /\ tpc \in [PoolThread -> Place]
  /\ held \in [PoolThread -> 0..255]
  /\ mine \in [PoolThread -> Nat]

\* A thread has a task exactly between taking it and the end of handle.
MineWhileServing ==
  \A t \in PoolThread : mine[t] # 0 <=> tpc[t] \in {"idle--", "idle-- write", "handle"}

\* Until two changes overlapped one thread at most has read the count, and what
\* it read still holds.
OneChanges ==
  ~raced => /\ \A t \in PoolThread : tpc[t] \in Changing => held[t] = idle
            /\ \A t, u \in PoolThread : tpc[t] \in Changing /\ tpc[u] \in Changing => t = u

ThreadPoolInv ==
  ThreadPoolTypes /\ MineWhileServing /\ OneChanges /\ TasksKept /\ IdleIsCounted

-----------------------------------------------------------------------------
\* How many threads are at work when t, which was not, is one of them.
LEMMA BusyGrows ==
  ASSUME NEW S \in SUBSET PoolThread, NEW t \in PoolThread \ S
  PROVE  /\ Cardinality(S) \in Nat /\ Cardinality(PoolThread) \in Nat
         /\ Cardinality(S \union {t}) = Cardinality(S) + 1
         /\ Cardinality(S) < Cardinality(PoolThread)
<1>1. IsFiniteSet(PoolThread) BY ThreadPoolAssumption
<1>2. IsFiniteSet(S) /\ IsFiniteSet(S \union {t}) BY <1>1, FS_Subset, FS_AddElement
<1>3. Cardinality(S \union {t}) = Cardinality(S) + 1 BY <1>2, FS_AddElement
<1>4. Cardinality(S \union {t}) <= Cardinality(PoolThread)
  <2>1. S \union {t} \in SUBSET PoolThread OBVIOUS
  <2> QED BY <1>1, <2>1, FS_Subset
<1>5. Cardinality(S) \in Nat /\ Cardinality(PoolThread) \in Nat
  BY <1>1, <1>2, FS_CardinalityType
<1> QED BY <1>3, <1>4, <1>5

\* How many threads are at work when t, which was one of them, no longer is.
LEMMA BusyShrinks ==
  ASSUME NEW S \in SUBSET PoolThread, NEW t \in S
  PROVE  /\ Cardinality(S) \in Nat /\ Cardinality(PoolThread) \in Nat
         /\ Cardinality(S \ {t}) = Cardinality(S) - 1
         /\ 0 < Cardinality(S) /\ Cardinality(S) <= Cardinality(PoolThread)
         /\ Cardinality(PoolThread) < 256
<1>1. IsFiniteSet(PoolThread) BY ThreadPoolAssumption
<1>2. IsFiniteSet(S) /\ IsFiniteSet(S \ {t}) BY <1>1, FS_Subset
<1>3. Cardinality((S \ {t}) \union {t}) = Cardinality(S \ {t}) + 1 BY <1>2, FS_AddElement
<1>4. (S \ {t}) \union {t} = S OBVIOUS
<1>5. Cardinality(S) <= Cardinality(PoolThread) BY <1>1, FS_Subset
<1>6. Cardinality(S) \in Nat /\ Cardinality(PoolThread) \in Nat /\ Cardinality(S \ {t}) \in Nat
  BY <1>1, <1>2, FS_CardinalityType
<1> QED BY <1>3, <1>4, <1>5, <1>6, ThreadPoolAssumption

\* The constructor leaves a pool with no thread at work.
LEMMA InitEstablishes == ThreadPoolInit => ThreadPoolInv
<1> SUFFICES ASSUME ThreadPoolInit PROVE ThreadPoolInv OBVIOUS
<1>1. Cardinality(PoolThread) \in 0..255
  <2>1. IsFiniteSet(PoolThread) BY ThreadPoolAssumption
  <2>2. Cardinality(PoolThread) \in Nat BY <2>1, FS_CardinalityType
  <2> QED BY <2>2, ThreadPoolAssumption
<1>2. ThreadPoolTypes
  <2>1. tasks \in Seq(Nat) /\ begun \in Seq(Nat) BY DEF ThreadPoolInit
  <2>2. tpc \in [PoolThread -> Place] BY DEF ThreadPoolInit, Place
  <2>3. held \in [PoolThread -> 0..255] /\ mine \in [PoolThread -> Nat] BY DEF ThreadPoolInit
  <2> QED BY <1>1, <2>1, <2>2, <2>3 DEF ThreadPoolInit, ThreadPoolTypes
<1>3. MineWhileServing /\ OneChanges
  BY DEF ThreadPoolInit, MineWhileServing, OneChanges, Changing
<1>4. TasksKept BY DEF ThreadPoolInit, TasksKept, OutOfList
<1>5. IdleIsCounted
  <2>1. Busy = {} BY DEF ThreadPoolInit, Busy
  <2>2. Cardinality(Busy) = 0 BY <2>1, FS_EmptySet
  <2>3. idle = Cardinality(PoolThread) BY DEF ThreadPoolInit
  <2>4. Cardinality(PoolThread) - 0 = Cardinality(PoolThread) BY <1>1
  <2> QED BY <2>2, <2>3, <2>4 DEF IdleIsCounted
<1> QED BY <1>2, <1>3, <1>4, <1>5 DEF ThreadPoolInv

-----------------------------------------------------------------------------
\* The steps that leave the tasks alone keep what is known of them.
LEMMA TasksAlone ==
  TasksKept /\ UNCHANGED <<tasks, begun, mine>> => TasksKept'
BY DEF TasksKept, OutOfList

\* So with the count.
LEMMA CountAlone ==
  IdleIsCounted /\ UNCHANGED <<idle, raced, Busy>> => IdleIsCounted'
BY DEF IdleIsCounted

\* add_task puts a task behind the others.
LEMMA AddTaskKeeps == ThreadPoolInv /\ AddTask => ThreadPoolInv'
<1> SUFFICES ASSUME ThreadPoolInv, AddTask PROVE ThreadPoolInv' OBVIOUS
<1>1. /\ ThreadPoolTypes /\ MineWhileServing /\ OneChanges /\ TasksKept /\ IdleIsCounted
  BY DEF ThreadPoolInv
<1>2. ThreadPoolTypes'
  <2>1. tasks' \in Seq(Nat) /\ begun' \in Seq(Nat) BY <1>1 DEF AddTask, ThreadPoolTypes
  <2> QED BY <1>1, <2>1 DEF AddTask, ThreadPoolTypes
<1>3. MineWhileServing' /\ OneChanges' BY <1>1 DEF AddTask, MineWhileServing, OneChanges
<1>4. TasksKept'
  <2>1. tasks \in Seq(Nat) /\ begun \in Seq(Nat) /\ mine \in [PoolThread -> Nat]
    BY <1>1 DEF ThreadPoolTypes
  <2>2. tasks' = Append(tasks, Len(begun) + 1) /\ begun' = Append(begun, 0) /\ mine' = mine
    BY DEF AddTask
  <2>3. Len(tasks') = Len(tasks) + 1 /\ Len(begun') = Len(begun) + 1 /\ OutOfList' = OutOfList
        /\ OutOfList \in Int
    BY <2>1, <2>2 DEF OutOfList
  <2>4. ASSUME NEW k \in 1..Len(tasks') PROVE tasks'[k] = OutOfList' + k /\ begun'[tasks'[k]] = 0
    <3>1. CASE k \in 1..Len(tasks)
      <4>1. tasks'[k] = tasks[k] BY <2>1, <2>2, <3>1
      <4>2. tasks[k] = OutOfList + k /\ begun[tasks[k]] = 0 BY <1>1, <3>1 DEF TasksKept
      <4>3. OutOfList + k \in 1..Len(begun) BY <1>1, <2>1, <3>1 DEF TasksKept, OutOfList
      <4> QED BY <2>1, <2>2, <2>3, <4>1, <4>2, <4>3
    <3>2. CASE k = Len(tasks) + 1
      <4>1. tasks'[k] = Len(begun) + 1 BY <2>1, <2>2, <3>2
      <4>2. begun'[Len(begun) + 1] = 0 BY <2>1, <2>2
      <4> QED BY <2>1, <2>3, <3>2, <4>1, <4>2 DEF OutOfList
    <3> QED BY <2>1, <2>3, <3>1, <3>2
  <2>5. ASSUME NEW i \in 1..OutOfList PROVE i \in 1..Len(begun) /\ begun'[i] = begun[i]
    BY <1>1, <2>1, <2>2 DEF TasksKept, OutOfList
  <2>6. ASSUME NEW i \in 1..OutOfList'
        PROVE begun'[i] = IF \E t \in PoolThread : mine'[t] = i THEN 0 ELSE 1
    BY <1>1, <2>2, <2>3, <2>5 DEF TasksKept
  <2>7. Len(tasks') <= Len(begun') BY <1>1, <2>1, <2>3 DEF TasksKept
  <2>8. /\ \A t \in PoolThread : mine'[t] <= OutOfList'
        /\ \A t, u \in PoolThread : mine'[t] = mine'[u] /\ mine'[t] # 0 => t = u
    BY <1>1, <2>2, <2>3 DEF TasksKept
  <2> QED BY <2>4, <2>6, <2>7, <2>8 DEF TasksKept
<1>5. IdleIsCounted' BY <1>1, CountAlone DEF AddTask, Busy
<1> QED BY <1>2, <1>3, <1>4, <1>5 DEF ThreadPoolInv

\* A thread takes the first task of the list.
LEMMA TakeKeeps ==
  ASSUME ThreadPoolInv, NEW t \in PoolThread, Take(t)
  PROVE  ThreadPoolInv'
<1>1. /\ ThreadPoolTypes /\ MineWhileServing /\ OneChanges /\ TasksKept /\ IdleIsCounted
  BY DEF ThreadPoolInv
<1>2. /\ tasks \in Seq(Nat) /\ begun \in Seq(Nat) /\ mine \in [PoolThread -> Nat]
      /\ tpc \in [PoolThread -> Place]
  BY <1>1 DEF ThreadPoolTypes
<1>3. /\ tpc[t] = "wait" /\ tpc' = [tpc EXCEPT ![t] = "idle--"] /\ tasks # <<>>
      /\ mine' = [mine EXCEPT ![t] = tasks[1]] /\ tasks' = Tail(tasks)
      /\ UNCHANGED <<stop, idle, held, begun, raced>>
  BY <1>2 DEF Take, Goes
<1>4. /\ Len(tasks) \in Nat \ {0} /\ Len(tasks') = Len(tasks) - 1 /\ OutOfList \in Nat
      /\ OutOfList' = OutOfList + 1
      /\ \A k \in 1..Len(tasks') : k + 1 \in 1..Len(tasks) /\ tasks'[k] = tasks[k + 1]
  BY <1>1, <1>2, <1>3 DEF TasksKept, OutOfList
<1>5. tasks[1] = OutOfList + 1 /\ begun[OutOfList + 1] = 0 BY <1>1, <1>4 DEF TasksKept
<1>6. mine[t] = 0 BY <1>1, <1>2, <1>3 DEF MineWhileServing
<1>7. ThreadPoolTypes'
  <2>1. tasks' \in Seq(Nat) /\ mine' \in [PoolThread -> Nat] BY <1>2, <1>3, <1>4, <1>5
  <2>2. tpc' \in [PoolThread -> Place] BY <1>2, <1>3 DEF Place
  <2> QED BY <1>1, <1>3, <2>1, <2>2 DEF ThreadPoolTypes
<1>8. MineWhileServing'
  <2>1. tpc'[t] = "idle--" /\ mine'[t] # 0 BY <1>2, <1>3, <1>4, <1>5
  <2>2. \A u \in PoolThread \ {t} : tpc'[u] = tpc[u] /\ mine'[u] = mine[u] BY <1>2, <1>3
  <2> QED BY <1>1, <2>1, <2>2 DEF MineWhileServing
<1>9. OneChanges' BY <1>1, <1>2, <1>3 DEF OneChanges, Changing
<1>10. TasksKept'
  <2>1. Len(tasks') <= Len(begun') BY <1>1, <1>2, <1>3, <1>4 DEF TasksKept
  <2>2. ASSUME NEW k \in 1..Len(tasks') PROVE tasks'[k] = OutOfList' + k /\ begun'[tasks'[k]] = 0
    <3>1. tasks[k + 1] = OutOfList + (k + 1) /\ begun[tasks[k + 1]] = 0
      BY <1>1, <1>4 DEF TasksKept
    <3> QED BY <1>3, <1>4, <3>1
  <2>3. ASSUME NEW i \in 1..OutOfList'
        PROVE begun'[i] = IF \E u \in PoolThread : mine'[u] = i THEN 0 ELSE 1
    <3>1. CASE i = OutOfList + 1
      <4>1. mine'[t] = i BY <1>2, <1>3, <1>5, <3>1
      <4> QED BY <1>3, <1>5, <3>1, <4>1
    <3>2. CASE i \in 1..OutOfList
      <4>1. \A u \in PoolThread : mine'[u] = i <=> mine[u] = i
        BY <1>2, <1>3, <1>4, <1>5, <1>6, <3>2
      <4>2. begun[i] = IF \E u \in PoolThread : mine[u] = i THEN 0 ELSE 1
        BY <1>1, <3>2 DEF TasksKept
      <4> QED BY <1>3, <4>1, <4>2
    <3> QED BY <1>4, <3>1, <3>2
  <2>4. \A u \in PoolThread : mine[u] <= OutOfList BY <1>1 DEF TasksKept
  <2>5. \A u \in PoolThread : mine'[u] <= OutOfList'
    BY <1>2, <1>3, <1>4, <1>5, <2>4
  <2>6. ASSUME NEW u \in PoolThread, NEW v \in PoolThread, mine'[u] = mine'[v], mine'[u] # 0
        PROVE u = v
    BY <1>1, <1>2, <1>3, <1>4, <1>5, <2>4, <2>6 DEF TasksKept
  <2> QED BY <2>1, <2>2, <2>3, <2>5, <2>6 DEF TasksKept
<1>11. Busy' = Busy BY <1>2, <1>3 DEF Busy
<1>12. IdleIsCounted' BY <1>1, <1>3, <1>11, CountAlone
<1> QED BY <1>7, <1>8, <1>9, <1>10, <1>12 DEF ThreadPoolInv

\* A thread that served its task is done with it.
LEMMA HandleKeeps ==
  ASSUME ThreadPoolInv, NEW t \in PoolThread, Handle(t)
  PROVE  ThreadPoolInv'
<1>1. /\ ThreadPoolTypes /\ MineWhileServing /\ OneChanges /\ TasksKept /\ IdleIsCounted
  BY DEF ThreadPoolInv
<1>2. /\ tasks \in Seq(Nat) /\ begun \in Seq(Nat) /\ mine \in [PoolThread -> Nat]
      /\ tpc \in [PoolThread -> Place]
  BY <1>1 DEF ThreadPoolTypes
<1>3. /\ tpc[t] = "handle" /\ tpc' = [tpc EXCEPT ![t] = "idle++"]
      /\ begun' = [begun EXCEPT ![mine[t]] = @ + 1] /\ mine' = [mine EXCEPT ![t] = 0]
      /\ UNCHANGED <<tasks, stop, idle, held, raced>>
  BY DEF Handle, Goes
<1>4. mine[t] # 0 /\ mine[t] <= OutOfList /\ mine[t] \in Nat
  BY <1>1, <1>2, <1>3 DEF MineWhileServing, TasksKept
<1>5. /\ OutOfList \in Nat /\ Len(tasks) \in Nat /\ Len(begun) \in Nat /\ OutOfList + Len(tasks) = Len(begun)
  BY <1>1, <1>2 DEF TasksKept, OutOfList
<1>6. mine[t] \in 1..OutOfList /\ mine[t] \in DOMAIN begun BY <1>2, <1>4, <1>5
<1>7. begun[mine[t]] = 0 BY <1>1, <1>6 DEF TasksKept
<1>8. /\ begun' \in Seq(Nat) /\ Len(begun') = Len(begun) /\ begun'[mine[t]] = 1
      /\ \A i \in 1..Len(begun) : i # mine[t] => begun'[i] = begun[i]
  BY <1>2, <1>3, <1>6, <1>7
<1>9. OutOfList' = OutOfList BY <1>3, <1>8 DEF OutOfList
<1>10. ThreadPoolTypes'
  <2>1. tpc' \in [PoolThread -> Place] /\ mine' \in [PoolThread -> Nat] BY <1>2, <1>3 DEF Place
  <2> QED BY <1>1, <1>3, <1>8, <2>1 DEF ThreadPoolTypes
<1>11. MineWhileServing' BY <1>1, <1>2, <1>3 DEF MineWhileServing
<1>12. OneChanges' BY <1>1, <1>2, <1>3 DEF OneChanges, Changing
<1>13. TasksKept'
  <2>1. ASSUME NEW k \in 1..Len(tasks') PROVE tasks'[k] = OutOfList' + k /\ begun'[tasks'[k]] = 0
    <3>1. tasks[k] = OutOfList + k /\ begun[tasks[k]] = 0 BY <1>1, <1>3 DEF TasksKept
    <3>2. OutOfList + k \in 1..Len(begun) /\ OutOfList + k # mine[t] BY <1>3, <1>4, <1>5
    <3> QED BY <1>3, <1>8, <1>9, <3>1, <3>2
  <2>2. ASSUME NEW i \in 1..OutOfList'
        PROVE begun'[i] = IF \E u \in PoolThread : mine'[u] = i THEN 0 ELSE 1
    <3>1. begun[i] = IF \E u \in PoolThread : mine[u] = i THEN 0 ELSE 1
      BY <1>1, <1>9 DEF TasksKept
    <3>2. CASE i = mine[t]
      <4>1. \A u \in PoolThread : mine'[u] # i
        BY <1>1, <1>2, <1>3, <1>4, <3>2 DEF TasksKept
      <4> QED BY <1>8, <3>2, <4>1
    <3>3. CASE i # mine[t]
      <4>1. \A u \in PoolThread : mine'[u] = i <=> mine[u] = i BY <1>2, <1>3, <1>9, <3>3
      <4>2. i \in 1..Len(begun) BY <1>5, <1>9
      <4> QED BY <1>8, <3>1, <3>3, <4>1, <4>2
    <3> QED BY <3>2, <3>3
  <2>3. \A u \in PoolThread : mine'[u] <= OutOfList' BY <1>1, <1>2, <1>3, <1>5, <1>9 DEF TasksKept
  <2>4. \A u, v \in PoolThread : mine'[u] = mine'[v] /\ mine'[u] # 0 => u = v
    BY <1>1, <1>2, <1>3 DEF TasksKept
  <2>5. Len(tasks') <= Len(begun') BY <1>1, <1>3, <1>8 DEF TasksKept
  <2> QED BY <2>1, <2>2, <2>3, <2>4, <2>5 DEF TasksKept
<1>14. Busy' = Busy BY <1>2, <1>3 DEF Busy
<1>15. IdleIsCounted' BY <1>1, <1>3, <1>14, CountAlone
<1> QED BY <1>10, <1>11, <1>12, <1>13, <1>15 DEF ThreadPoolInv

-----------------------------------------------------------------------------
\* The steps of a thread between its tasks.
LEMMA MovesKeep ==
  ASSUME ThreadPoolInv, NEW t \in PoolThread, PassesLoop(t) \/ TimesOut(t)
  PROVE  ThreadPoolInv'
<1>1. /\ ThreadPoolTypes /\ MineWhileServing /\ OneChanges /\ TasksKept /\ IdleIsCounted
  BY DEF ThreadPoolInv
<1>2. tpc \in [PoolThread -> Place] BY <1>1 DEF ThreadPoolTypes
<1>3. /\ tpc[t] \in {"loop", "wait"}
      /\ \E p \in {"gone", "wait", "loop"} : tpc' = [tpc EXCEPT ![t] = p]
      /\ UNCHANGED <<tasks, stop, idle, held, mine, begun, raced>>
  BY DEF PassesLoop, TimesOut, Goes
<1>4. tpc' \in [PoolThread -> Place] BY <1>2, <1>3 DEF Place
<1>5. ThreadPoolTypes' BY <1>1, <1>3, <1>4 DEF ThreadPoolTypes
<1>6. MineWhileServing' BY <1>1, <1>2, <1>3 DEF MineWhileServing
<1>7. OneChanges' BY <1>1, <1>2, <1>3 DEF OneChanges, Changing
<1>8. TasksKept' BY <1>1, <1>3, TasksAlone
<1>9. Busy' = Busy BY <1>2, <1>3 DEF Busy
<1>10. IdleIsCounted' BY <1>1, <1>3, <1>9, CountAlone
<1> QED BY <1>5, <1>6, <1>7, <1>8, <1>10 DEF ThreadPoolInv

\* Reading the count: a second reader before the first wrote is a race.
LEMMA ReadsKeep ==
  ASSUME ThreadPoolInv, NEW t \in PoolThread, LessIdleRead(t) \/ MoreIdleRead(t)
  PROVE  ThreadPoolInv'
<1>1. /\ ThreadPoolTypes /\ MineWhileServing /\ OneChanges /\ TasksKept /\ IdleIsCounted
  BY DEF ThreadPoolInv
<1>2. /\ tpc \in [PoolThread -> Place] /\ held \in [PoolThread -> 0..255] /\ idle \in 0..255
      /\ raced \in BOOLEAN
  BY <1>1 DEF ThreadPoolTypes
<1>3. /\ \/ tpc[t] = "idle--" /\ tpc' = [tpc EXCEPT ![t] = "idle-- write"]
         \/ tpc[t] = "idle++" /\ tpc' = [tpc EXCEPT ![t] = "idle++ write"]
      /\ held' = [held EXCEPT ![t] = idle]
      /\ raced' = (raced \/ \E u \in PoolThread \ {t} : tpc[u] \in Changing)
      /\ UNCHANGED <<tasks, stop, idle, mine, begun>>
  BY DEF LessIdleRead, MoreIdleRead, Reads, Goes
<1>4. ThreadPoolTypes'
  <2>1. tpc' \in [PoolThread -> Place] BY <1>2, <1>3 DEF Place
  <2>2. held' \in [PoolThread -> 0..255] BY <1>2, <1>3
  <2> QED BY <1>1, <1>3, <2>1, <2>2 DEF ThreadPoolTypes
<1>5. MineWhileServing' BY <1>1, <1>2, <1>3 DEF MineWhileServing
<1>6. OneChanges'
  <2> SUFFICES ASSUME ~raced' PROVE
        /\ \A u \in PoolThread : tpc'[u] \in Changing => held'[u] = idle'
        /\ \A u, v \in PoolThread : tpc'[u] \in Changing /\ tpc'[v] \in Changing => u = v
    BY DEF OneChanges, Changing
  <2>1. ~raced /\ \A u \in PoolThread \ {t} : tpc[u] \notin Changing BY <1>3
  <2>2. \A u \in PoolThread \ {t} : tpc'[u] \notin Changing BY <1>2, <1>3, <2>1
  <2>3. held'[t] = idle' BY <1>2, <1>3
  <2> QED BY <2>2, <2>3
<1>7. TasksKept' BY <1>1, <1>3, TasksAlone
<1>8. Busy' = Busy BY <1>2, <1>3 DEF Busy
<1>9. IdleIsCounted' BY <1>1, <1>3, <1>8 DEF IdleIsCounted
<1> QED BY <1>4, <1>5, <1>6, <1>7, <1>9 DEF ThreadPoolInv

\* Writing the count back.
LEMMA WritesKeep ==
  ASSUME ThreadPoolInv, NEW t \in PoolThread, LessIdle(t) \/ MoreIdle(t)
  PROVE  ThreadPoolInv'
<1>1. /\ ThreadPoolTypes /\ MineWhileServing /\ OneChanges /\ TasksKept /\ IdleIsCounted
  BY DEF ThreadPoolInv
<1>2. /\ tpc \in [PoolThread -> Place] /\ held \in [PoolThread -> 0..255] /\ idle \in 0..255
  BY <1>1 DEF ThreadPoolTypes
<1>3. /\ \/ /\ tpc[t] = "idle-- write" /\ tpc' = [tpc EXCEPT ![t] = "handle"]
            /\ idle' = (held[t] + 255) % 256
         \/ /\ tpc[t] = "idle++ write" /\ tpc' = [tpc EXCEPT ![t] = "loop"]
            /\ idle' = (held[t] + 1) % 256
      /\ UNCHANGED <<tasks, stop, held, mine, begun, raced>>
  BY DEF LessIdle, MoreIdle, Goes
<1>4. ThreadPoolTypes'
  <2>1. tpc' \in [PoolThread -> Place] BY <1>2, <1>3 DEF Place
  <2>2. held[t] \in 0..255 BY <1>2
  <2>3. (held[t] + 255) % 256 \in 0..255 /\ (held[t] + 1) % 256 \in 0..255 BY <2>2
  <2>4. idle' \in 0..255 BY <1>3, <2>3
  <2> QED BY <1>1, <1>3, <2>1, <2>4 DEF ThreadPoolTypes
<1>5. MineWhileServing' BY <1>1, <1>2, <1>3 DEF MineWhileServing
<1>6. ~raced => \A u \in PoolThread : tpc'[u] \notin Changing
  BY <1>1, <1>2, <1>3 DEF OneChanges, Changing
<1>7. OneChanges' BY <1>3, <1>6 DEF OneChanges, Changing
<1>8. TasksKept' BY <1>1, <1>3, TasksAlone
<1>9. IdleIsCounted'
  <2> SUFFICES ASSUME ~raced PROVE idle' = Cardinality(PoolThread) - Cardinality(Busy')
    BY <1>3 DEF IdleIsCounted
  <2>1. idle = Cardinality(PoolThread) - Cardinality(Busy) BY <1>1 DEF IdleIsCounted
  <2>2. held[t] = idle BY <1>1, <1>3 DEF OneChanges, Changing
  <2>3. Busy \in SUBSET PoolThread BY DEF Busy
  <2>4. CASE tpc[t] = "idle-- write"
    <3>1. t \in PoolThread \ Busy /\ Busy' = Busy \union {t} BY <1>2, <1>3, <2>4 DEF Busy
    <3>2. /\ Cardinality(Busy) \in Nat /\ Cardinality(PoolThread) \in Nat
          /\ Cardinality(Busy') = Cardinality(Busy) + 1
          /\ Cardinality(Busy) < Cardinality(PoolThread)
      BY <2>3, <3>1, BusyGrows
    <3>3. idle' = (idle + 255) % 256 BY <1>3, <2>2, <2>4
    <3>4. idle \in 1..255 BY <1>2, <2>1, <3>2
    <3>5. idle' = idle - 1 BY <3>3, <3>4
    <3> QED BY <2>1, <3>2, <3>5
  <2>5. CASE tpc[t] = "idle++ write"
    <3>1. t \in Busy /\ Busy' = Busy \ {t} BY <1>2, <1>3, <2>5 DEF Busy
    <3>2. /\ Cardinality(Busy) \in Nat /\ Cardinality(PoolThread) \in Nat
          /\ Cardinality(Busy') = Cardinality(Busy) - 1
          /\ 0 < Cardinality(Busy) /\ Cardinality(Busy) <= Cardinality(PoolThread)
          /\ Cardinality(PoolThread) < 256
      BY <2>3, <3>1, BusyShrinks
    <3>3. idle' = (idle + 1) % 256 BY <1>3, <2>2, <2>5
    <3>4. idle \in 0..254 BY <1>2, <2>1, <3>2
    <3>5. idle' = idle + 1 BY <3>3, <3>4
    <3> QED BY <2>1, <3>2, <3>5
  <2> QED BY <1>3, <2>4, <2>5
<1> QED BY <1>4, <1>5, <1>7, <1>8, <1>9 DEF ThreadPoolInv

\* The destructor only sets stop; a stutter changes nothing.
LEMMA StopKeeps ==
  ThreadPoolInv /\ (Stop \/ UNCHANGED threadPoolVars) => ThreadPoolInv'
<1> SUFFICES ASSUME ThreadPoolInv, Stop \/ UNCHANGED threadPoolVars PROVE ThreadPoolInv' OBVIOUS
<1>1. /\ stop' \in {stop, TRUE} /\ UNCHANGED <<tasks, idle, tpc, held, mine, begun, raced>>
  BY DEF Stop, threadPoolVars
<1>2. /\ ThreadPoolTypes /\ MineWhileServing /\ OneChanges /\ TasksKept /\ IdleIsCounted
  BY DEF ThreadPoolInv
<1>3. ThreadPoolTypes' BY <1>1, <1>2 DEF ThreadPoolTypes
<1>4. MineWhileServing' /\ OneChanges' BY <1>1, <1>2 DEF MineWhileServing, OneChanges, Changing
<1>5. TasksKept' BY <1>1, <1>2, TasksAlone
<1>6. IdleIsCounted' BY <1>1, <1>2, CountAlone DEF Busy
<1> QED BY <1>3, <1>4, <1>5, <1>6 DEF ThreadPoolInv

-----------------------------------------------------------------------------
\* The strengthened invariant holds in every state of the pool (thread_pool.cpp).
THEOREM PoolInvariance == ThreadPoolSpec => []ThreadPoolInv
<1>1. ThreadPoolInv /\ [ThreadPoolNext]_threadPoolVars => ThreadPoolInv'
  <2> SUFFICES ASSUME ThreadPoolInv, [ThreadPoolNext]_threadPoolVars PROVE ThreadPoolInv'
    OBVIOUS
  <2>1. CASE AddTask BY <2>1, AddTaskKeeps
  <2>2. CASE Stop \/ UNCHANGED threadPoolVars BY <2>2, StopKeeps
  <2>3. ASSUME NEW t \in PoolThread, PassesLoop(t) \/ TimesOut(t) PROVE ThreadPoolInv'
    BY <2>3, MovesKeep
  <2>4. ASSUME NEW t \in PoolThread, Take(t) PROVE ThreadPoolInv' BY <2>4, TakeKeeps
  <2>5. ASSUME NEW t \in PoolThread, LessIdleRead(t) \/ MoreIdleRead(t) PROVE ThreadPoolInv'
    BY <2>5, ReadsKeep
  <2>6. ASSUME NEW t \in PoolThread, LessIdle(t) \/ MoreIdle(t) PROVE ThreadPoolInv'
    BY <2>6, WritesKeep
  <2>7. ASSUME NEW t \in PoolThread, Handle(t) PROVE ThreadPoolInv' BY <2>7, HandleKeeps
  <2> QED BY <2>1, <2>2, <2>3, <2>4, <2>5, <2>6, <2>7 DEF ThreadPoolNext
<1> QED BY <1>1, InitEstablishes, PTL DEF ThreadPoolSpec

\* For any number of threads and tasks the pool serves what was added, once and
\* in order, and counts its idle threads right until two changes of the count
\* meet (thread_work).
THEOREM PoolServesHolds == ThreadPoolSpec => []PoolServes
<1>1. ThreadPoolInv => PoolServes BY DEF ThreadPoolInv, PoolServes
<1> QED BY <1>1, PoolInvariance, PTL

(*****************************************************************************)
(* CircuitQueue: the ring.                                                   *)
(*****************************************************************************)

\* The places of a ring of Size: what the remainder does to sums.
LEMMA PlaceFacts ==
  /\ \A n \in Int : n % Size \in 0 .. Size - 1
  /\ \A n \in 0 .. Size - 1 : n % Size = n
  /\ \A n \in Size .. 2 * Size - 1 : n % Size = n - Size
  /\ \A n, m \in Int : ((n % Size) + m) % Size = (n + m) % Size
  /\ \A n, m \in Int : n < m /\ m < n + Size => n % Size # m % Size
<1>1. \A n \in Int : n % Size \in 0 .. Size - 1 /\ n \div Size \in Int
  BY QueueAssumption
<1>2. \A n \in Int : n = Size * (n \div Size) + (n % Size)
  BY QueueAssumption
<1>3. ASSUME NEW n \in Int, NEW q \in Int, NEW r \in 0 .. Size - 1, n = Size * q + r
      PROVE  n % Size = r
  <2> DEFINE p == n \div Size  s == n % Size
  <2>1. p \in Int /\ s \in 0 .. Size - 1 /\ Size * p + s = Size * q + r
    BY <1>1, <1>2, <1>3
  <2> HIDE DEF p, s
  <2>2. p = q
    <3>1. CASE p < q
      <4>1. Size * p + Size <= Size * q
        BY <2>1, <3>1, QueueAssumption
      <4> QED BY <2>1, <4>1, QueueAssumption
    <3>2. CASE q < p
      <4>1. Size * q + Size <= Size * p
        BY <2>1, <3>2, QueueAssumption
      <4> QED BY <2>1, <4>1, QueueAssumption
    <3> QED BY <2>1, <3>1, <3>2
  <2>3. s = r
    BY <2>1, <2>2, QueueAssumption
  <2> QED BY <2>3 DEF s
<1>4. \A n \in 0 .. Size - 1 : n % Size = n
  <2> TAKE n \in 0 .. Size - 1
  <2>1. n = Size * 0 + n
    BY QueueAssumption
  <2> QED BY <1>3, <2>1
<1>5. \A n \in Size .. 2 * Size - 1 : n % Size = n - Size
  <2> TAKE n \in Size .. 2 * Size - 1
  <2>1. n = Size * 1 + (n - Size) /\ n - Size \in 0 .. Size - 1 /\ n \in Int
    BY QueueAssumption
  <2> QED BY <1>3, <2>1
<1>6. \A n, m \in Int : ((n % Size) + m) % Size = (n + m) % Size
  <2> TAKE n, m \in Int
  <2> DEFINE a == (n % Size) + m
  <2>1. a \in Int /\ n \div Size \in Int /\ a \div Size \in Int
    BY <1>1, QueueAssumption
  <2>2. a = Size * (a \div Size) + (a % Size) /\ n = Size * (n \div Size) + (n % Size)
    BY <1>2, <2>1
  <2> DEFINE q == n \div Size  p == a \div Size  r == a % Size
  <2>3. r \in 0 .. Size - 1 /\ p \in Int /\ q \in Int
    BY <1>1, <2>1
  <2>4. n + m = Size * q + a
    BY <2>1, <2>2, <2>3, QueueAssumption
  <2>5. a = Size * p + r
    BY <2>2
  <2>6. n + m = Size * (q + p) + r
    <3> HIDE DEF a, q, p, r
    <3> QED BY <2>1, <2>3, <2>4, <2>5, QueueAssumption
  <2>7. q + p \in Int /\ n + m \in Int
    BY <2>3
  <2> HIDE DEF a, q, p, r
  <2>8. (n + m) % Size = r
    BY <1>3, <2>3, <2>6, <2>7
  <2> QED BY <2>8 DEF r, a
<1>7. \A n, m \in Int : n < m /\ m < n + Size => n % Size # m % Size
  <2> SUFFICES ASSUME NEW n \in Int, NEW m \in Int, n < m, m < n + Size, n % Size = m % Size
               PROVE  FALSE
    OBVIOUS
  <2> DEFINE q == n \div Size  p == m \div Size  r == n % Size
  <2>1. r \in 0 .. Size - 1 /\ p \in Int /\ q \in Int /\ n = Size * q + r /\ m = Size * p + r
    BY <1>1, <1>2
  <2> HIDE DEF q, p, r
  <2>2. CASE p <= q
    <3>1. Size * p <= Size * q
      BY <2>1, <2>2, QueueAssumption
    <3> QED BY <2>1, <3>1, QueueAssumption
  <2>3. CASE q < p
    <3>1. Size * q + Size <= Size * p
      BY <2>1, <2>3, QueueAssumption
    <3> QED BY <2>1, <3>1, QueueAssumption
  <2> QED BY <2>1, <2>2, <2>3
<1> QED BY <1>1, <1>4, <1>5, <1>6, <1>7

-----------------------------------------------------------------------------
\* The remainder is only used through its facts.
PlaceOf(n) == n % Size

RingType ==
  /\ ring = [data |-> ring.data, head |-> ring.head, tail |-> ring.tail, length |-> ring.length]
  /\ ring.data = [p \in Places |-> ring.data[p]]
  /\ ring.head \in 0 .. Size - 1 /\ ring.tail \in 0 .. Size - 1
  /\ ring.length \in Int /\ ring.length <= Size
  /\ written \in Nat /\ taken \in Nat /\ beyond \in BOOLEAN

\* The tail is where the head comes to after length items, also when there are
\* less than none.
TailAfterHead == /\ ring.length = written - taken
                 /\ ring.tail = PlaceOf(ring.head + ring.length)

\* The items that are there lie one after the other from the head on.
ItemsInPlace ==
  ~beyond => \A i \in 1 .. ring.length : ring.data[PlaceOf(ring.head + i - 1)] = taken + i

QueueInv == RingType /\ TailAfterHead /\ ItemsInPlace

\* What the lemmas below need of the remainder.
LEMMA PlaceOfFacts ==
  /\ \A n \in Int : PlaceOf(n) \in 0 .. Size - 1
  /\ \A n \in 0 .. Size - 1 : PlaceOf(n) = n
  /\ \A n \in Int : Size <= n /\ n < Size + Size => PlaceOf(n) = n - Size
  /\ \A n, m \in Int : PlaceOf(PlaceOf(n) + m) = PlaceOf(n + m)
  /\ \A n, m \in Int : n < m /\ m < n + Size => PlaceOf(n) # PlaceOf(m)
<1>1. \A n \in Int : Size <= n /\ n < Size + Size => n \in Size .. 2 * Size - 1
  BY QueueAssumption
<1> QED BY <1>1, PlaceFacts DEF PlaceOf

\* Beyond the end of the ring.
LEMMA PlaceAfterEnd ==
  ASSUME NEW n \in Int, Size <= n, n < Size + Size  PROVE PlaceOf(n) = n - Size
  BY PlaceOfFacts

\* The empty queue.
LEMMA QueueInvInit == QueueInit => QueueInv
<1>1. 0 \in 0 .. Size - 1 /\ Size \in Nat /\ PlaceOf(0) = 0
  BY QueueAssumption, PlaceOfFacts
<1> SUFFICES ASSUME QueueInit  PROVE QueueInv
  OBVIOUS
<1>2. /\ ring = [data |-> [i \in Places |-> Junk], head |-> 0, tail |-> 0, length |-> 0]
      /\ written = 0 /\ taken = 0 /\ beyond = FALSE
  BY DEF QueueInit
<1>3. RingType
  <2>1. ring.data = [p \in Places |-> ring.data[p]]
    BY <1>2
  <2>2. ring = [data |-> ring.data, head |-> ring.head, tail |-> ring.tail, length |-> ring.length]
    BY <1>2
  <2>3. ring.head = 0 /\ ring.tail = 0 /\ ring.length = 0
    BY <1>2
  <2>4. written \in Nat /\ taken \in Nat /\ beyond \in BOOLEAN
    BY <1>2
  <2> QED BY <1>1, <2>1, <2>2, <2>3, <2>4 DEF RingType
<1>4. TailAfterHead /\ ItemsInPlace
  BY <1>1, <1>2 DEF TailAfterHead, ItemsInPlace
<1> QED BY <1>3, <1>4 DEF QueueInv

\* Items written behind the tail in the places that are free: those that were
\* there stay where they are.
LEMMA ItemsWritten ==
  ASSUME QueueInv, NEW count \in Lengths, count <= Space, NEW data,
         data = [p \in Places |-> data[p]],
         ring' = [Advanced(count) EXCEPT !.data = data],
         written' = written + count, taken' = taken, beyond' \in BOOLEAN, beyond => beyond',
         ~beyond' => \A p \in 0 .. Size - 1 :
            \/ data[p] = ring.data[p] /\ \A j \in 1 .. count : p # PlaceOf(ring.tail + j - 1)
            \/ \E j \in 1 .. count : p = PlaceOf(ring.tail + j - 1) /\ data[p] = written + j
  PROVE  QueueInv'
<1> DEFINE h == ring.head  n == ring.length
<1>1. count \in 0 .. Size /\ Size \in Nat \ {0} /\ n + count <= Size
  BY QueueAssumption DEF Space, QueueInv, RingType
<1>2. /\ h \in 0 .. Size - 1 /\ n \in Int /\ n <= Size /\ ring.tail \in 0 .. Size - 1
      /\ written \in Nat /\ taken \in Nat /\ n = written - taken /\ ring.tail = PlaceOf(h + n)
  BY DEF QueueInv, RingType, TailAfterHead
<1>3. ring' = [data |-> data, head |-> h, tail |-> PlaceOf(ring.tail + count), length |-> n + count]
  BY DEF QueueInv, RingType, Advanced, PlaceOf
<1>4. PlaceOf(ring.tail + count) \in 0 .. Size - 1
      /\ PlaceOf(ring.tail + count) = PlaceOf(h + (n + count))
  <2> HIDE DEF h, n
  <2>1. PlaceOf(ring.tail + count) = PlaceOf((h + n) + count) /\ (h + n) + count = h + (n + count)
    <3>1. h + n \in Int /\ count \in Int /\ (h + n) + count = h + (n + count)
      BY <1>1, <1>2
    <3>2. PlaceOf(PlaceOf(h + n) + count) = PlaceOf((h + n) + count)
      BY <3>1, PlaceOfFacts
    <3> QED BY <1>2, <3>1, <3>2
  <2>2. ring.tail + count \in Int
    BY <1>1, <1>2
  <2> QED BY <2>1, <2>2, PlaceOfFacts
<1>5. RingType' /\ TailAfterHead'
  <2> HIDE DEF h, n
  <2>1. /\ ring'.data = data /\ ring'.head = h /\ ring'.tail = PlaceOf(ring.tail + count)
        /\ ring'.length = n + count
    BY <1>3
  <2>2. RingType'
    <3>1. ring'.data = [p \in Places |-> ring'.data[p]]
      BY <2>1
    <3>2. ring' = [data |-> ring'.data, head |-> ring'.head, tail |-> ring'.tail, length |-> ring'.length]
      BY <1>3
    <3> QED BY <1>1, <1>2, <1>4, <2>1, <3>1, <3>2 DEF RingType
  <2>3. TailAfterHead'
    BY <1>1, <1>2, <1>4, <2>1 DEF TailAfterHead
  <2> QED BY <2>2, <2>3
<1>6. ItemsInPlace'
  <2> SUFFICES ASSUME ~beyond', NEW i \in 1 .. n + count
               PROVE  data[PlaceOf(h + i - 1)] = taken + i
    BY <1>3 DEF ItemsInPlace
  <2> DEFINE p == PlaceOf(h + i - 1)
  <2> HIDE DEF h, n
  <2>0. p \in 0 .. Size - 1
    BY <1>1, <1>2, PlaceOfFacts
  <2>1. \A j \in 1 .. count : PlaceOf(ring.tail + j - 1) = PlaceOf(h + n + j - 1)
    <3> TAKE j \in 1 .. count
    <3>1. h + n \in Int /\ j - 1 \in Int
      BY <1>1, <1>2
    <3>2. PlaceOf(ring.tail + (j - 1)) = PlaceOf((h + n) + (j - 1))
      BY <1>2, <3>1, PlaceOfFacts
    <3>3. ring.tail + (j - 1) = ring.tail + j - 1 /\ (h + n) + (j - 1) = h + n + j - 1
      BY <1>1, <1>2
    <3> QED BY <3>2, <3>3
  <2>2. CASE i <= n
    <3>1. \A j \in 1 .. count : p # PlaceOf(ring.tail + j - 1)
      <4> TAKE j \in 1 .. count
      <4>1. h + i - 1 < h + n + j - 1 /\ h + n + j - 1 < h + i - 1 + Size
            /\ h + i - 1 \in Int /\ h + n + j - 1 \in Int
        BY <1>1, <1>2, <2>2
      <4> QED BY <2>1, <4>1, PlaceOfFacts
    <3>2. data[p] = ring.data[p]
      BY <2>0, <3>1
    <3>3. ring.data[p] = taken + i
      BY <1>2, <2>2 DEF QueueInv, ItemsInPlace, h, n
    <3> QED BY <3>2, <3>3
  <2>3. CASE n < i
    <3>1. PICK k \in 1 .. count : k = i - n
      BY <1>1, <1>2, <2>3
    <3>2. p = PlaceOf(ring.tail + k - 1)
      <4>1. h + i - 1 = h + n + k - 1
        BY <1>1, <1>2, <3>1
      <4> QED BY <2>1, <4>1
    <3>3. PICK j \in 1 .. count : p = PlaceOf(ring.tail + j - 1) /\ data[p] = written + j
      BY <2>0, <3>2
    <3>4. j = k
      <4>1. CASE j < k
        <5>1. h + n + j - 1 < h + n + k - 1 /\ h + n + k - 1 < h + n + j - 1 + Size
              /\ h + n + j - 1 \in Int /\ h + n + k - 1 \in Int
          BY <1>1, <1>2, <4>1
        <5> QED BY <2>1, <3>2, <3>3, <5>1, PlaceOfFacts
      <4>2. CASE k < j
        <5>1. h + n + k - 1 < h + n + j - 1 /\ h + n + j - 1 < h + n + k - 1 + Size
              /\ h + n + j - 1 \in Int /\ h + n + k - 1 \in Int
          BY <1>1, <1>2, <4>2
        <5> QED BY <2>1, <3>2, <3>3, <5>1, PlaceOfFacts
      <4> QED BY <4>1, <4>2
    <3> QED BY <1>2, <3>1, <3>3, <3>4
  <2> QED BY <1>1, <1>2, <2>2, <2>3
<1> QED BY <1>5, <1>6 DEF QueueInv

\* Enqueue, unless a copy runs over the end, fills the places behind the tail.
LEMMA EnqueueStep ==
  ASSUME QueueInv, NEW count \in Lengths, Enqueue(count)
  PROVE  QueueInv'
<1> DEFINE back == Size - ring.tail
           wraps == ring.head <= ring.tail /\ back < count
           first == IF wraps THEN back ELSE count
           copied == Put(ring.data, ring.tail, written + 1, first)
           data == IF wraps THEN Put(copied, 0, written + 1 + back, count - back) ELSE copied
<1>1. /\ count <= Space /\ ring' = [Advanced(count) EXCEPT !.data = data]
      /\ beyond' = (beyond \/ ring.tail + first > Size)
      /\ written' = written + count /\ taken' = taken
  BY QueueAssumption DEF Enqueue, QueueInv, RingType, Space
<1>2. count \in 0 .. Size /\ ring.tail \in 0 .. Size - 1 /\ back \in 1 .. Size
      /\ Size \in Nat /\ Extra \in Nat /\ written \in Nat
  BY QueueAssumption DEF QueueInv, RingType
<1>3. first \in 0 .. Size
  BY <1>2
<1> DEFINE p1(p) == p \in ring.tail .. ring.tail + first - 1
           p2(p) == wraps /\ p \in 0 .. count - back - 1
<1>4. /\ data = [p \in Places |-> data[p]]
      /\ \A p \in 0 .. Size - 1 :
           data[p] = IF p2(p) THEN written + 1 + back + p
                     ELSE IF p1(p) THEN written + 1 + p - ring.tail ELSE ring.data[p]
  <2>1. \A p \in 0 .. Size - 1 : p \in Places
    BY <1>2 DEF Places
  <2>2. copied = [p \in Places |-> IF p1(p) THEN written + 1 + p - ring.tail ELSE ring.data[p]]
    BY DEF Put
  <2>3. CASE wraps
    <3>1. data = [p \in Places |-> IF p \in 0 .. 0 + (count - back) - 1 THEN written + 1 + back + p - 0 ELSE copied[p]]
      BY <2>3 DEF Put
    <3> HIDE DEF data, copied, p1, first
    <3>2. \A p \in 0 .. Size - 1 :
            data[p] = IF p \in 0 .. count - back - 1 THEN written + 1 + back + p ELSE copied[p]
      BY <1>2, <2>1, <3>1
    <3> QED BY <2>1, <2>2, <2>3, <3>1, <3>2
  <2>4. CASE ~wraps
    <3>1. data = copied
      BY <2>4
    <3> HIDE DEF data, copied, p1, first
    <3> QED BY <2>1, <2>2, <2>4, <3>1
  <2> QED BY <2>3, <2>4
<1>5. ASSUME ~beyond', NEW p \in 0 .. Size - 1
      PROVE  \/ data[p] = ring.data[p] /\ \A j \in 1 .. count : p # PlaceOf(ring.tail + j - 1)
             \/ \E j \in 1 .. count : p = PlaceOf(ring.tail + j - 1) /\ data[p] = written + j
  <2>1. ring.tail + first <= Size
    <3> HIDE DEF first, data
    <3>1. ~(ring.tail + first > Size)
      BY <1>1, <1>5
    <3> QED BY <1>2, <1>3, <3>1
  <2>2. \A j \in 1 .. count : PlaceOf(ring.tail + j - 1) =
          IF ring.tail + j - 1 < Size THEN ring.tail + j - 1 ELSE ring.tail + j - 1 - Size
    <3> TAKE j \in 1 .. count
    <3>1. CASE ring.tail + j - 1 < Size
      <4>1. ring.tail + j - 1 \in 0 .. Size - 1
        BY <1>2, <3>1
      <4> QED BY <3>1, <4>1, PlaceOfFacts
    <3>2. CASE ~(ring.tail + j - 1 < Size)
      <4>1. ring.tail + j - 1 \in Int /\ Size <= ring.tail + j - 1 /\ ring.tail + j - 1 < Size + Size
        BY <1>2, <3>2
      <4>2. PlaceOf(ring.tail + j - 1) = ring.tail + j - 1 - Size
        BY <1>2, <4>1, PlaceAfterEnd
      <4> QED BY <3>2, <4>2
    <3> QED BY <3>1, <3>2
  <2>3. CASE p2(p)
    <3>1. back + p + 1 \in 1 .. count /\ ring.tail + (back + p + 1) - 1 = Size + p
      BY <1>2, <2>3
    <3>2. PlaceOf(ring.tail + (back + p + 1) - 1) = p
      BY <1>2, <2>2, <3>1
    <3>3. data[p] = written + (back + p + 1)
      BY <1>2, <1>4, <2>3
    <3> HIDE DEF back, data
    <3> QED BY <3>1, <3>2, <3>3
  <2>4. CASE ~p2(p) /\ p1(p)
    <3>1. p - ring.tail + 1 \in 1 .. count /\ ring.tail + (p - ring.tail + 1) - 1 = p
      BY <1>2, <2>4
    <3>2. PlaceOf(ring.tail + (p - ring.tail + 1) - 1) = p
      BY <1>2, <2>2, <3>1
    <3>3. data[p] = written + 1 + p - ring.tail
      <4> HIDE DEF data, p1, p2
      <4> QED BY <1>4, <2>4
    <3>4. written + 1 + p - ring.tail = written + (p - ring.tail + 1)
      BY <1>2
    <3> HIDE DEF back, data
    <3> QED BY <3>1, <3>2, <3>3, <3>4
  <2>5. CASE ~p2(p) /\ ~p1(p)
    <3>1. data[p] = ring.data[p]
      <4> HIDE DEF data, p1, p2
      <4> QED BY <1>4, <2>5
    <3>2. \A j \in 1 .. count : p # PlaceOf(ring.tail + j - 1)
      <4> HIDE DEF data
      <4> TAKE j \in 1 .. count
      <4>1. CASE wraps
        BY <1>2, <2>1, <2>2, <2>5, <4>1
      <4>2. CASE ~wraps
        BY <1>2, <2>1, <2>2, <2>5, <4>2
      <4> QED BY <4>1, <4>2
    <3> QED BY <3>1, <3>2
  <2> QED BY <2>3, <2>4, <2>5
<1>6. beyond' \in BOOLEAN /\ (beyond => beyond')
  BY <1>1 DEF QueueInv, RingType
<1>7. data = [p \in Places |-> data[p]]
  BY <1>4
<1> HIDE DEF data, first
<1> QED BY <1>1, <1>5, <1>6, <1>7, ItemsWritten

\* What was received at the tail fits before the end or before the head.
LEMMA CompletionStep ==
  ASSUME QueueInv, NEW count \in Lengths, Completion(count)
  PROVE  QueueInv'
<1> DEFINE data == Put(ring.data, ring.tail, written + 1, count)
<1>1. /\ count <= Space /\ count <= Writable /\ ring' = [Advanced(count) EXCEPT !.data = data]
      /\ beyond' = beyond /\ written' = written + count /\ taken' = taken
  BY QueueAssumption DEF Completion, QueueInv, RingType, Space
<1>2. count \in 0 .. Size /\ ring.tail \in 0 .. Size - 1 /\ ring.head \in 0 .. Size - 1
      /\ Size \in Nat /\ Extra \in Nat /\ written \in Nat /\ ring.length \in Int /\ beyond \in BOOLEAN
  BY QueueAssumption DEF QueueInv, RingType
<1>3. ring.tail + count <= Size
  BY <1>1, <1>2 DEF Writable
<1>4. /\ data = [p \in Places |-> data[p]]
      /\ \A p \in 0 .. Size - 1 :
           data[p] = IF p \in ring.tail .. ring.tail + count - 1 THEN written + 1 + p - ring.tail
                     ELSE ring.data[p]
  <2>1. data = [p \in Places |-> IF p \in ring.tail .. ring.tail + count - 1
                                 THEN written + 1 + p - ring.tail ELSE ring.data[p]]
    BY DEF Put
  <2>2. \A p \in 0 .. Size - 1 : p \in Places
    BY <1>2 DEF Places
  <2> HIDE DEF data
  <2> QED BY <2>1, <2>2
<1>5. ASSUME NEW p \in 0 .. Size - 1
      PROVE  \/ data[p] = ring.data[p] /\ \A j \in 1 .. count : p # PlaceOf(ring.tail + j - 1)
             \/ \E j \in 1 .. count : p = PlaceOf(ring.tail + j - 1) /\ data[p] = written + j
  <2>1. \A j \in 1 .. count : PlaceOf(ring.tail + j - 1) = ring.tail + j - 1
    <3> TAKE j \in 1 .. count
    <3>1. ring.tail + j - 1 \in 0 .. Size - 1
      BY <1>2, <1>3
    <3> QED BY <3>1, PlaceOfFacts
  <2> HIDE DEF data
  <2>2. CASE p \in ring.tail .. ring.tail + count - 1
    <3>1. p - ring.tail + 1 \in 1 .. count /\ p = ring.tail + (p - ring.tail + 1) - 1
          /\ written + 1 + p - ring.tail = written + (p - ring.tail + 1)
      BY <1>2, <2>2
    <3>2. data[p] = written + 1 + p - ring.tail
      BY <1>4, <2>2
    <3> QED BY <2>1, <3>1, <3>2
  <2>3. CASE p \notin ring.tail .. ring.tail + count - 1
    <3>1. data[p] = ring.data[p]
      BY <1>4, <2>3
    <3>2. \A j \in 1 .. count : ring.tail + j - 1 \in ring.tail .. ring.tail + count - 1
      BY <1>2
    <3>3. QED  BY <2>1, <2>3, <3>1, <3>2
  <2> QED BY <2>2, <2>3
<1>6. beyond' \in BOOLEAN /\ (beyond => beyond')
  BY <1>1, <1>2
<1>7. data = [p \in Places |-> data[p]]
  BY <1>4
<1> HIDE DEF data
<1> QED BY <1>1, <1>5, <1>6, <1>7, ItemsWritten

\* The head goes on only when there are less items than that: none is left,
\* and what is written next comes to the place the head awaits it at.
LEMMA DequeueStep ==
  ASSUME QueueInv, NEW count \in Lengths, Dequeue(count)
  PROVE  QueueInv'
<1> DEFINE h == PlaceOf(ring.head + count)  n == ring.length - count
<1>1. /\ ring.length < count /\ taken' = taken + count /\ UNCHANGED <<written, beyond>>
      /\ count \in 0 .. Size /\ ring.head \in 0 .. Size - 1 /\ ring.length \in Int /\ Size \in Nat
      /\ ring.tail \in 0 .. Size - 1 /\ written \in Nat /\ taken \in Nat /\ beyond \in BOOLEAN
      /\ ring.length = written - taken
  BY QueueAssumption DEF Dequeue, CanPeek, QueueInv, RingType, TailAfterHead
<1>2. ring' = [data |-> ring.data, head |-> h, tail |-> ring.tail, length |-> n]
  BY DEF Dequeue, PlaceOf, QueueInv, RingType
<1>3. h \in 0 .. Size - 1 /\ PlaceOf(h + n) = ring.tail
  <2>1. ring.head + count \in Int /\ n \in Int /\ (ring.head + count) + n = ring.head + ring.length
    BY <1>1
  <2> HIDE DEF n
  <2>2. h \in 0 .. Size - 1 /\ PlaceOf(h + n) = PlaceOf((ring.head + count) + n)
    BY <2>1, PlaceOfFacts
  <2> QED BY <2>1, <2>2 DEF QueueInv, TailAfterHead
<1>4. n < 0 /\ n \in Int /\ n = written' - taken'
  BY <1>1
<1>5. ring.data = [p \in Places |-> ring.data[p]]
  BY DEF QueueInv, RingType
<1> HIDE DEF h, n
<1>6. /\ ring'.data = ring.data /\ ring'.head = h /\ ring'.tail = ring.tail /\ ring'.length = n
  BY <1>2
<1>7. written' \in Nat /\ taken' \in Nat /\ beyond' \in BOOLEAN
  BY <1>1
<1>8. ring'.length <= Size /\ ring'.length \in Int
  BY <1>1, <1>4, <1>6
<1>9. RingType'
  <2>1. ring' = [data |-> ring'.data, head |-> ring'.head, tail |-> ring'.tail, length |-> ring'.length]
    BY <1>2
  <2> QED BY <1>1, <1>3, <1>5, <1>6, <1>7, <1>8, <2>1 DEF RingType
<1>10. TailAfterHead' /\ ItemsInPlace'
  BY <1>3, <1>4, <1>6 DEF TailAfterHead, ItemsInPlace
<1> QED BY <1>9, <1>10 DEF QueueInv

\* A copy of the start behind the end changes nothing that is read.
LEMMA FirstPacketStep ==
  ASSUME QueueInv, NEW count \in Lengths, FirstPacket(count)
  PROVE  QueueInv'
<1> DEFINE data == [i \in Places |-> IF i \in Size .. Size + count - BackCount - 1
                                     THEN ring.data[i - Size] ELSE ring.data[i]]
<1>1. /\ ring' = [data |-> data, head |-> ring.head, tail |-> ring.tail, length |-> ring.length]
      /\ UNCHANGED <<written, taken>>
      /\ beyond' \in BOOLEAN /\ (~beyond' => ~beyond)
  BY DEF FirstPacket, QueueInv, RingType
<1>2. data = [p \in Places |-> data[p]] /\ \A p \in 0 .. Size - 1 : data[p] = ring.data[p]
  <2>1. \A p \in 0 .. Size - 1 : p \in Places /\ p \notin Size .. Size + count - BackCount - 1
    BY QueueAssumption DEF Places, BackCount
  <2> QED BY <2>1
<1> HIDE DEF data
<1>3. ring'.data = data /\ ring'.head = ring.head /\ ring'.tail = ring.tail /\ ring'.length = ring.length
  BY <1>1
<1>4. RingType' /\ TailAfterHead'
  BY <1>1, <1>2, <1>3 DEF QueueInv, RingType, TailAfterHead
<1>5. ItemsInPlace'
  <2> SUFFICES ASSUME ~beyond, NEW i \in 1 .. ring.length
               PROVE  data[PlaceOf(ring.head + i - 1)] = taken + i
    BY <1>1, <1>3 DEF ItemsInPlace
  <2>1. ring.head + i - 1 \in Int
    BY QueueAssumption DEF QueueInv, RingType
  <2>2. PlaceOf(ring.head + i - 1) \in 0 .. Size - 1
    BY <2>1, PlaceOfFacts
  <2> QED BY <1>2, <2>2 DEF QueueInv, ItemsInPlace
<1> QED BY <1>4, <1>5 DEF QueueInv

\* Clearing the queue.
LEMMA QueueClearStep == QueueInv /\ QueueClear => QueueInv'
<1> SUFFICES ASSUME QueueInv, QueueClear  PROVE QueueInv'
  OBVIOUS
<1>1. /\ ring' = [data |-> ring.data, head |-> 0, tail |-> 0, length |-> 0]
      /\ taken' = written /\ UNCHANGED <<written, beyond>>
  BY DEF QueueClear, QueueInv, RingType
<1>2. 0 \in 0 .. Size - 1 /\ Size \in Nat /\ PlaceOf(0) = 0
  BY QueueAssumption, PlaceOfFacts
<1>3. ring'.data = ring.data /\ ring'.head = 0 /\ ring'.tail = 0 /\ ring'.length = 0
  BY <1>1
<1>4. RingType'
  BY <1>1, <1>2, <1>3 DEF QueueInv, RingType
<1>5. TailAfterHead' /\ ItemsInPlace'
  <2>1. written' - taken' = 0
    BY <1>1 DEF QueueInv, RingType
  <2>2. TailAfterHead'
    BY <1>2, <1>3, <2>1 DEF TailAfterHead
  <2>3. ItemsInPlace'
    BY <1>3 DEF ItemsInPlace
  <2> QED BY <2>2, <2>3
<1> QED BY <1>4, <1>5 DEF QueueInv

\* Every step.
LEMMA QueueInvStep == QueueInv /\ [QueueNext]_queueVars => QueueInv'
<1> SUFFICES ASSUME QueueInv, [QueueNext]_queueVars  PROVE QueueInv'
  OBVIOUS
<1>1. CASE UNCHANGED queueVars
  BY <1>1 DEF queueVars, QueueInv, RingType, TailAfterHead, ItemsInPlace
<1> QED BY <1>1, EnqueueStep, CompletionStep, DequeueStep, FirstPacketStep, QueueClearStep DEF QueueNext

\* The head and the length say where the tail is, wrapped or not.
LEMMA TailOfLength ==
  ASSUME QueueInv, ring.length >= 0
  PROVE  ring.tail = IF ring.head + ring.length < Size THEN ring.head + ring.length
                     ELSE ring.head + ring.length - Size
<1>1. /\ ring.head \in 0 .. Size - 1 /\ ring.length \in Int /\ ring.length <= Size /\ Size \in Nat
      /\ ring.tail = PlaceOf(ring.head + ring.length)
  BY QueueAssumption DEF QueueInv, RingType, TailAfterHead
<1>2. CASE ring.head + ring.length < Size
  <2>1. ring.head + ring.length \in 0 .. Size - 1
    BY <1>1, <1>2
  <2> QED BY <1>1, <1>2, <2>1, PlaceOfFacts
<1>3. CASE ~(ring.head + ring.length < Size)
  <2>1. ring.head + ring.length \in Int /\ Size <= ring.head + ring.length
        /\ ring.head + ring.length < Size + Size
    BY <1>1, <1>3
  <2>2. PlaceOf(ring.head + ring.length) = ring.head + ring.length - Size
    BY <1>1, <2>1, PlaceAfterEnd
  <2> QED BY <1>1, <1>3, <2>2
<1> QED BY <1>2, <1>3

\* What the invariant says of the items a caller peeks at.
LEMMA QueueInvOrder == QueueInv => PeeksInOrder
<1> SUFFICES ASSUME QueueInv, ~beyond  PROVE PeeksInOrder
  BY DEF PeeksInOrder
<1>1. /\ ring.head \in 0 .. Size - 1 /\ ring.tail \in 0 .. Size - 1
      /\ ring.length \in Int /\ ring.length <= Size /\ Size \in Nat
  BY QueueAssumption DEF QueueInv, RingType
<1>2. ring.length = written - taken
  BY DEF QueueInv, TailAfterHead
<1>3. ASSUME NEW count \in 1 .. Size, CanPeek(count), NEW i \in 1 .. count
      PROVE  Peek(count)[i] = taken + i
  <2>1. count <= ring.length
    BY <1>1, <1>3 DEF CanPeek
  <2>2. ring.data[PlaceOf(ring.head + i - 1)] = taken + i
    BY <1>1, <2>1 DEF QueueInv, ItemsInPlace
  <2>3. Peek(count)[i] = IF ring.head < ring.tail \/ BackCount >= count \/ i <= BackCount
                         THEN ring.data[ring.head + i - 1] ELSE ring.data[i - 1 - BackCount]
    BY DEF Peek
  <2>4. CASE ring.head < ring.tail \/ BackCount >= count \/ i <= BackCount
    <3>1. ring.head + i - 1 \in 0 .. Size - 1
      BY <1>1, <2>1, <2>4, TailOfLength DEF BackCount
    <3> QED BY <2>2, <2>3, <2>4, <3>1, PlaceOfFacts
  <2>5. CASE ~(ring.head < ring.tail \/ BackCount >= count \/ i <= BackCount)
    <3>1. ring.head + i - 1 \in Int /\ Size <= ring.head + i - 1 /\ ring.head + i - 1 < Size + Size
          /\ ring.head + i - 1 - Size = i - 1 - BackCount
      BY <1>1, <2>5 DEF BackCount
    <3>2. PlaceOf(ring.head + i - 1) = ring.head + i - 1 - Size
      BY <1>1, <3>1, PlaceAfterEnd
    <3> QED BY <2>2, <2>3, <2>5, <3>1, <3>2
  <2> QED BY <2>4, <2>5
<1>4. ring.length >= 0 => Readable <= ring.length /\ Writable <= Space
  BY <1>1, TailOfLength DEF Readable, Writable, Space
<1> QED BY <1>2, <1>3, <1>4 DEF PeeksInOrder

\* Whatever the size of the ring and the lengths that are asked for, what can be
\* peeked is the stream in its order, until a copy ran over the end.
THEOREM RingPeeksInOrder == QueueInit /\ [][QueueNext]_queueVars => []PeeksInOrder
  BY QueueInvInit, QueueInvStep, QueueInvOrder, PTL

(*****************************************************************************)
(* AllocPool: the memory pool.                                               *)
(*****************************************************************************)

-----------------------------------------------------------------------------
\* Rounding up goes to a multiple of the alignment, and to none beyond one
\* that the number does not exceed.
LEMMA RoundsUp ==
  ASSUME NEW n \in Nat
  PROVE  /\ AlignUp(n) \in Nat /\ n <= AlignUp(n) /\ AlignUp(n) % Align = 0
         /\ \A k \in Nat : n <= Align * k => AlignUp(n) <= Align * k
<1> DEFINE x == n + Align - 1  q == x \div Align
<1>1. Align \in Nat \ {0}
  BY PoolAssumption
<1>2. x \in Nat /\ x = n + Align - 1
  BY <1>1
<1> HIDE DEF x
<1>3. q \in Nat /\ Align * q <= x /\ x < Align * q + Align
  BY <1>1, <1>2
<1>4. AlignUp(n) = q * Align
  BY DEF AlignUp, x
<1> HIDE DEF q
<1>5. AlignUp(n) = Align * q /\ Align * q \in Nat
  BY <1>1, <1>3, <1>4
<1>6. n <= AlignUp(n)
  BY <1>1, <1>2, <1>3, <1>5
<1>7. AlignUp(n) % Align = 0
  BY <1>1, <1>3, <1>4
<1>8. ASSUME NEW k \in Nat, n <= Align * k  PROVE AlignUp(n) <= Align * k
  <2>1. Align * k \in Nat
    BY <1>1
  <2>2. Align * q < Align * k + Align
    BY <1>1, <1>2, <1>3, <1>5, <1>8, <2>1
  <2>3. q <= k
    BY <1>1, <1>3, <2>2
  <2>4. QED  BY <1>1, <1>3, <1>5, <2>3
<1>9. QED  BY <1>5, <1>6, <1>7, <1>8

\* The sizes of the heads and of the blocks are multiples of the alignment.
LEMMA RoundSizes ==
  /\ BlockSize \in Nat /\ PoolHead \in Nat /\ BlockHead \in Nat
  /\ BlockHead <= PoolHead /\ PoolHead <= BlockSize
  /\ \A n \in Nat : n <= BlockSize => AlignUp(n) <= BlockSize
  /\ AlignUp(BlockHead) = BlockHead
<1>1. Align \in Nat \ {0} /\ BlockHead <= PoolHead /\ PoolHead <= BlockSize
  BY PoolAssumption
<1>2. ASSUME NEW x \in {BlockSize, PoolHead, BlockHead}
      PROVE  \E k \in Nat : x = Align * k /\ x \in Nat
  <2>1. BlockSize \in Nat
    BY PoolAssumption
  <2>2. PICK k \in 0 .. BlockSize : x = Align * k
    BY PoolAssumption
  <2>3. k \in Nat
    BY <2>1
  <2>4. QED  BY <1>1, <2>2, <2>3
<1>3. BlockSize \in Nat /\ PoolHead \in Nat /\ BlockHead \in Nat
  BY <1>2
<1>4. \A n \in Nat : n <= BlockSize => AlignUp(n) <= BlockSize
  <2>1. PICK k \in Nat : BlockSize = Align * k
    BY <1>2
  <2>2. QED  BY <2>1, RoundsUp
<1>5. AlignUp(BlockHead) = BlockHead
  <2>1. PICK k \in Nat : BlockHead = Align * k
    BY <1>2
  <2>2. AlignUp(BlockHead) \in Nat /\ AlignUp(BlockHead) <= BlockHead /\ BlockHead <= AlignUp(BlockHead)
    BY <1>3, <2>1, RoundsUp
  <2>3. QED  BY <1>3, <2>2
<1>6. QED  BY <1>1, <1>3, <1>4, <1>5

-----------------------------------------------------------------------------
(* Cutting a piece.                                                        *)

HeadOf(i) == IF i = 1 THEN PoolHead ELSE BlockHead
Block     == [last : Nat, failed : Nat]
PoolType(p) ==
  p \in [blocks : Seq(Block), current : Nat \ {0}, slots : Seq(Nat), cleanup : Seq(Nat), alive : BOOLEAN]

\* What is cut from a block is behind its head and before what is free.
BlocksOK(bs) == \A i \in 1 .. Len(bs) : HeadOf(i) <= bs[i].last /\ bs[i].last <= BlockSize
PieceOK(bs, a) ==
  /\ a.block \in 1 .. Len(bs) /\ a.from \in Nat /\ a.to \in Nat
  /\ HeadOf(a.block) <= a.from /\ a.from <= a.to /\ a.to <= bs[a.block].last
  /\ a.from % Align = 0
Apart(a, b) == a = b \/ a.block # b.block \/ a.to <= b.from \/ b.to <= a.from
CutOK(bs, P) ==
  /\ BlocksOK(bs)
  /\ \A a \in P : PieceOK(bs, a)
  /\ \A a, b \in P : Apart(a, b)

\* Requests that a block has room for.
Roomy == \A size \in Requests \cup {SlotSize, NoteSize} : IsSmall(size) => size <= RoomOf(2)

\* A piece behind all that was cut from its block is apart from every other.
LEMMA PieceAdded ==
  ASSUME NEW bs \in Seq(Block), NEW cs \in Seq(Block), NEW P, CutOK(bs, P),
         NEW b \in 1 .. Len(cs), NEW m \in Nat, NEW size \in Nat, NEW of,
         Len(bs) <= Len(cs), HeadOf(b) <= m, m % Align = 0,
         b <= Len(bs) => bs[b].last <= m,
         cs[b].last = m + size, m + size <= BlockSize,
         \A i \in 1 .. Len(cs) : i # b => i \in 1 .. Len(bs) /\ cs[i].last = bs[i].last
  PROVE  CutOK(cs, P \cup {Piece(b, m, size, of)})
<1> DEFINE c == Piece(b, m, size, of)
<1>1. c.block = b /\ c.from = m /\ c.to = m + size
  BY DEF Piece
<1> HIDE DEF c
<1>2. Len(bs) \in Nat /\ Len(cs) \in Nat /\ b \in Nat /\ HeadOf(b) \in Nat
  BY RoundSizes DEF HeadOf
<1>3. \A i \in 1 .. Len(bs) : bs[i].last \in Nat
  <2>1. \A i \in 1 .. Len(bs) : bs[i] \in Block
    OBVIOUS
  <2>2. QED  BY <2>1 DEF Block
<1>4. BlocksOK(cs)
  <2>1. ASSUME NEW i \in 1 .. Len(cs)  PROVE HeadOf(i) <= cs[i].last /\ cs[i].last <= BlockSize
    <3>1. CASE i = b
      BY <3>1, <1>2
    <3>2. CASE i # b
      BY <3>2 DEF CutOK, BlocksOK
    <3>3. QED  BY <3>1, <3>2
  <2>2. QED  BY <2>1 DEF BlocksOK
<1>5. PieceOK(cs, c)
  BY <1>1, <1>2 DEF PieceOK
<1>6. ASSUME NEW a \in P  PROVE PieceOK(cs, a) /\ Apart(a, c) /\ Apart(c, a)
  <2>1. PieceOK(bs, a)
    BY DEF CutOK
  <2>2. a.block \in 1 .. Len(bs) /\ a.block \in 1 .. Len(cs) /\ a.to \in Nat /\ a.to <= bs[a.block].last
        /\ bs[a.block].last \in Nat
    BY <2>1, <1>2, <1>3 DEF PieceOK
  <2>3. CASE a.block # b
    <3>1. cs[a.block].last = bs[a.block].last
      BY <2>2, <2>3
    <3>2. QED  BY <2>1, <2>2, <2>3, <3>1, <1>1 DEF PieceOK, Apart
  <2>4. CASE a.block = b
    <3>1. a.to <= m
      BY <2>2, <2>4, <1>2
    <3>2. a.to <= m + size
      BY <3>1, <2>2
    <3>3. QED  BY <2>1, <2>2, <2>4, <3>1, <3>2, <1>1 DEF PieceOK, Apart
  <2>5. QED  BY <2>3, <2>4
<1>7. ASSUME NEW x \in P \cup {c}, NEW y \in P \cup {c}  PROVE Apart(x, y)
  <2>1. CASE x \in P /\ y \in P
    BY <2>1 DEF CutOK
  <2>2. CASE x = c /\ y = c
    BY <2>2 DEF Apart
  <2>3. CASE x \in P /\ y = c
    BY <2>3, <1>6
  <2>4. CASE x = c /\ y \in P
    BY <2>4, <1>6
  <2>5. QED  BY <2>1, <2>2, <2>3, <2>4
<1>8. QED  BY <1>4, <1>5, <1>6, <1>7 DEF CutOK, c

\* The first of a set of numbers.
LEMMA FirstIn ==
  ASSUME NEW S, S \subseteq Nat, S # {}
  PROVE  FirstOf(S) \in S
<1>1. \E i \in S : \A j \in S : i <= j
  BY LeastMember
<1>2. QED  BY <1>1 DEF FirstOf

\* A piece cut from the first block that it fits in.
FromBlock(p, size, of, c, i, m) ==
  /\ m = AlignUp(p.blocks[i].last) /\ FitsIn(p.blocks[i], size)
  /\ c.pool = [p EXCEPT !.blocks = [p.blocks EXCEPT ![i].last = m + size]]
  /\ c.piece = Piece(i, m, size, of)

\* What fits a block is cut from the first that has room.
LEMMA CutFromBlock ==
  ASSUME NEW p, PoolType(p), NEW size \in Nat, NEW of, Fitting(p, size) # {}
  PROVE  \E i \in 1 .. Len(p.blocks), m \in Nat : FromBlock(p, size, of, Cut(p, size, of), i, m)
<1>1. p.blocks \in Seq(Block) /\ p.current \in Nat \ {0} /\ Len(p.blocks) \in Nat
  BY DEF PoolType
<1>2. Fitting(p, size) \subseteq 1 .. Len(p.blocks) /\ Fitting(p, size) \subseteq Nat
  <2>1. Fitting(p, size) \subseteq p.current .. Len(p.blocks)
    BY DEF Fitting
  <2>2. QED  BY <1>1, <2>1
<1>3. PICK i \in Fitting(p, size) : i = FirstOf(Fitting(p, size))
  BY <1>2, FirstIn
<1>4. i \in 1 .. Len(p.blocks) /\ FitsIn(p.blocks[i], size)
  BY <1>2 DEF Fitting
<1>5. AlignUp(p.blocks[i].last) \in Nat
  <2>1. p.blocks[i] \in Block
    BY <1>1, <1>4
  <2>2. p.blocks[i].last \in Nat
    BY <2>1 DEF Block
  <2>3. QED  BY <2>2, RoundsUp
<1>6. Small(p, size) = [pool |-> [p EXCEPT !.blocks[i].last = AlignUp(p.blocks[i].last) + size],
                        at |-> <<i, AlignUp(p.blocks[i].last)>>]
  BY <1>3 DEF Small
<1>7. [p EXCEPT !.blocks[i].last = AlignUp(p.blocks[i].last) + size]
        = [p EXCEPT !.blocks = [p.blocks EXCEPT ![i].last = AlignUp(p.blocks[i].last) + size]]
  OBVIOUS
<1>8. Cut(p, size, of).piece = Piece(i, AlignUp(p.blocks[i].last), size, of)
  BY <1>6 DEF Cut
<1>9. Cut(p, size, of).pool = [p EXCEPT !.blocks = [p.blocks EXCEPT ![i].last = AlignUp(p.blocks[i].last) + size]]
  BY <1>6, <1>7 DEF Cut
<1>10. FromBlock(p, size, of, Cut(p, size, of), i, AlignUp(p.blocks[i].last))
  BY <1>4, <1>8, <1>9 DEF FromBlock
<1>11. QED  BY <1>4, <1>5, <1>10

\* A piece cut from a block of its own.
FromNew(p, size, of, c, bs, cur) ==
  /\ Len(bs) = Len(p.blocks) + 1 /\ bs[Len(bs)].last = BlockHead + size
  /\ \A i \in 1 .. Len(p.blocks) : bs[i].last = p.blocks[i].last
  /\ c.pool = [p EXCEPT !.blocks = bs, !.current = cur]
  /\ c.piece = Piece(Len(bs), BlockHead, size, of)

\* What fits none is cut from a new block.
LEMMA CutFromNew ==
  ASSUME NEW p, PoolType(p), NEW size \in Nat, NEW of, Fitting(p, size) = {}
  PROVE  \E bs \in Seq(Block), cur \in Nat \ {0} : FromNew(p, size, of, Cut(p, size, of), bs, cur)
<1> DEFINE n == Len(p.blocks)
           older == FailedOnce(p)
           added == [last |-> BlockHead + size, failed |-> 0]
           cur == IF Tired(p) = {} THEN p.current
                  ELSE 1 + (CHOOSE i \in Tired(p) : \A j \in Tired(p) : j <= i)
<1>1. p.blocks \in Seq(Block) /\ p.current \in Nat \ {0} /\ n \in Nat /\ DOMAIN p.blocks = 1 .. n
      /\ AlignUp(BlockHead) = BlockHead /\ BlockHead \in Nat
  BY RoundSizes DEF PoolType
<1>2. \A i \in 1 .. n : older[i] \in Block /\ older[i].last = p.blocks[i].last
  <2>1. \A i \in 1 .. n : p.blocks[i] \in Block
    BY <1>1
  <2>2. \A b \in Block : b.failed \in Nat /\ [b EXCEPT !.failed = @ + 1] \in Block
                        /\ [b EXCEPT !.failed = @ + 1].last = b.last
    BY DEF Block
  <2>3. QED  BY <1>1, <2>1, <2>2 DEF FailedOnce
<1>3. older \in Seq(Block) /\ Len(older) = n
  <2>1. older \in [1 .. n -> Block]
    BY <1>1, <1>2 DEF FailedOnce
  <2> HIDE DEF older
  <2>2. QED  BY <1>1, <2>1
<1>4. added \in Block
  BY <1>1 DEF Block
<1>5. cur \in Nat \ {0}
  <2>1. CASE Tired(p) = {}
    BY <1>1, <2>1
  <2>2. CASE Tired(p) # {}
    <3>1. Tired(p) \subseteq 0 .. n
      <4>1. Tired(p) \subseteq p.current .. n - 1
        BY DEF Tired
      <4>2. QED  BY <1>1, <4>1
    <3>2. \E i \in Tired(p) : \A j \in Tired(p) : j <= i
      BY <1>1, <2>2, <3>1, GreatestMember
    <3>3. PICK i \in Tired(p) : i = CHOOSE k \in Tired(p) : \A j \in Tired(p) : j <= k
      BY <3>2
    <3>4. cur = 1 + i
      BY <2>2, <3>3
    <3>5. QED  BY <3>1, <3>4
  <2>3. QED  BY <2>1, <2>2
<1>6. Small(p, size) = [pool |-> BlockAdded(p, size), at |-> <<n + 1, BlockHead>>]
  BY <1>1 DEF Small
<1>7. BlockAdded(p, size) = [p EXCEPT !.blocks = Append(older, added), !.current = cur]
  <2>1. BlockAdded(p, size) = [p EXCEPT !.blocks = Append(older, [last |-> AlignUp(BlockHead) + size, failed |-> 0]),
                                        !.current = cur]
    BY DEF BlockAdded
  <2>2. QED  BY <1>1, <2>1
<1> HIDE DEF older, added, cur
<1> DEFINE bs == Append(older, added)
<1>8. bs \in Seq(Block) /\ Len(bs) = n + 1 /\ bs[n + 1] = added
      /\ \A i \in 1 .. n : bs[i] = older[i]
  BY <1>1, <1>3, <1>4
<1>9. bs[Len(bs)].last = BlockHead + size
  BY <1>8 DEF added
<1>10. Cut(p, size, of).pool = [p EXCEPT !.blocks = bs, !.current = cur]
  BY <1>6, <1>7 DEF Cut
<1>11. Cut(p, size, of).piece = Piece(Len(bs), BlockHead, size, of)
  BY <1>6, <1>8 DEF Cut
<1>12. \A i \in 1 .. n : bs[i].last = p.blocks[i].last
  BY <1>2, <1>8
<1> HIDE DEF bs
<1>13. FromNew(p, size, of, Cut(p, size, of), bs, cur)
  BY <1>8, <1>9, <1>10, <1>11, <1>12 DEF FromNew
<1>14. QED  BY <1>5, <1>8, <1>13

\* A cut changes nothing of a pool but its blocks, and if the piece is no
\* larger than the room of a block, it leaves the pieces apart.
LEMMA CutKeeps ==
  ASSUME NEW p, PoolType(p), Len(p.blocks) # 0, NEW size \in Nat, NEW of, NEW c, c = Cut(p, size, of)
  PROVE  /\ PoolType(c.pool) /\ Len(c.pool.blocks) # 0
         /\ c.pool.slots = p.slots /\ c.pool.cleanup = p.cleanup /\ c.pool.alive = p.alive
         /\ \A P : CutOK(p.blocks, P) /\ size <= RoomOf(2) => CutOK(c.pool.blocks, P \cup {c.piece})
<1>1. p \in [blocks : Seq(Block), current : Nat \ {0}, slots : Seq(Nat), cleanup : Seq(Nat), alive : BOOLEAN]
      /\ p.blocks \in Seq(Block) /\ Len(p.blocks) \in Nat
  BY DEF PoolType
<1>2. RoomOf(2) = BlockSize - BlockHead /\ BlockSize - BlockHead \in Nat
      /\ \A i : HeadOf(i) \in Nat /\ BlockHead <= HeadOf(i) /\ HeadOf(i) <= BlockSize
  BY RoundSizes DEF RoomOf, HeadOf
<1>3. CASE Fitting(p, size) # {}
  <2>8. PICK i \in 1 .. Len(p.blocks), m \in Nat : FromBlock(p, size, of, c, i, m)
    BY <1>3, CutFromBlock
  <2>1. /\ m = AlignUp(p.blocks[i].last) /\ FitsIn(p.blocks[i], size)
        /\ c.pool = [p EXCEPT !.blocks = [p.blocks EXCEPT ![i].last = m + size]]
        /\ c.piece = Piece(i, m, size, of)
    BY <2>8 DEF FromBlock
  <2> DEFINE bs == [p.blocks EXCEPT ![i].last = m + size]
  <2>2. \A j \in 1 .. Len(p.blocks) : p.blocks[j] \in Block
    BY <1>1
  <2>3. /\ bs \in Seq(Block) /\ Len(bs) = Len(p.blocks) /\ bs[i].last = m + size
        /\ \A j \in 1 .. Len(bs) : j # i => bs[j] = p.blocks[j]
    <3>1. [p.blocks[i] EXCEPT !.last = m + size] \in Block /\ [p.blocks[i] EXCEPT !.last = m + size].last = m + size
      BY <2>2 DEF Block
    <3>2. ASSUME NEW b \in Block  PROVE [p.blocks EXCEPT ![i] = b] \in Seq(Block)
                                         /\ Len([p.blocks EXCEPT ![i] = b]) = Len(p.blocks)
                                         /\ [p.blocks EXCEPT ![i] = b][i] = b
                                         /\ \A j \in 1 .. Len(p.blocks) : j # i => [p.blocks EXCEPT ![i] = b][j] = p.blocks[j]
      BY <1>1
    <3>3. bs = [p.blocks EXCEPT ![i] = [p.blocks[i] EXCEPT !.last = m + size]]
      OBVIOUS
    <3> HIDE DEF bs
    <3>4. QED  BY <3>1, <3>2, <3>3
  <2>4. c.pool = [p EXCEPT !.blocks = bs]
    BY <2>1
  <2> HIDE DEF bs
  <2>5. PoolType(c.pool) /\ c.pool.blocks = bs
        /\ c.pool.slots = p.slots /\ c.pool.cleanup = p.cleanup /\ c.pool.alive = p.alive
    BY <1>1, <2>3, <2>4 DEF PoolType
  <2>6. ASSUME NEW P, CutOK(p.blocks, P), size <= RoomOf(2)
        PROVE  CutOK(bs, P \cup {Piece(i, m, size, of)})
    <3>1. p.blocks[i].last \in Nat
      BY <2>2 DEF Block
    <3>2. HeadOf(i) <= p.blocks[i].last /\ p.blocks[i].last <= BlockSize
      BY <2>6 DEF CutOK, BlocksOK
    <3>3. p.blocks[i].last <= m /\ m % Align = 0 /\ m <= BlockSize
      BY <2>1, <3>1, <3>2, RoundsUp, RoundSizes
    <3>4. BlockSize - m >= size
      BY <2>1, <3>3, RoundSizes DEF FitsIn
    <3>5. m + size <= BlockSize /\ HeadOf(i) <= m
      BY <3>1, <3>2, <3>3, <3>4, <1>2, RoundSizes
    <3>6. \A j \in 1 .. Len(bs) : j # i => j \in 1 .. Len(p.blocks) /\ bs[j].last = p.blocks[j].last
      BY <2>3
    <3>7. Len(p.blocks) <= Len(bs) /\ i \in 1 .. Len(bs)
      BY <1>1, <2>3
    <3>8. QED  BY <1>1, <2>3, <2>6, <3>3, <3>5, <3>6, <3>7, PieceAdded
  <2>9. Len(bs) # 0
    BY <2>3
  <2>7. QED  BY <2>1, <2>5, <2>6, <2>9
<1>4. CASE Fitting(p, size) = {}
  <2>5. PICK bs \in Seq(Block), cur \in Nat \ {0} : FromNew(p, size, of, c, bs, cur)
    BY <1>4, CutFromNew
  <2>1. /\ Len(bs) = Len(p.blocks) + 1 /\ bs[Len(bs)].last = BlockHead + size
        /\ \A i \in 1 .. Len(p.blocks) : bs[i].last = p.blocks[i].last
        /\ c.pool = [p EXCEPT !.blocks = bs, !.current = cur]
        /\ c.piece = Piece(Len(bs), BlockHead, size, of)
    BY <2>5 DEF FromNew
  <2>2. PoolType(c.pool) /\ c.pool.blocks = bs
        /\ c.pool.slots = p.slots /\ c.pool.cleanup = p.cleanup /\ c.pool.alive = p.alive
    BY <1>1, <2>1 DEF PoolType
  <2>3. ASSUME NEW P, CutOK(p.blocks, P), size <= RoomOf(2)
        PROVE  CutOK(bs, P \cup {Piece(Len(bs), BlockHead, size, of)})
    <3>1. Len(bs) \in 1 .. Len(bs) /\ Len(p.blocks) <= Len(bs) /\ ~(Len(bs) <= Len(p.blocks)) /\ Len(bs) # 1
      BY <1>1, <2>1, <2>3
    <3>2. HeadOf(Len(bs)) <= BlockHead /\ BlockHead \in Nat /\ BlockHead + size <= BlockSize
      BY <3>1, <1>2, <2>3, RoundSizes DEF HeadOf
    <3>3. BlockHead % Align = 0
      BY RoundSizes, RoundsUp
    <3>4. \A j \in 1 .. Len(bs) : j # Len(bs) => j \in 1 .. Len(p.blocks) /\ bs[j].last = p.blocks[j].last
      BY <1>1, <2>1
    <3>5. QED  BY <1>1, <2>1, <2>3, <3>1, <3>2, <3>3, <3>4, PieceAdded
  <2>6. Len(bs) # 0
    BY <1>1, <2>1
  <2>4. QED  BY <2>1, <2>2, <2>3, <2>6
<1>5. QED  BY <1>3, <1>4

-----------------------------------------------------------------------------
(* The invariant.                                                          *)

\* The slots that are taken hold each large allocation that was not freed,
\* and each that was freed was freed once.
LargeOK(ss, ls) ==
  /\ \A i \in 1 .. Len(ls) : ls[i] \in {0, 1} /\ (ls[i] = 0 <=> \E j \in 1 .. Len(ss) : ss[j] = i)
  /\ \A j \in 1 .. Len(ss) : ss[j] <= Len(ls)

\* The list of cleanups has every record once, the last first; none has run.
NotesOK(ns, rs) ==
  /\ Len(ns) = Len(rs) /\ \A j \in 1 .. Len(ns) : ns[j] = Len(rs) + 1 - j
  /\ \A i \in 1 .. Len(rs) : rs[i] = 0

PoolInv ==
  /\ PoolType(pool) /\ Len(pool.blocks) # 0
  /\ larges \in Seq(Nat) /\ ran \in Seq(Nat)
  /\ Roomy => CutOK(pool.blocks, pieces)
  /\ pool.alive => LargeOK(pool.slots, larges) /\ NotesOK(pool.cleanup, ran)
  /\ ~pool.alive => /\ \A i \in 1 .. Len(larges) : larges[i] = 1
                    /\ \A i \in 1 .. Len(ran) : ran[i] = 1

\* A new pool.
LEMMA PoolInvInit == PoolInit => PoolInv
<1> SUFFICES ASSUME PoolInit  PROVE PoolInv
  OBVIOUS
<1> DEFINE b == [last |-> PoolHead, failed |-> 0]
<1>1. b \in Block /\ b.last = PoolHead
  BY RoundSizes DEF Block
<1> HIDE DEF b
<1>2. <<b>> \in Seq(Block) /\ Len(<<b>>) = 1 /\ <<b>>[1] = b
  BY <1>1
<1>3. /\ pool = [blocks |-> <<b>>, current |-> 1, slots |-> <<>>, cleanup |-> <<>>, alive |-> TRUE]
      /\ pieces = {} /\ larges = <<>> /\ ran = <<>>
  BY DEF PoolInit, b
<1>4. <<>> \in Seq(Nat) /\ Len(<<>>) = 0
  OBVIOUS
<1>5. PoolType(pool) /\ pool.blocks = <<b>> /\ pool.slots = <<>> /\ pool.cleanup = <<>> /\ pool.alive
  BY <1>2, <1>3, <1>4 DEF PoolType
<1>6. CutOK(<<b>>, {})
  <2>1. BlocksOK(<<b>>)
    BY <1>1, <1>2, RoundSizes DEF BlocksOK, HeadOf
  <2>2. QED  BY <2>1 DEF CutOK
<1>7. LargeOK(<<>>, <<>>) /\ NotesOK(<<>>, <<>>)
  BY <1>4 DEF LargeOK, NotesOK
<1>8. QED  BY <1>2, <1>3, <1>4, <1>5, <1>6, <1>7 DEF PoolInv

\* A small piece.
LEMMA PtrSmallStep ==
  ASSUME PoolInv, NEW size \in Requests, PtrSmall(size)
  PROVE  PoolInv'
<1> DEFINE c == Cut(pool, size, "user")
<1>1. /\ pool.alive /\ IsSmall(size) /\ pool' = c.pool /\ pieces' = pieces \cup {c.piece}
      /\ UNCHANGED <<larges, ran>>
  BY DEF PtrSmall
<1>2. size \in Nat
  BY PoolAssumption
<1>3. PoolType(pool) /\ Len(pool.blocks) # 0
  BY DEF PoolInv
<1>4. /\ PoolType(c.pool) /\ Len(c.pool.blocks) # 0
      /\ c.pool.slots = pool.slots /\ c.pool.cleanup = pool.cleanup /\ c.pool.alive = pool.alive
      /\ \A P : CutOK(pool.blocks, P) /\ size <= RoomOf(2) => CutOK(c.pool.blocks, P \cup {c.piece})
  BY <1>2, <1>3, CutKeeps
<1> HIDE DEF c
<1>5. Roomy => CutOK(pool'.blocks, pieces')
  BY <1>1, <1>4 DEF PoolInv, Roomy
<1>6. QED  BY <1>1, <1>4, <1>5 DEF PoolInv

\* A large allocation has a slot: one that was free, or a new one.
LEMMA SlotTaken ==
  ASSUME NEW ss \in Seq(Nat), NEW ls \in Seq(Nat), LargeOK(ss, ls)
  PROVE  /\ Append(ls, 0) \in Seq(Nat)
         /\ \A k \in 1 .. Len(ss) : ss[k] = 0 =>
              /\ [ss EXCEPT ![k] = Len(ls) + 1] \in Seq(Nat)
              /\ LargeOK([ss EXCEPT ![k] = Len(ls) + 1], Append(ls, 0))
         /\ <<Len(ls) + 1>> \o ss \in Seq(Nat)
         /\ LargeOK(<<Len(ls) + 1>> \o ss, Append(ls, 0))
<1> DEFINE n == Len(ls) + 1  new == Append(ls, 0)
<1>1. Len(ls) \in Nat /\ n \in Nat /\ Len(ss) \in Nat /\ n = Len(ls) + 1
  OBVIOUS
<1>2. new \in Seq(Nat) /\ Len(new) = n /\ new[n] = 0 /\ \A i \in 1 .. Len(ls) : new[i] = ls[i]
  BY <1>1
<1> HIDE DEF n, new
<1>3. ASSUME NEW ts \in Seq(Nat),
             \A j \in 1 .. Len(ts) : ts[j] = n \/ \E k \in 1 .. Len(ss) : ts[j] = ss[k],
             \E j \in 1 .. Len(ts) : ts[j] = n,
             \A k \in 1 .. Len(ss) : ss[k] # 0 => \E j \in 1 .. Len(ts) : ts[j] = ss[k]
      PROVE  LargeOK(ts, new)
  <2>1. \A k \in 1 .. Len(ss) : ss[k] \in Nat /\ ss[k] <= Len(ls)
    BY DEF LargeOK
  <2>2. ASSUME NEW i \in 1 .. Len(new)
        PROVE  new[i] \in {0, 1} /\ (new[i] = 0 <=> \E j \in 1 .. Len(ts) : ts[j] = i)
    <3>1. CASE i = n
      BY <3>1, <1>2, <1>3
    <3>2. CASE i # n
      <4>1. i \in 1 .. Len(ls) /\ new[i] = ls[i]
        BY <3>2, <1>1, <1>2
      <4>2. new[i] \in {0, 1} /\ (new[i] = 0 <=> \E k \in 1 .. Len(ss) : ss[k] = i)
        BY <4>1 DEF LargeOK
      <4>3. (\E k \in 1 .. Len(ss) : ss[k] = i) <=> \E j \in 1 .. Len(ts) : ts[j] = i
        <5>1. i # 0
          BY <4>1
        <5>2. QED  BY <3>2, <5>1, <1>3
      <4>4. QED  BY <4>2, <4>3
    <3>3. QED  BY <3>1, <3>2
  <2>3. ASSUME NEW j \in 1 .. Len(ts)  PROVE ts[j] <= Len(new)
    <3>1. CASE ts[j] = n
      BY <3>1, <1>1, <1>2
    <3>2. ASSUME NEW k \in 1 .. Len(ss), ts[j] = ss[k]  PROVE ts[j] <= Len(new)
      <4>1. ss[k] \in Nat /\ ss[k] <= Len(ls)
        BY <2>1
      <4>2. QED  BY <3>2, <4>1, <1>1, <1>2
    <3>3. QED  BY <3>1, <3>2, <1>3
  <2>4. QED  BY <2>2, <2>3 DEF LargeOK
<1>4. ASSUME NEW k \in 1 .. Len(ss), ss[k] = 0
      PROVE  [ss EXCEPT ![k] = n] \in Seq(Nat) /\ LargeOK([ss EXCEPT ![k] = n], new)
  <2> DEFINE ts == [ss EXCEPT ![k] = n]
  <2>1. ts \in Seq(Nat) /\ Len(ts) = Len(ss) /\ ts[k] = n /\ \A j \in 1 .. Len(ss) : j # k => ts[j] = ss[j]
    BY <1>1
  <2> HIDE DEF ts
  <2>2. \A j \in 1 .. Len(ts) : ts[j] = n \/ \E l \in 1 .. Len(ss) : ts[j] = ss[l]
    BY <2>1
  <2>3. \A l \in 1 .. Len(ss) : ss[l] # 0 => \E j \in 1 .. Len(ts) : ts[j] = ss[l]
    BY <2>1, <1>4
  <2>4. \E j \in 1 .. Len(ts) : ts[j] = n
    BY <2>1
  <2>5. QED  BY <2>1, <2>2, <2>3, <2>4, <1>3 DEF ts
<1>5. <<n>> \o ss \in Seq(Nat) /\ LargeOK(<<n>> \o ss, new)
  <2> DEFINE ts == <<n>> \o ss
  <2>1. ts \in Seq(Nat) /\ Len(ts) = Len(ss) + 1 /\ ts[1] = n
        /\ \A j \in 1 .. Len(ss) : ts[j + 1] = ss[j]
    BY <1>1
  <2> HIDE DEF ts
  <2>2. \A j \in 1 .. Len(ts) : ts[j] = n \/ \E l \in 1 .. Len(ss) : ts[j] = ss[l]
    <3>1. ASSUME NEW j \in 1 .. Len(ts)  PROVE ts[j] = n \/ \E l \in 1 .. Len(ss) : ts[j] = ss[l]
      <4>1. CASE j = 1
        BY <4>1, <2>1
      <4>2. CASE j # 1
        <5>1. j - 1 \in 1 .. Len(ss) /\ j = (j - 1) + 1
          BY <4>2, <2>1, <1>1
        <5>2. ts[j] = ss[j - 1]
          BY <5>1, <2>1
        <5>3. QED  BY <5>1, <5>2
      <4>3. QED  BY <4>1, <4>2
    <3>2. QED  BY <3>1
  <2>3. \A l \in 1 .. Len(ss) : ss[l] # 0 => \E j \in 1 .. Len(ts) : ts[j] = ss[l]
    <3>1. ASSUME NEW l \in 1 .. Len(ss)  PROVE \E j \in 1 .. Len(ts) : ts[j] = ss[l]
      <4>1. l + 1 \in 1 .. Len(ts) /\ ts[l + 1] = ss[l]
        BY <2>1, <1>1
      <4>2. QED  BY <4>1
    <3>2. QED  BY <3>1
  <2>4. \E j \in 1 .. Len(ts) : ts[j] = n
    <3>1. 1 \in 1 .. Len(ts)
      BY <2>1, <1>1
    <3>2. QED  BY <2>1, <3>1
  <2>5. QED  BY <2>1, <2>2, <2>3, <2>4, <1>3 DEF ts
<1>6. QED  BY <1>2, <1>4, <1>5 DEF n, new

\* A large piece, with the slot that keeps it.
LEMMA PtrLargeStep ==
  ASSUME PoolInv, NEW size \in Requests, PtrLarge(size)
  PROVE  PoolInv'
<1> DEFINE c == Cut(pool, SlotSize, "slot")  n == Len(larges) + 1
<1>1. /\ pool.alive /\ larges' = Append(larges, 0) /\ UNCHANGED ran
      /\ IF FreeSlots(pool) # {}
         THEN /\ pool' = [pool EXCEPT !.slots[FirstOf(FreeSlots(pool))] = n]
              /\ UNCHANGED pieces
         ELSE /\ pool' = [c.pool EXCEPT !.slots = <<n>> \o @]
              /\ pieces' = pieces \cup {c.piece}
  BY DEF PtrLarge
<1>2. PoolType(pool) /\ Len(pool.blocks) # 0 /\ pool.slots \in Seq(Nat) /\ larges \in Seq(Nat)
      /\ pool \in [blocks : Seq(Block), current : Nat \ {0}, slots : Seq(Nat), cleanup : Seq(Nat), alive : BOOLEAN]
  BY DEF PoolInv, PoolType
<1>3. LargeOK(pool.slots, larges) /\ NotesOK(pool.cleanup, ran)
  BY <1>1 DEF PoolInv
<1>4. CASE FreeSlots(pool) # {}
  <2>1. FreeSlots(pool) \subseteq 1 .. Len(pool.slots) /\ FreeSlots(pool) \subseteq Nat
    <3>1. DOMAIN pool.slots = 1 .. Len(pool.slots) /\ Len(pool.slots) \in Nat
      BY <1>2
    <3>2. FreeSlots(pool) \subseteq DOMAIN pool.slots
      BY DEF FreeSlots
    <3>3. QED  BY <3>1, <3>2
  <2>2. PICK k \in FreeSlots(pool) : k = FirstOf(FreeSlots(pool))
    BY <1>4, <2>1, FirstIn
  <2>3. k \in 1 .. Len(pool.slots) /\ pool.slots[k] = 0
    BY <2>1 DEF FreeSlots
  <2> DEFINE ss == [pool.slots EXCEPT ![k] = n]
  <2>4. ss \in Seq(Nat) /\ Append(larges, 0) \in Seq(Nat) /\ LargeOK(ss, Append(larges, 0))
    BY <1>2, <1>3, <2>3, SlotTaken
  <2>5. pool' = [pool EXCEPT !.slots = ss] /\ UNCHANGED pieces
    BY <1>1, <1>4, <2>2
  <2> HIDE DEF ss, n
  <2>6. PoolType(pool') /\ pool'.blocks = pool.blocks /\ pool'.slots = ss /\ pool'.cleanup = pool.cleanup
        /\ pool'.alive = pool.alive
    BY <1>2, <2>4, <2>5 DEF PoolType
  <2>7. QED  BY <1>1, <1>2, <1>3, <2>4, <2>5, <2>6 DEF PoolInv
<1>5. CASE FreeSlots(pool) = {}
  <2>1. SlotSize \in Nat
    BY PoolAssumption
  <2>2. /\ PoolType(c.pool) /\ Len(c.pool.blocks) # 0
        /\ c.pool.slots = pool.slots /\ c.pool.cleanup = pool.cleanup /\ c.pool.alive = pool.alive
        /\ \A P : CutOK(pool.blocks, P) /\ SlotSize <= RoomOf(2) => CutOK(c.pool.blocks, P \cup {c.piece})
    BY <1>2, <2>1, CutKeeps
  <2>3. pool' = [c.pool EXCEPT !.slots = <<n>> \o pool.slots] /\ pieces' = pieces \cup {c.piece}
    BY <1>1, <1>5, <2>2
  <2>4. <<n>> \o pool.slots \in Seq(Nat) /\ Append(larges, 0) \in Seq(Nat)
        /\ LargeOK(<<n>> \o pool.slots, Append(larges, 0))
    BY <1>2, <1>3, SlotTaken
  <2> HIDE DEF c, n
  <2>5. /\ PoolType(pool') /\ pool'.blocks = c.pool.blocks /\ pool'.slots = <<n>> \o pool.slots
        /\ pool'.cleanup = pool.cleanup /\ pool'.alive = pool.alive
    BY <2>2, <2>3, <2>4 DEF PoolType
  <2>6. Roomy => CutOK(pool'.blocks, pieces')
    <3>1. Roomy => SlotSize <= RoomOf(2)
      BY PoolAssumption DEF Roomy, IsSmall
    <3>2. QED  BY <2>2, <2>3, <2>5, <3>1 DEF PoolInv
  <2>7. QED  BY <1>1, <1>3, <2>2, <2>4, <2>5, <2>6 DEF PoolInv
<1>6. QED  BY <1>4, <1>5

\* A record goes to the front of the list.
LEMMA NoteAdded ==
  ASSUME NEW ns \in Seq(Nat), NEW rs \in Seq(Nat), NotesOK(ns, rs)
  PROVE  /\ <<Len(rs) + 1>> \o ns \in Seq(Nat) /\ Append(rs, 0) \in Seq(Nat)
         /\ NotesOK(<<Len(rs) + 1>> \o ns, Append(rs, 0))
<1> DEFINE ms == <<Len(rs) + 1>> \o ns  qs == Append(rs, 0)
<1>1. Len(rs) \in Nat /\ Len(ns) = Len(rs)
  BY DEF NotesOK
<1>2. ms \in Seq(Nat) /\ Len(ms) = Len(ns) + 1 /\ ms[1] = Len(rs) + 1 /\ \A j \in 1 .. Len(ns) : ms[j + 1] = ns[j]
  BY <1>1
<1>3. qs \in Seq(Nat) /\ Len(qs) = Len(rs) + 1 /\ qs[Len(rs) + 1] = 0 /\ \A i \in 1 .. Len(rs) : qs[i] = rs[i]
  BY <1>1
<1> HIDE DEF ms, qs
<1>4. ASSUME NEW j \in 1 .. Len(ms)  PROVE ms[j] = Len(qs) + 1 - j
  <2>1. CASE j = 1
    BY <2>1, <1>1, <1>2, <1>3
  <2>2. CASE j # 1
    <3>1. j - 1 \in 1 .. Len(ns) /\ j = (j - 1) + 1
      BY <2>2, <1>1, <1>2
    <3>2. ms[j] = ns[j - 1] /\ ns[j - 1] = Len(rs) + 1 - (j - 1)
      BY <3>1, <1>2 DEF NotesOK
    <3>3. QED  BY <3>1, <3>2, <1>1, <1>3
  <2>3. QED  BY <2>1, <2>2
<1>5. ASSUME NEW i \in 1 .. Len(qs)  PROVE qs[i] = 0
  <2>1. CASE i = Len(rs) + 1
    BY <2>1, <1>3
  <2>2. CASE i # Len(rs) + 1
    <3>1. i \in 1 .. Len(rs)
      BY <2>2, <1>1, <1>3
    <3>2. QED  BY <3>1, <1>3 DEF NotesOK
  <2>3. QED  BY <2>1, <2>2
<1>6. Len(ms) = Len(qs)
  BY <1>1, <1>2, <1>3
<1>7. QED  BY <1>2, <1>3, <1>4, <1>5, <1>6 DEF NotesOK, ms, qs

\* A note for the end, with its data.
LEMMA AddCleanupStep ==
  ASSUME PoolInv, NEW size \in Requests, AddCleanup(size)
  PROVE  PoolInv'
<1> DEFINE note == Cut(pool, NoteSize, "note")
           data == Cut(note.pool, size, "user")
           list == <<Len(ran) + 1>> \o pool.cleanup
<1>1. pool.alive /\ IsSmall(size) /\ UNCHANGED larges /\ size \in Nat /\ NoteSize \in Nat
  BY PoolAssumption DEF AddCleanup
<1>2. PoolType(pool) /\ Len(pool.blocks) # 0 /\ pool.cleanup \in Seq(Nat) /\ ran \in Seq(Nat)
  BY DEF PoolInv, PoolType
<1>3. LargeOK(pool.slots, larges) /\ NotesOK(pool.cleanup, ran)
  BY <1>1 DEF PoolInv
<1>4. /\ PoolType(note.pool) /\ Len(note.pool.blocks) # 0
      /\ note.pool.slots = pool.slots /\ note.pool.cleanup = pool.cleanup /\ note.pool.alive = pool.alive
      /\ \A P : CutOK(pool.blocks, P) /\ NoteSize <= RoomOf(2) => CutOK(note.pool.blocks, P \cup {note.piece})
  BY <1>1, <1>2, CutKeeps
<1>5. /\ PoolType(data.pool) /\ Len(data.pool.blocks) # 0
      /\ data.pool.slots = note.pool.slots /\ data.pool.cleanup = note.pool.cleanup
      /\ data.pool.alive = note.pool.alive
      /\ \A P : CutOK(note.pool.blocks, P) /\ size <= RoomOf(2) => CutOK(data.pool.blocks, P \cup {data.piece})
  BY <1>1, <1>4, CutKeeps
<1>6. \/ /\ pool' = [note.pool EXCEPT !.cleanup = <<Len(ran) + 1>> \o @]
         /\ pieces' = pieces \cup {note.piece} /\ ran' = Append(ran, 0)
      \/ /\ pool' = [data.pool EXCEPT !.cleanup = <<Len(ran) + 1>> \o @]
         /\ pieces' = pieces \cup {note.piece, data.piece} /\ ran' = Append(ran, 0)
      \/ /\ pool' = note.pool /\ pieces' = pieces \cup {note.piece} /\ UNCHANGED ran
  BY DEF AddCleanup
<1>7. list \in Seq(Nat) /\ Append(ran, 0) \in Seq(Nat) /\ NotesOK(list, Append(ran, 0))
  BY <1>2, <1>3, NoteAdded
<1>8. \/ pool' = [note.pool EXCEPT !.cleanup = list] /\ pieces' = pieces \cup {note.piece} /\ ran' = Append(ran, 0)
      \/ pool' = [data.pool EXCEPT !.cleanup = list] /\ pieces' = (pieces \cup {note.piece}) \cup {data.piece}
         /\ ran' = Append(ran, 0)
      \/ pool' = note.pool /\ pieces' = pieces \cup {note.piece} /\ UNCHANGED ran
  <2>1. [note.pool EXCEPT !.cleanup = <<Len(ran) + 1>> \o @] = [note.pool EXCEPT !.cleanup = list]
    BY <1>4
  <2>2. [data.pool EXCEPT !.cleanup = <<Len(ran) + 1>> \o @] = [data.pool EXCEPT !.cleanup = list]
    BY <1>4, <1>5
  <2>3. pieces \cup {note.piece, data.piece} = (pieces \cup {note.piece}) \cup {data.piece}
    OBVIOUS
  <2> HIDE DEF note, data, list
  <2>4. QED  BY <1>6, <2>1, <2>2, <2>3
<1> HIDE DEF note, data, list
<1>9. Roomy => NoteSize <= RoomOf(2) /\ size <= RoomOf(2)
  BY <1>1, PoolAssumption DEF Roomy, IsSmall
<1>10. Roomy => CutOK(note.pool.blocks, pieces \cup {note.piece})
               /\ CutOK(data.pool.blocks, (pieces \cup {note.piece}) \cup {data.piece})
  BY <1>4, <1>5, <1>9 DEF PoolInv
<1>11. CASE pool' = [note.pool EXCEPT !.cleanup = list] /\ pieces' = pieces \cup {note.piece}
           /\ ran' = Append(ran, 0)
  <2>1. PoolType(pool') /\ pool'.blocks = note.pool.blocks /\ pool'.slots = pool.slots
        /\ pool'.cleanup = list /\ pool'.alive = pool.alive
    BY <1>4, <1>7, <1>11 DEF PoolType
  <2>2. QED  BY <2>1, <1>1, <1>3, <1>4, <1>7, <1>10, <1>11 DEF PoolInv
<1>12. CASE pool' = [data.pool EXCEPT !.cleanup = list]
           /\ pieces' = (pieces \cup {note.piece}) \cup {data.piece} /\ ran' = Append(ran, 0)
  <2>1. PoolType(pool') /\ pool'.blocks = data.pool.blocks /\ pool'.slots = pool.slots
        /\ pool'.cleanup = list /\ pool'.alive = pool.alive
    BY <1>4, <1>5, <1>7, <1>12 DEF PoolType
  <2>2. QED  BY <2>1, <1>1, <1>3, <1>5, <1>7, <1>10, <1>12 DEF PoolInv
<1>13. CASE pool' = note.pool /\ pieces' = pieces \cup {note.piece} /\ UNCHANGED ran
  BY <1>1, <1>2, <1>3, <1>4, <1>10, <1>13 DEF PoolInv
<1>14. QED  BY <1>8, <1>11, <1>12, <1>13

\* What Reset and Destroy free: every large allocation that was not freed.
LEMMA AllFreed ==
  ASSUME PoolInv, pool.alive
  PROVE  /\ Freed(pool) \in Seq(Nat) /\ Len(Freed(pool)) = Len(larges)
         /\ \A i \in 1 .. Len(larges) : Freed(pool)[i] = 1
<1>1. larges \in Seq(Nat) /\ Len(larges) \in Nat /\ DOMAIN larges = 1 .. Len(larges)
      /\ DOMAIN pool.slots = 1 .. Len(pool.slots) /\ LargeOK(pool.slots, larges)
  BY DEF PoolInv, PoolType
<1>2. ASSUME NEW i \in 1 .. Len(larges)
      PROVE  (IF i \in FreedOf(pool) THEN larges[i] + 1 ELSE larges[i]) = 1
  <2>1. i \in FreedOf(pool) <=> \E j \in 1 .. Len(pool.slots) : pool.slots[j] = i
    BY <1>1 DEF FreedOf
  <2>2. larges[i] \in {0, 1} /\ (larges[i] = 0 <=> i \in FreedOf(pool))
    BY <1>1, <2>1 DEF LargeOK
  <2>3. QED  BY <2>2
<1>3. Freed(pool) = [i \in 1 .. Len(larges) |-> IF i \in FreedOf(pool) THEN larges[i] + 1 ELSE larges[i]]
  BY <1>1 DEF Freed
<1>4. \A i \in 1 .. Len(larges) : Freed(pool)[i] = 1
  BY <1>2, <1>3
<1>5. Freed(pool) \in [1 .. Len(larges) -> Nat]
  BY <1>3, <1>4
<1>6. QED  BY <1>1, <1>4, <1>5

\* The pool is emptied and its blocks are kept.
LEMMA ResetStep ==
  ASSUME PoolInv, Reset
  PROVE  PoolInv'
<1> DEFINE b == [last |-> PoolHead, failed |-> 0]  bs == [i \in DOMAIN pool.blocks |-> b]
<1>1. /\ pool.alive /\ pool' = [pool EXCEPT !.blocks = bs, !.current = 1, !.slots = <<>>]
      /\ pieces' = {} /\ larges' = Freed(pool) /\ UNCHANGED ran
  BY DEF Reset
<1>2. b \in Block /\ b.last = PoolHead
  BY RoundSizes DEF Block
<1> HIDE DEF b
<1>3. pool.blocks \in Seq(Block) /\ Len(pool.blocks) \in Nat /\ Len(pool.blocks) # 0
      /\ DOMAIN pool.blocks = 1 .. Len(pool.blocks)
      /\ pool \in [blocks : Seq(Block), current : Nat \ {0}, slots : Seq(Nat), cleanup : Seq(Nat), alive : BOOLEAN]
  BY DEF PoolInv, PoolType
<1>4. bs \in Seq(Block) /\ Len(bs) = Len(pool.blocks) /\ \A i \in 1 .. Len(bs) : bs[i] = b
  <2>1. bs \in [1 .. Len(pool.blocks) -> Block] /\ \A i \in 1 .. Len(pool.blocks) : bs[i] = b
    BY <1>2, <1>3
  <2> HIDE DEF bs
  <2>2. bs \in Seq(Block) /\ Len(bs) = Len(pool.blocks)
    <3>1. ASSUME NEW k \in Nat, NEW g \in [1 .. k -> Block]
          PROVE  g \in Seq(Block) /\ Len(g) = k
      OBVIOUS
    <3>2. QED  BY <1>3, <2>1, <3>1
  <2>3. QED  BY <2>1, <2>2
<1> HIDE DEF bs
<1>5. <<>> \in Seq(Nat) /\ Len(<<>>) = 0
  OBVIOUS
<1>6. PoolType(pool') /\ pool'.blocks = bs /\ pool'.slots = <<>> /\ pool'.cleanup = pool.cleanup
      /\ pool'.alive = pool.alive
  <2>1. ASSUME NEW q, q = [pool EXCEPT !.blocks = bs, !.current = 1, !.slots = <<>>]
        PROVE  /\ q \in [blocks : Seq(Block), current : Nat \ {0}, slots : Seq(Nat), cleanup : Seq(Nat), alive : BOOLEAN]
               /\ q.blocks = bs /\ q.slots = <<>> /\ q.cleanup = pool.cleanup /\ q.alive = pool.alive
    <3>1. bs \in Seq(Block)
      BY <1>4
    <3>2. q = [blocks |-> bs, current |-> 1, slots |-> <<>>, cleanup |-> pool.cleanup, alive |-> pool.alive]
      BY <2>1, <1>3
    <3>3. pool.cleanup \in Seq(Nat) /\ pool.alive \in BOOLEAN
      BY <1>3
    <3>4. QED  BY <3>1, <3>2, <3>3, <1>5
  <2>2. QED  BY <1>1, <2>1 DEF PoolType
<1>7. CutOK(bs, {})
  <2>1. BlocksOK(bs)
    BY <1>2, <1>4, RoundSizes DEF BlocksOK, HeadOf
  <2>2. QED  BY <2>1 DEF CutOK
<1>8. LargeOK(<<>>, larges') /\ larges' \in Seq(Nat)
  <2>1. larges' \in Seq(Nat) /\ \A i \in 1 .. Len(larges') : larges'[i] = 1
    BY <1>1, AllFreed
  <2>2. QED  BY <2>1, <1>5 DEF LargeOK
<1>9. NotesOK(pool.cleanup, ran)
  BY <1>1 DEF PoolInv
<1>10. QED  BY <1>1, <1>3, <1>4, <1>6, <1>7, <1>8, <1>9 DEF PoolInv

\* Everything is given back.
LEMMA DestroyStep ==
  ASSUME PoolInv, Destroy
  PROVE  PoolInv'
<1> DEFINE total == [i \in DOMAIN ran |-> ran[i] + Cardinality({j \in DOMAIN pool.cleanup : pool.cleanup[j] = i})]
<1>1. /\ pool.alive /\ pool' = [pool EXCEPT !.alive = FALSE]
      /\ ran' = total /\ larges' = Freed(pool) /\ pieces' = {}
  BY DEF Destroy
<1>2. ran \in Seq(Nat) /\ Len(ran) \in Nat /\ DOMAIN ran = 1 .. Len(ran)
      /\ DOMAIN pool.cleanup = 1 .. Len(pool.cleanup) /\ NotesOK(pool.cleanup, ran)
  BY <1>1 DEF PoolInv, PoolType
<1>3. ASSUME NEW i \in 1 .. Len(ran)
      PROVE  ran[i] + Cardinality({j \in DOMAIN pool.cleanup : pool.cleanup[j] = i}) = 1
  <2>1. Len(pool.cleanup) = Len(ran) /\ \A j \in 1 .. Len(ran) : pool.cleanup[j] = Len(ran) + 1 - j
    BY <1>2 DEF NotesOK
  <2>2. {j \in DOMAIN pool.cleanup : pool.cleanup[j] = i} = {Len(ran) + 1 - i}
    <3>1. \A j \in 1 .. Len(ran) : pool.cleanup[j] = i <=> j = Len(ran) + 1 - i
      <4>1. \A k, j, h \in Nat : k + 1 - j = h <=> j = k + 1 - h
        OBVIOUS
      <4>2. i \in Nat /\ \A j \in 1 .. Len(ran) : j \in Nat
        BY <1>2
      <4>3. \A j \in 1 .. Len(ran) : pool.cleanup[j] = Len(ran) + 1 - j
        BY <2>1
      <4>4. Len(ran) \in Nat
        BY <1>2
      <4>5. QED  BY <4>1, <4>2, <4>3, <4>4
    <3>2. Len(ran) + 1 - i \in 1 .. Len(ran)
      BY <1>2
    <3>3. QED  BY <3>1, <3>2, <2>1, <1>2
  <2>3. Cardinality({Len(ran) + 1 - i}) = 1
    BY FS_Singleton
  <2>4. ran[i] = 0
    BY <1>2 DEF NotesOK
  <2>5. Cardinality({j \in DOMAIN pool.cleanup : pool.cleanup[j] = i}) = 1
    BY <2>2, <2>3
  <2>6. QED  BY <2>4, <2>5
<1>4. total \in Seq(Nat) /\ Len(total) = Len(ran) /\ \A i \in 1 .. Len(ran) : total[i] = 1
  <2>1. total \in [1 .. Len(ran) -> Nat] /\ \A i \in 1 .. Len(ran) : total[i] = 1
    BY <1>2, <1>3
  <2> HIDE DEF total
  <2>2. QED  BY <1>2, <2>1
<1> HIDE DEF total
<1>5. PoolType(pool') /\ pool'.blocks = pool.blocks /\ pool'.alive = FALSE
  BY <1>1 DEF PoolInv, PoolType
<1>6. Roomy => CutOK(pool.blocks, {})
  BY DEF PoolInv, CutOK
<1>7. larges' \in Seq(Nat) /\ \A i \in 1 .. Len(larges') : larges'[i] = 1
  BY <1>1, AllFreed
<1>8. Len(pool.blocks) # 0
  BY DEF PoolInv
<1>9. QED  BY <1>1, <1>4, <1>5, <1>6, <1>7, <1>8 DEF PoolInv

\* Every step.
LEMMA PoolInvStep == PoolInv /\ [PoolNext]_poolVars => PoolInv'
<1> SUFFICES ASSUME PoolInv, [PoolNext]_poolVars  PROVE PoolInv'
  OBVIOUS
<1>1. ASSUME NEW size \in Requests, PtrSmall(size) \/ PtrLarge(size) \/ AddCleanup(size)
      PROVE  PoolInv'
  BY <1>1, PtrSmallStep, PtrLargeStep, AddCleanupStep
<1>2. CASE Reset
  BY <1>2, ResetStep
<1>3. CASE Destroy
  BY <1>3, DestroyStep
<1>4. CASE UNCHANGED poolVars
  BY <1>4 DEF poolVars, PoolInv
<1>5. QED  BY <1>1, <1>2, <1>3, <1>4 DEF PoolNext

\* What the invariant says of the pieces that were given.
LEMMA PoolInvSound == PoolInv => PoolSound
<1> SUFFICES ASSUME PoolInv  PROVE PoolSound
  OBVIOUS
<1>1. PiecesApart
  <2> SUFFICES ASSUME Roomy
               PROVE  /\ \A a \in pieces : /\ a.from >= HeadOf(a.block)
                                            /\ a.to <= BlockSize /\ a.from % Align = 0
                                            /\ a.to <= pool.blocks[a.block].last
                      /\ \A a, b \in pieces : a # b => a.block # b.block \/ a.to <= b.from \/ b.to <= a.from
    BY DEF PiecesApart, Roomy, HeadOf
  <2>1. CutOK(pool.blocks, pieces)
    BY DEF PoolInv
  <2>2. ASSUME NEW a \in pieces
        PROVE  /\ a.from >= HeadOf(a.block)
               /\ a.to <= BlockSize /\ a.from % Align = 0
               /\ a.to <= pool.blocks[a.block].last
    <3>1. PieceOK(pool.blocks, a)
      BY <2>1 DEF CutOK
    <3>2. a.block \in 1 .. Len(pool.blocks) /\ pool.blocks[a.block] \in Block
      BY <3>1 DEF PieceOK, PoolInv, PoolType
    <3>3. pool.blocks[a.block].last \in Nat /\ pool.blocks[a.block].last <= BlockSize
      BY <2>1, <3>2 DEF CutOK, BlocksOK, Block
    <3>4. HeadOf(a.block) \in Nat /\ BlockSize \in Nat
      BY RoundSizes DEF HeadOf
    <3>5. QED  BY <3>1, <3>3, <3>4 DEF PieceOK
  <2>3. \A a, b \in pieces : a # b => a.block # b.block \/ a.to <= b.from \/ b.to <= a.from
    BY <2>1 DEF CutOK, Apart
  <2>4. QED  BY <2>2, <2>3
<1>2. FreedOnce
  <2>1. DOMAIN larges = 1 .. Len(larges) /\ DOMAIN ran = 1 .. Len(ran) /\ pool.alive \in BOOLEAN
    BY DEF PoolInv, PoolType
  <2>2. CASE pool.alive
    <3>1. \A i \in 1 .. Len(larges) : larges[i] \in {0, 1}
      BY <2>2 DEF PoolInv, LargeOK
    <3>2. QED  BY <2>1, <2>2, <3>1 DEF FreedOnce
  <2>3. CASE ~pool.alive
    BY <2>1, <2>3 DEF PoolInv, FreedOnce
  <2>4. QED  BY <2>2, <2>3
<1>3. QED  BY <1>1, <1>2 DEF PoolSound

\* The memory pool, for every size of the blocks and their heads that is a
\* multiple of the alignment and every set of requests: the pieces lie apart
\* in their blocks if each fits the room of one, and what was allocated apart
\* is freed once, each handler run once (alloc_pool.cpp).
THEOREM PoolIsSound == PoolInit /\ [][PoolNext]_poolVars => []PoolSound
<1>1. PoolInit => PoolInv
  BY PoolInvInit
<1>2. PoolInv /\ [PoolNext]_poolVars => PoolInv'
  BY PoolInvStep
<1>3. PoolInv => PoolSound
  BY PoolInvSound
<1>4. QED  BY <1>1, <1>2, <1>3, PTL

(*****************************************************************************)
(* Streams: the file of the notes and its consoles.                          *)
(*****************************************************************************)

Ats  == {"off", "idle", "saves", "writes", "loads", "takes"}
AtWork(c) == console[c].at \in {"saves", "writes", "loads", "takes"}
Reached == FetchedTo(fetched, Len(fetched), current)

StreamTypes ==
  /\ inode \in Seq(Seq(Note)) /\ current \in 0 .. Len(inode) /\ serial \in Int
  /\ console \in [Console -> [at : Ats, rpos : Nat, wpos : Nat, file : Nat]]
  /\ opened \in [Note -> 0 .. Len(inode)]
  /\ fetched \in Seq(Nat \X Nat) /\ crossed \in BOOLEAN

\* The notes that were fetched.
FetchedInv ==
  \A i \in 1 .. Len(fetched) :
    /\ i > 1 => fetched[i - 1][1] <= fetched[i][1]
    /\ fetched[i][1] \in 1 .. Len(inode)
    /\ fetched[i][2] = FetchedTo(fetched, i - 1, fetched[i][1]) + 1
    /\ fetched[i][2] <= Len(inode[fetched[i][1]])

\* One console at a time reads or starts, and knows the place that was reached;
\* while none does, .serial says it.
PlaceInv ==
  /\ current \in {0, Len(inode)}
  /\ \A c, d \in Console : AtWork(c) /\ AtWork(d) => c = d
  /\ \A c \in Console :
       /\ console[c].at \in {"saves", "writes", "takes"} => console[c].rpos = Reached
       /\ console[c].at \in {"loads", "takes"} => console[c].file = current /\ current # 0
       /\ console[c].at = "loads" => serial = Reached
       /\ console[c].at = "idle" /\ (\A d \in Console : ~AtWork(d)) => serial = Reached

\* Who reads has a file open.
FileInv == \A c \in Console : console[c].at \in {"loads", "takes"} => console[c].file \in 1 .. Len(inode)

StreamInv == StreamTypes /\ FileInv /\ (~crossed => FetchedInv /\ PlaceInv)

\* The place that was reached is a number, and none in a file of which nothing
\* was fetched.
LEMMA FetchedToIs ==
  ASSUME StreamTypes
  PROVE  /\ \A i \in 0 .. Len(fetched), f \in Nat : FetchedTo(fetched, i, f) \in Nat
         /\ \A f \in Nat : (\A i \in 1 .. Len(fetched) : fetched[i][1] # f) => FetchedTo(fetched, Len(fetched), f) = 0
<1>1. fetched \in Seq(Nat \X Nat) /\ Len(fetched) \in Nat
  BY DEF StreamTypes
<1>2. \A i \in 1 .. Len(fetched) : fetched[i] \in Nat \X Nat
  BY <1>1
<1>3. ASSUME NEW i \in 0 .. Len(fetched), NEW f \in Nat  PROVE FetchedTo(fetched, i, f) \in Nat
  <2>1. CASE i = 0
    BY <2>1 DEF FetchedTo
  <2>2. CASE i # 0
    <3>1. fetched[i] \in Nat \X Nat
      BY <2>2, <1>1, <1>2
    <3>2. QED  BY <2>2, <3>1 DEF FetchedTo
  <2>3. QED  BY <2>1, <2>2
<1>4. ASSUME NEW f \in Nat, \A i \in 1 .. Len(fetched) : fetched[i][1] # f  PROVE FetchedTo(fetched, Len(fetched), f) = 0
  <2>1. Len(fetched) = 0 \/ Len(fetched) \in 1 .. Len(fetched)
    BY <1>1
  <2>2. QED  BY <2>1, <1>4 DEF FetchedTo
<1>5. QED  BY <1>3, <1>4

\* An empty file and nobody there.
LEMMA StreamInvInit == StreamInit => StreamInv
<1> SUFFICES ASSUME StreamInit  PROVE StreamInv
  OBVIOUS
<1>1. <<>> \in Seq(Seq(Note)) /\ <<>> \in Seq(Nat \X Nat) /\ Len(<<>>) = 0 /\ 1 .. 0 = {}
  OBVIOUS
<1>2. StreamTypes
  <2>1. opened \in [Note -> 0 .. Len(inode)]
    BY <1>1 DEF StreamInit
  <2>2. console \in [Console -> [at : Ats, rpos : Nat, wpos : Nat, file : Nat]]
    BY DEF StreamInit, Ats
  <2>3. inode \in Seq(Seq(Note)) /\ current \in 0 .. Len(inode)
    BY <1>1 DEF StreamInit
  <2>4. fetched \in Seq(Nat \X Nat) /\ serial \in Int /\ crossed \in BOOLEAN
    <3>1. fetched = <<>> /\ serial = -1 /\ crossed = FALSE
      BY DEF StreamInit, NoPlace
    <3>2. serial \in Int
      BY <3>1
    <3>5. crossed \in BOOLEAN
      BY <3>1
    <3>3. fetched \in Seq(Nat \X Nat)
      BY <1>1, <3>1
    <3>4. QED  BY <3>2, <3>3, <3>5
  <2>5. QED  BY <2>1, <2>2, <2>3, <2>4 DEF StreamTypes
<1>3. FetchedInv
  BY <1>1 DEF StreamInit, FetchedInv
<1>4. PlaceInv
  BY <1>1 DEF StreamInit, PlaceInv, AtWork
<1>5. FileInv
  BY DEF StreamInit, FileInv
<1>6. QED  BY <1>2, <1>3, <1>4, <1>5 DEF StreamInv

\* A step that shows nothing and keeps the files leaves what was fetched right.
LEMMA FetchedStays ==
  ASSUME StreamTypes, FetchedInv, UNCHANGED fetched, inode' \in Seq(Seq(Note)), Len(inode) <= Len(inode'),
         \A f \in 1 .. Len(inode) : Len(inode[f]) <= Len(inode'[f])
  PROVE  FetchedInv' /\ \A i, f : FetchedTo(fetched', i, f) = FetchedTo(fetched, i, f)
<1>1. \A i, f : FetchedTo(fetched', i, f) = FetchedTo(fetched, i, f)
  BY DEF FetchedTo
<1>2. ASSUME NEW i \in 1 .. Len(fetched)
      PROVE  fetched[i][1] \in 1 .. Len(inode') /\ fetched[i][2] <= Len(inode'[fetched[i][1]])
  <2>1. fetched[i][1] \in 1 .. Len(inode) /\ fetched[i][2] <= Len(inode[fetched[i][1]])
    BY DEF FetchedInv
  <2>2. fetched[i] \in Nat \X Nat /\ inode \in Seq(Seq(Note))
    BY DEF StreamTypes
  <2>3. Len(inode) \in Nat /\ Len(inode') \in Nat
    BY <2>2
  <2>4. PICK f \in 1 .. Len(inode) : f = fetched[i][1]
    BY <2>1
  <2>5. f \in 1 .. Len(inode')
    BY <2>3
  <2>6. inode[f] \in Seq(Note)
    BY <2>2
  <2>7. inode'[f] \in Seq(Note)
    BY <2>5
  <2>8. Len(inode[f]) \in Nat /\ Len(inode'[f]) \in Nat /\ Len(inode[f]) <= Len(inode'[f])
    BY <2>6, <2>7
  <2>9. fetched[i][2] \in Nat /\ fetched[i][2] <= Len(inode[f])
    BY <2>1, <2>2, <2>4
  <2>10. fetched[i][2] <= Len(inode'[f])
    BY <2>8, <2>9
  <2>11. QED  BY <2>4, <2>5, <2>10
<1>3. QED  BY <1>1, <1>2 DEF FetchedInv

\* The writer opens the file, or a new one.
LEMMA WriteOpensStep ==
  ASSUME StreamInv, NEW n \in Note, WriteOpens(n)
  PROVE  StreamInv'
<1>1. /\ IF current = 0
         THEN inode' = Append(inode, <<>>) /\ current' = Len(inode) + 1
         ELSE UNCHANGED <<inode, current>>
      /\ opened' = [opened EXCEPT ![n] = current']
      /\ UNCHANGED <<serial, console, fetched, crossed>>
  BY DEF WriteOpens
<1>2. StreamTypes /\ inode \in Seq(Seq(Note)) /\ Len(inode) \in Nat /\ opened \in [Note -> 0 .. Len(inode)]
  BY DEF StreamInv, StreamTypes
<1>3. /\ inode' \in Seq(Seq(Note)) /\ Len(inode) <= Len(inode') /\ current' \in 0 .. Len(inode')
      /\ \A f \in 1 .. Len(inode) : inode'[f] = inode[f]
  <2>1. CASE current = 0
    <3>1. inode' = Append(inode, <<>>) /\ current' = Len(inode) + 1 /\ <<>> \in Seq(Note)
      BY <2>1, <1>1
    <3>2. Append(inode, <<>>) \in Seq(Seq(Note)) /\ Len(Append(inode, <<>>)) = Len(inode) + 1
          /\ \A f \in 1 .. Len(inode) : Append(inode, <<>>)[f] = inode[f]
      BY <3>1, <1>2
    <3>3. QED  BY <1>2, <3>1, <3>2
  <2>2. CASE current # 0
    BY <2>2, <1>1, <1>2 DEF StreamTypes
  <2>3. QED  BY <2>1, <2>2
<1>4. Len(inode') \in Nat /\ \A f \in 1 .. Len(inode) : Len(inode[f]) \in Nat /\ Len(inode[f]) <= Len(inode'[f])
  <2>1. \A f \in 1 .. Len(inode) : inode[f] \in Seq(Note)
    BY <1>2
  <2>2. \A f \in 1 .. Len(inode) : Len(inode[f]) \in Nat
    BY <2>1
  <2>3. QED  BY <2>2, <1>3
<1>5. opened' \in [Note -> 0 .. Len(inode')]
  <2>1. \A m \in Note : opened[m] \in 0 .. Len(inode')
    BY <1>2, <1>3, <1>4
  <2>2. QED  BY <2>1, <1>1, <1>2, <1>3
<1>6. StreamTypes'
  BY <1>1, <1>2, <1>3, <1>5 DEF StreamTypes
<1>7. ASSUME ~crossed  PROVE FetchedInv' /\ PlaceInv'
  <2>1. FetchedInv /\ PlaceInv
    BY <1>7 DEF StreamInv
  <2>2. FetchedInv' /\ \A i, f : FetchedTo(fetched', i, f) = FetchedTo(fetched, i, f)
    BY <2>1, <1>1, <1>2, <1>3, <1>4, FetchedStays
  <2>3. \A c \in Console : AtWork(c)' <=> AtWork(c)
    BY <1>1 DEF AtWork
  <2>4. CASE current = 0
    <3>1. \A i \in 1 .. Len(fetched) : fetched[i][1] # current /\ fetched[i][1] # current'
      <4>1. current' = Len(inode) + 1
        BY <2>4, <1>1
      <4>2. QED  BY <2>1, <2>4, <4>1, <1>2 DEF FetchedInv
    <3>2. Reached = 0 /\ FetchedTo(fetched, Len(fetched), current') = 0
      <4>1. current \in Nat /\ current' \in Nat
        BY <2>4, <1>1, <1>2
      <4>2. QED  BY <3>1, <4>1, <1>2, FetchedToIs DEF Reached
    <3>3. Reached' = FetchedTo(fetched, Len(fetched), current')
      BY <1>1 DEF Reached, FetchedTo
    <3>4. current' = Len(inode')
      BY <2>4, <1>1, <1>2
    <3>5. QED  BY <2>1, <2>2, <2>3, <2>4, <3>2, <3>3, <3>4, <1>1 DEF PlaceInv
  <2>5. CASE current # 0
    <3>1. UNCHANGED <<inode, current>> /\ Reached' = Reached
      BY <2>5, <1>1 DEF Reached, FetchedTo
    <3>2. QED  BY <2>1, <2>2, <2>3, <3>1, <1>1 DEF PlaceInv
  <2>6. QED  BY <2>4, <2>5
<1>8. FileInv'
  BY <1>1, <1>2, <1>3, <1>4 DEF StreamInv, FileInv
<1>9. QED  BY <1>1, <1>6, <1>7, <1>8 DEF StreamInv

\* It writes a note.
LEMMA WritesStep ==
  ASSUME StreamInv, NEW n \in Note, Writes(n)
  PROVE  StreamInv'
<1>1. /\ opened[n] # 0
      /\ inode' = [inode EXCEPT ![opened[n]] = Append(@, n)]
      /\ opened' = [opened EXCEPT ![n] = 0]
      /\ UNCHANGED <<current, serial, console, fetched, crossed>>
  BY DEF Writes
<1>2. StreamTypes /\ inode \in Seq(Seq(Note)) /\ Len(inode) \in Nat /\ opened \in [Note -> 0 .. Len(inode)]
      /\ opened[n] \in 1 .. Len(inode)
  BY <1>1 DEF StreamInv, StreamTypes
<1>3. \A f \in 1 .. Len(inode) : inode[f] \in Seq(Note) /\ Len(inode[f]) \in Nat
  <2>1. \A f \in 1 .. Len(inode) : inode[f] \in Seq(Note)
    BY <1>2
  <2>2. QED  BY <2>1
<1>4. /\ inode' \in Seq(Seq(Note)) /\ Len(inode') = Len(inode)
      /\ inode'[opened[n]] = Append(inode[opened[n]], n)
      /\ \A f \in 1 .. Len(inode) : f # opened[n] => inode'[f] = inode[f]
  <2>1. Append(inode[opened[n]], n) \in Seq(Note)
    BY <1>2, <1>3
  <2>2. QED  BY <2>1, <1>1, <1>2
<1>5. \A f \in 1 .. Len(inode) : Len(inode[f]) <= Len(inode'[f])
  <2>1. Len(inode'[opened[n]]) = Len(inode[opened[n]]) + 1
    BY <1>2, <1>3, <1>4
  <2>2. ASSUME NEW f \in 1 .. Len(inode), f # opened[n]  PROVE Len(inode[f]) <= Len(inode'[f])
    BY <2>2, <1>3, <1>4
  <2>3. QED  BY <2>1, <2>2, <1>2, <1>3
<1>6. opened' \in [Note -> 0 .. Len(inode')]
  BY <1>1, <1>2, <1>4
<1>7. StreamTypes'
  BY <1>1, <1>4, <1>6 DEF StreamInv, StreamTypes
<1>8. ASSUME ~crossed  PROVE FetchedInv' /\ PlaceInv'
  <2>1. FetchedInv /\ PlaceInv
    BY <1>8 DEF StreamInv
  <2>2. FetchedInv'
    BY <2>1, <1>1, <1>2, <1>4, <1>5, FetchedStays
  <2>3. Reached' = Reached /\ \A c \in Console : AtWork(c)' <=> AtWork(c)
    BY <1>1 DEF AtWork, Reached, FetchedTo
  <2>4. QED  BY <2>1, <2>2, <2>3, <1>1, <1>4 DEF PlaceInv
<1>9. FileInv'
  BY <1>1, <1>4 DEF StreamInv, FileInv
<1>10. QED  BY <1>1, <1>7, <1>8, <1>9 DEF StreamInv

\* A console starts, with or without a place that was kept.
LEMMA ConsoleStartsStep ==
  ASSUME StreamInv, NEW c \in Console, ConsoleStarts(c)
  PROVE  StreamInv'
<1>1. /\ console[c].at = "off" /\ current' = 0
      /\ console' = [console EXCEPT ![c] = [at |-> "saves", rpos |-> 0, wpos |-> 0, file |-> 0]]
      /\ crossed' = (crossed \/ ~Quiet(c))
      /\ UNCHANGED <<inode, serial, opened, fetched>>
  BY DEF ConsoleStarts, Begins
<1>2. StreamTypes
  BY DEF StreamInv
<1>3. /\ console' \in [Console -> [at : Ats, rpos : Nat, wpos : Nat, file : Nat]]
      /\ console'[c] = [at |-> "saves", rpos |-> 0, wpos |-> 0, file |-> 0]
      /\ \A d \in Console : d # c => console'[d] = console[d]
  BY <1>1, <1>2 DEF StreamTypes, Ats
<1>4. StreamTypes'
  <2>1. crossed' \in BOOLEAN
    BY <1>1
  <2>2. current' \in 0 .. Len(inode)
    <3>1. Len(inode) \in Nat
      BY <1>2 DEF StreamTypes
    <3>2. QED  BY <3>1, <1>1
  <2>3. QED  BY <2>1, <2>2, <1>1, <1>2, <1>3 DEF StreamTypes
<1>5. ASSUME ~crossed'  PROVE FetchedInv' /\ PlaceInv'
  <2>1. FetchedInv /\ PlaceInv /\ \A d \in Console : d # c => console[d].at \in {"off", "idle"}
    BY <1>1, <1>2, <1>5 DEF StreamInv, StreamTypes, Quiet
  <2>2. FetchedInv'
    BY <2>1, <1>1 DEF FetchedInv, FetchedTo
  <2>3. Reached' = 0
    <3>1. \A i \in 1 .. Len(fetched) : fetched[i][1] # 0
      BY <2>1 DEF FetchedInv
    <3>2. FetchedTo(fetched, Len(fetched), 0) = 0
      BY <3>1, <1>2, FetchedToIs
    <3>3. QED  BY <3>2, <1>1 DEF Reached, FetchedTo
  <2>4. AtWork(c)' /\ \A d \in Console : d # c => ~AtWork(d)' /\ console'[d].at \in {"off", "idle"}
    BY <2>1, <1>3 DEF AtWork
  <2>5. QED  BY <2>1, <2>2, <2>3, <2>4, <1>1, <1>3 DEF PlaceInv
<1>6. FileInv'
  BY <1>1, <1>3 DEF StreamInv, FileInv
<1>7. QED  BY <1>4, <1>5, <1>6 DEF StreamInv

\* A step of one console that leaves the files and what was fetched.
LEMMA SavesStep ==
  ASSUME StreamInv, NEW c \in Console, Saves(c)
  PROVE  StreamInv'
<1>1. /\ console[c].at = "saves" /\ serial' = Emptied
      /\ console' = [console EXCEPT ![c].at = "writes"]
      /\ UNCHANGED <<inode, current, opened, fetched, crossed>>
  BY DEF Saves
<1>2. /\ console' \in [Console -> [at : Ats, rpos : Nat, wpos : Nat, file : Nat]]
      /\ console'[c].at = "writes" /\ console'[c].rpos = console[c].rpos
      /\ \A d \in Console : d # c => console'[d] = console[d]
  BY <1>1 DEF StreamInv, StreamTypes, Ats
<1>3. StreamTypes'
  BY <1>1, <1>2 DEF StreamInv, StreamTypes, Emptied
<1>4. Reached' = Reached /\ \A d \in Console : AtWork(d)' <=> AtWork(d)
  BY <1>1, <1>2 DEF AtWork, Reached, FetchedTo
<1>5. ASSUME ~crossed  PROVE FetchedInv' /\ PlaceInv'
  <2>1. FetchedInv /\ PlaceInv /\ AtWork(c)
    BY <1>1, <1>5 DEF StreamInv, AtWork
  <2>2. \A d \in Console : d # c => ~AtWork(d)
    BY <2>1 DEF PlaceInv
  <2>3. FetchedInv'
    BY <2>1, <1>1 DEF FetchedInv, FetchedTo
  <2>4. \A d \in Console : d # c => console'[d].at \notin {"saves", "writes", "takes", "loads"}
    BY <2>2, <1>2 DEF AtWork
  <2>5. QED  BY <2>1, <2>2, <2>3, <2>4, <1>1, <1>2, <1>4 DEF PlaceInv
<1>6. FileInv'
  BY <1>1, <1>2 DEF StreamInv, FileInv
<1>7. QED  BY <1>1, <1>3, <1>5, <1>6 DEF StreamInv

\* A place is saved.
LEMMA SavedStep ==
  ASSUME StreamInv, NEW c \in Console, Saved(c)
  PROVE  StreamInv'
<1>1. /\ console[c].at = "writes" /\ serial' = console[c].rpos
      /\ console' = [console EXCEPT ![c].at = "idle", ![c].file = 0]
      /\ UNCHANGED <<inode, current, opened, fetched, crossed>>
  BY DEF Saved
<1>2. /\ console' \in [Console -> [at : Ats, rpos : Nat, wpos : Nat, file : Nat]]
      /\ console'[c].at = "idle" /\ serial' \in Int
      /\ \A d \in Console : d # c => console'[d] = console[d]
  <2>1. console \in [Console -> [at : Ats, rpos : Nat, wpos : Nat, file : Nat]]
    BY DEF StreamInv, StreamTypes
  <2>2. serial' \in Int
    BY <1>1, <2>1
  <2>3. console' = [console EXCEPT ![c] = [console[c] EXCEPT !.at = "idle", !.file = 0]]
    BY <1>1
  <2>4. /\ [console[c] EXCEPT !.at = "idle", !.file = 0] \in [at : Ats, rpos : Nat, wpos : Nat, file : Nat]
        /\ [console[c] EXCEPT !.at = "idle", !.file = 0].at = "idle"
    BY <2>1 DEF Ats
  <2>5. QED  BY <2>1, <2>2, <2>3, <2>4
<1>3. StreamTypes'
  BY <1>1, <1>2 DEF StreamInv, StreamTypes
<1>4. Reached' = Reached /\ ~AtWork(c)' /\ \A d \in Console : d # c => (AtWork(d)' <=> AtWork(d))
  BY <1>1, <1>2 DEF AtWork, Reached, FetchedTo
<1>5. ASSUME ~crossed  PROVE FetchedInv' /\ PlaceInv'
  <2>1. FetchedInv /\ PlaceInv /\ AtWork(c)
    BY <1>1, <1>5 DEF StreamInv, AtWork
  <2>2. \A d \in Console : d # c => ~AtWork(d)
    BY <2>1 DEF PlaceInv
  <2>3. FetchedInv'
    BY <2>1, <1>1 DEF FetchedInv, FetchedTo
  <2>4. \A d \in Console : console'[d].at \notin {"saves", "writes", "takes", "loads"}
    BY <2>2, <1>2 DEF AtWork
  <2>5. serial' = Reached
    BY <2>1, <1>1 DEF PlaceInv
  <2>6. QED  BY <2>1, <2>3, <2>4, <2>5, <1>1, <1>4 DEF PlaceInv, AtWork
<1>6. FileInv'
  BY <1>1, <1>2 DEF StreamInv, FileInv
<1>7. QED  BY <1>1, <1>3, <1>5, <1>6 DEF StreamInv

\* A reader opens the file its place is in.
LEMMA ReadOpensStep ==
  ASSUME StreamInv, NEW c \in Console, ReadOpens(c)
  PROVE  StreamInv'
<1>1. /\ console[c].at = "idle" /\ current # 0
      /\ console' = [console EXCEPT ![c].at = "loads", ![c].file = current]
      /\ crossed' = (crossed \/ ~Quiet(c))
      /\ UNCHANGED <<inode, current, serial, opened, fetched>>
  BY DEF ReadOpens, Begins
<1>2. /\ console' \in [Console -> [at : Ats, rpos : Nat, wpos : Nat, file : Nat]]
      /\ console'[c].at = "loads" /\ console'[c].file = current
      /\ \A d \in Console : d # c => console'[d] = console[d]
  <2>1. console \in [Console -> [at : Ats, rpos : Nat, wpos : Nat, file : Nat]] /\ current \in Nat
    BY DEF StreamInv, StreamTypes
  <2>2. console' = [console EXCEPT ![c] = [console[c] EXCEPT !.at = "loads", !.file = current]]
    BY <1>1
  <2>3. /\ [console[c] EXCEPT !.at = "loads", !.file = current] \in [at : Ats, rpos : Nat, wpos : Nat, file : Nat]
        /\ [console[c] EXCEPT !.at = "loads", !.file = current].at = "loads"
        /\ [console[c] EXCEPT !.at = "loads", !.file = current].file = current
    BY <2>1 DEF Ats
  <2>4. QED  BY <2>1, <2>2, <2>3
<1>3. StreamTypes'
  <2>1. crossed' \in BOOLEAN
    BY <1>1
  <2>2. QED  BY <2>1, <1>1, <1>2 DEF StreamInv, StreamTypes
<1>4. Reached' = Reached
  BY <1>1 DEF Reached, FetchedTo
<1>5. ASSUME ~crossed'  PROVE FetchedInv' /\ PlaceInv'
  <2>1. FetchedInv /\ PlaceInv /\ \A d \in Console : d # c => console[d].at \in {"off", "idle"}
    BY <1>1, <1>5 DEF StreamInv, StreamTypes, Quiet
  <2>2. \A d \in Console : ~AtWork(d)
    BY <2>1, <1>1 DEF AtWork
  <2>3. serial = Reached
    BY <2>1, <2>2, <1>1 DEF PlaceInv
  <2>4. FetchedInv'
    BY <2>1, <1>1 DEF FetchedInv, FetchedTo
  <2>5. AtWork(c)' /\ \A d \in Console : d # c => ~AtWork(d)' /\ console'[d].at \in {"off", "idle"}
    BY <2>1, <1>2 DEF AtWork
  <2>6. QED  BY <2>1, <2>3, <2>4, <2>5, <1>1, <1>2, <1>4 DEF PlaceInv
<1>6. FileInv'
  <2>1. current \in 1 .. Len(inode)
    BY <1>1 DEF StreamInv, StreamTypes
  <2>2. QED  BY <2>1, <1>1, <1>2 DEF StreamInv, FileInv
<1>7. QED  BY <1>3, <1>5, <1>6 DEF StreamInv

\* It loads what is there.
LEMMA LoadsStep ==
  ASSUME StreamInv, NEW c \in Console, Loads(c)
  PROVE  StreamInv'
<1> DEFINE length == IF current = 0 THEN 0 ELSE Len(inode[current])
           r == IF serial >= 0 THEN serial ELSE console[c].rpos
           w == IF serial = NoPlace THEN console[c].wpos ELSE length
<1>1. /\ console[c].at = "loads"
      /\ console' = [console EXCEPT ![c].at = "takes", ![c].rpos = r, ![c].wpos = w]
      /\ UNCHANGED <<inode, current, serial, opened, fetched, crossed>>
  BY DEF Loads
<1>2. StreamTypes
  BY DEF StreamInv
<1>3. length \in Nat
  <2>1. CASE current = 0
    BY <2>1
  <2>2. CASE current # 0
    <3>1. inode \in Seq(Seq(Note)) /\ current \in 1 .. Len(inode)
      BY <1>2, <2>2 DEF StreamTypes
    <3>2. inode[current] \in Seq(Note)
      BY <3>1
    <3>3. QED  BY <2>2, <3>2
  <2>3. QED  BY <2>1, <2>2
<1> HIDE DEF length
<1>4. r \in Nat /\ w \in Nat /\ serial \in Int
  BY <1>2, <1>3 DEF StreamTypes
<1> HIDE DEF r, w
<1>5. /\ console' \in [Console -> [at : Ats, rpos : Nat, wpos : Nat, file : Nat]]
      /\ console'[c].at = "takes" /\ console'[c].rpos = r /\ console'[c].file = console[c].file
      /\ \A d \in Console : d # c => console'[d] = console[d]
  BY <1>1, <1>2, <1>4 DEF StreamTypes, Ats
<1>6. StreamTypes'
  BY <1>1, <1>2, <1>5 DEF StreamTypes
<1>7. Reached' = Reached /\ \A d \in Console : AtWork(d)' <=> AtWork(d)
  BY <1>1, <1>5 DEF AtWork, Reached, FetchedTo
<1>8. ASSUME ~crossed  PROVE FetchedInv' /\ PlaceInv'
  <2>1. FetchedInv /\ PlaceInv /\ AtWork(c)
    BY <1>1, <1>8 DEF StreamInv, AtWork
  <2>2. \A d \in Console : d # c => ~AtWork(d)
    BY <2>1 DEF PlaceInv
  <2>3. FetchedInv'
    BY <2>1, <1>1 DEF FetchedInv, FetchedTo
  <2>4. \A d \in Console : d # c => console'[d].at \notin {"saves", "writes", "takes", "loads"}
    BY <2>2, <1>5 DEF AtWork
  <2>5. r = Reached
    <3>1. serial = Reached /\ Reached \in Nat
      <4>1. current \in Nat /\ Len(fetched) \in 0 .. Len(fetched)
        BY <1>2 DEF StreamTypes
      <4>2. Reached \in Nat
        BY <1>2, <4>1, FetchedToIs DEF Reached
      <4>3. QED  BY <4>2, <2>1, <1>1 DEF PlaceInv
    <3>2. QED  BY <3>1, <1>4 DEF r
  <2>6. console'[c].file = current /\ current # 0
    BY <2>1, <1>1, <1>5 DEF PlaceInv
  <2>7. QED  BY <2>1, <2>2, <2>3, <2>4, <2>5, <2>6, <1>1, <1>5, <1>7 DEF PlaceInv
<1>9. FileInv'
  BY <1>1, <1>5 DEF StreamInv, FileInv
<1>10. QED  BY <1>1, <1>6, <1>8, <1>9 DEF StreamInv

\* A read takes what its room and the file allow.
LEMMA NextNotesAre ==
  ASSUME StreamInv, NEW c \in Console, console[c].at = "takes"
  PROVE  /\ Cardinality(NextNotes(c)) \in Nat
         /\ Cardinality(NextNotes(c)) # 0 =>
              console[c].rpos + Cardinality(NextNotes(c)) <= Len(inode[console[c].file])
<1> DEFINE r == console[c].rpos  L == Len(inode[console[c].file])
           m == IF L <= r + ReadMax THEN L ELSE r + ReadMax
<1>1. /\ r \in Nat /\ console[c].wpos \in Nat /\ inode[console[c].file] \in Seq(Note)
      /\ L \in Nat /\ DOMAIN inode[console[c].file] = 1 .. L
  <2>1. console[c].file \in 1 .. Len(inode) /\ inode \in Seq(Seq(Note))
    BY DEF StreamInv, StreamTypes, FileInv
  <2>2. inode[console[c].file] \in Seq(Note)
    BY <2>1
  <2>3. r \in Nat /\ console[c].wpos \in Nat
    BY DEF StreamInv, StreamTypes
  <2>4. QED  BY <2>2, <2>3
<1>2. CASE console[c].wpos <= r
  <2>1. NextNotes(c) = {}
    BY <1>2 DEF NextNotes
  <2>2. Cardinality(NextNotes(c)) = 0
    BY <2>1, FS_EmptySet
  <2>3. QED  BY <2>2
<1>3. CASE ~(console[c].wpos <= r)
  <2>1. ReadMax \in Nat
    BY StreamAssumption
  <2>2. NextNotes(c) = {i \in 1 .. L : r < i /\ i <= r + ReadMax}
    BY <1>1, <1>3 DEF NextNotes
  <2>3. {i \in 1 .. L : r < i /\ i <= r + ReadMax} = (r + 1) .. m
    BY <1>1, <2>1
  <2>4. m \in Nat /\ r + 1 \in Nat /\ m <= L
    BY <1>1, <2>1
  <2>5. Cardinality((r + 1) .. m) = IF r + 1 > m THEN 0 ELSE m - (r + 1) + 1
    <3> HIDE DEF m, r
    <3>1. r + 1 \in Int /\ m \in Int
      BY <2>4
    <3>2. QED  BY <3>1, FS_Interval, Zenon
  <2>6. Cardinality(NextNotes(c)) = IF r + 1 > m THEN 0 ELSE m - (r + 1) + 1
    BY <2>2, <2>3, <2>5
  <2> HIDE DEF m, L, r
  <2> DEFINE k == Cardinality(NextNotes(c))
  <2>7. k = (IF r + 1 > m THEN 0 ELSE m - (r + 1) + 1) /\ r \in Nat /\ m \in Nat /\ L \in Nat /\ m <= L
    BY <1>1, <2>4, <2>6
  <2> HIDE DEF k
  <2>8. k \in Nat /\ (k # 0 => r + k <= L)
    BY <2>7
  <2>9. QED  BY <2>8 DEF k, L, r
<1>4. QED  BY <1>2, <1>3

\* It fetches a note and moves its place.
LEMMA TakesStep ==
  ASSUME StreamInv, NEW c \in Console, Takes(c)
  PROVE  StreamInv'
<1>20. /\ console[c].at = "takes"
       /\ fetched' = fetched \o [i \in 1 .. Cardinality(NextNotes(c)) |-> <<console[c].file, console[c].rpos + i>>]
       /\ console' = [console EXCEPT ![c].at = "saves", ![c].rpos = @ + Cardinality(NextNotes(c))]
       /\ UNCHANGED <<inode, current, serial, opened, crossed>>
  BY DEF Takes
<1>21. /\ Cardinality(NextNotes(c)) \in Nat
       /\ Cardinality(NextNotes(c)) # 0 =>
            console[c].rpos + Cardinality(NextNotes(c)) <= Len(inode[console[c].file])
  BY <1>20, NextNotesAre
<1>22. StreamTypes /\ console[c].rpos \in Nat /\ console[c].file \in 1 .. Len(inode)
       /\ inode \in Seq(Seq(Note)) /\ Len(fetched) \in Nat
  BY <1>20 DEF StreamInv, StreamTypes, FileInv
<1>23. PICK n \in Nat : n = Cardinality(NextNotes(c))
  BY <1>21
<1>24. PICK r \in Nat : r = console[c].rpos
  BY <1>22
<1>25. PICK f \in Nat : f = console[c].file
  BY <1>22
<1>26. PICK len \in Nat : len = Len(fetched)
  BY <1>22
<1> DEFINE more == [i \in 1 .. n |-> <<f, r + i>>]
<1>1. /\ console[c].at = "takes" /\ fetched' = fetched \o more
      /\ console' = [console EXCEPT ![c].at = "saves", ![c].rpos = @ + n]
      /\ UNCHANGED <<inode, current, serial, opened, crossed>>
  BY <1>20, <1>23, <1>24, <1>25
<1>2. n \in Nat /\ (n # 0 => r + n <= Len(inode[f]))
  BY <1>21, <1>23, <1>24, <1>25
<1>3. StreamTypes /\ r \in Nat /\ f \in 1 .. Len(inode) /\ Len(inode) \in Nat /\ Len(inode[f]) \in Nat
      /\ console \in [Console -> [at : Ats, rpos : Nat, wpos : Nat, file : Nat]]
      /\ fetched \in Seq(Nat \X Nat) /\ len \in Nat
  <2>1. inode[f] \in Seq(Note)
    BY <1>22, <1>25
  <2>2. QED  BY <2>1, <1>22, <1>25 DEF StreamTypes
<1>4. /\ console' \in [Console -> [at : Ats, rpos : Nat, wpos : Nat, file : Nat]]
      /\ console'[c].at = "saves" /\ console'[c].rpos = r + n
      /\ \A d \in Console : d # c => console'[d] = console[d]
  <2>1. console' = [console EXCEPT ![c] = [console[c] EXCEPT !.at = "saves", !.rpos = r + n]]
    BY <1>1, <1>24
  <2>2. /\ [console[c] EXCEPT !.at = "saves", !.rpos = r + n] \in [at : Ats, rpos : Nat, wpos : Nat, file : Nat]
        /\ [console[c] EXCEPT !.at = "saves", !.rpos = r + n].at = "saves"
        /\ [console[c] EXCEPT !.at = "saves", !.rpos = r + n].rpos = r + n
    <3>1. console[c] \in [at : Ats, rpos : Nat, wpos : Nat, file : Nat] /\ r + n \in Nat
      BY <1>3
    <3>2. QED  BY <3>1 DEF Ats
  <2>3. QED  BY <1>3, <2>1, <2>2
<1>5. more \in Seq(Nat \X Nat) /\ Len(more) = n /\ \A i \in 1 .. n : more[i] = <<f, r + i>>
  <2>1. more \in [1 .. n -> Nat \X Nat] /\ \A i \in 1 .. n : more[i] = <<f, r + i>>
    BY <1>2, <1>3
  <2> HIDE DEF more
  <2>2. more \in Seq(Nat \X Nat) /\ Len(more) = n
    BY <1>2, <2>1
  <2>3. QED  BY <2>1, <2>2
<1> HIDE DEF more
<1>6. /\ fetched' \in Seq(Nat \X Nat) /\ Len(fetched') = len + n
      /\ \A j \in 1 .. len : fetched'[j] = fetched[j]
      /\ \A j \in len + 1 .. len + n : fetched'[j] = <<f, r + (j - len)>>
  <2>1. /\ fetched \o more \in Seq(Nat \X Nat) /\ Len(fetched \o more) = len + n
        /\ \A j \in 1 .. len : (fetched \o more)[j] = fetched[j]
        /\ \A j \in len + 1 .. len + n : (fetched \o more)[j] = more[j - len]
    <3>1. ASSUME NEW s \in Seq(Nat \X Nat), NEW t \in Seq(Nat \X Nat)
          PROVE  /\ s \o t \in Seq(Nat \X Nat) /\ Len(s \o t) = Len(s) + Len(t)
                 /\ \A j \in 1 .. Len(s) : (s \o t)[j] = s[j]
                 /\ \A j \in Len(s) + 1 .. Len(s) + Len(t) : (s \o t)[j] = t[j - Len(s)]
      OBVIOUS
    <3>2. QED  BY <1>3, <1>5, <1>26, <3>1
  <2>2. \A j \in len + 1 .. len + n : j - len \in 1 .. n
    BY <1>2, <1>3
  <2>3. ASSUME NEW j \in len + 1 .. len + n  PROVE fetched'[j] = <<f, r + (j - len)>>
    <3>1. j - len \in 1 .. n
      BY <2>2
    <3>2. more[j - len] = <<f, r + (j - len)>>
      BY <3>1, <1>5
    <3>3. fetched'[j] = more[j - len]
      <4>1. (fetched \o more)[j] = more[j - len]
        BY <2>1
      <4>2. QED  BY <1>1, <4>1
    <3>4. QED  BY <3>2, <3>3
  <2>4. \A j \in 1 .. len : fetched'[j] = fetched[j]
    BY <1>1, <2>1
  <2>5. fetched' \in Seq(Nat \X Nat) /\ Len(fetched') = len + n
    BY <1>1, <2>1
  <2>6. QED  BY <2>3, <2>4, <2>5
<1>7. StreamTypes'
  BY <1>1, <1>4, <1>6 DEF StreamInv, StreamTypes
<1>8. FileInv'
  BY <1>1, <1>4 DEF StreamInv, FileInv
<1>9. ASSUME ~crossed  PROVE FetchedInv' /\ PlaceInv'
  <2>1. FetchedInv /\ PlaceInv /\ AtWork(c)
    BY <1>1, <1>9 DEF StreamInv, AtWork
  <2>2. \A d \in Console : d # c => ~AtWork(d)
    BY <2>1 DEF PlaceInv
  <2>3. f = current /\ f = Len(inode) /\ r = FetchedTo(fetched, len, f)
    BY <2>1, <1>1, <1>24, <1>25, <1>26 DEF PlaceInv, Reached
  <2>4. \A j \in 0 .. len, g \in Nat : FetchedTo(fetched', j, g) = FetchedTo(fetched, j, g)
    <3>1. ASSUME NEW j \in 0 .. len, NEW g \in Nat  PROVE FetchedTo(fetched', j, g) = FetchedTo(fetched, j, g)
      <4>1. j = 0 \/ j \in 1 .. len
        BY <1>3
      <4>2. j = 0 \/ fetched'[j] = fetched[j]
        BY <4>1, <1>6
      <4>3. QED  BY <4>2 DEF FetchedTo
    <3>2. QED  BY <3>1
  <2>5. \A i \in 1 .. n : FetchedTo(fetched', len + i, f) = r + i
    <3>1. ASSUME NEW i \in 1 .. n  PROVE FetchedTo(fetched', len + i, f) = r + i
      <4>1. len + i # 0 /\ len + i \in len + 1 .. len + n /\ (len + i) - len = i
        BY <1>2, <1>3
      <4>2. fetched'[len + i] = <<f, r + i>>
        BY <1>6, <4>1
      <4>3. QED  BY <4>1, <4>2 DEF FetchedTo
    <3>2. QED  BY <3>1
  <2>6. Reached' = r + n
    <3>1. Reached' = FetchedTo(fetched', len + n, f)
      BY <1>1, <1>6, <2>3 DEF Reached, FetchedTo
    <3>2. CASE n = 0
      BY <3>1, <3>2, <2>3, <2>4, <1>3
    <3>3. CASE n # 0
      BY <3>1, <3>3, <2>5, <1>2
    <3>4. QED  BY <3>2, <3>3
  <2>7. ASSUME NEW j \in 1 .. Len(fetched')
        PROVE  /\ j > 1 => fetched'[j - 1][1] <= fetched'[j][1]
               /\ fetched'[j][1] \in 1 .. Len(inode')
               /\ fetched'[j][2] = FetchedTo(fetched', j - 1, fetched'[j][1]) + 1
               /\ fetched'[j][2] <= Len(inode'[fetched'[j][1]])
    <3>1. CASE j \in 1 .. len
      <4>4. j - 1 \in 0 .. len /\ (j > 1 => j - 1 \in 1 .. len)
        BY <3>1, <1>3
      <4>5. fetched[j] \in Nat \X Nat
        BY <3>1, <1>3, <1>26
      <4>6. fetched'[j] = fetched[j] /\ (j > 1 => fetched'[j - 1] = fetched[j - 1])
        BY <3>1, <4>4, <1>6
      <4>1. fetched'[j] = fetched[j] /\ (j > 1 => fetched'[j - 1] = fetched[j - 1]) /\ fetched[j] \in Nat \X Nat
            /\ j - 1 \in 0 .. len /\ fetched[j][1] \in Nat
        BY <4>4, <4>5, <4>6
      <4>2. FetchedTo(fetched', j - 1, fetched[j][1]) = FetchedTo(fetched, j - 1, fetched[j][1])
        BY <4>1, <2>4
      <4>3. /\ j > 1 => fetched[j - 1][1] <= fetched[j][1]
            /\ fetched[j][1] \in 1 .. Len(inode)
            /\ fetched[j][2] = FetchedTo(fetched, j - 1, fetched[j][1]) + 1
            /\ fetched[j][2] <= Len(inode[fetched[j][1]])
        BY <3>1, <2>1, <1>26 DEF FetchedInv
      <4>7. FetchedTo(fetched', j - 1, fetched'[j][1]) = FetchedTo(fetched, j - 1, fetched[j][1])
        BY <4>1, <4>2
      <4>8. QED  BY <4>1, <4>3, <4>7, <1>1
    <3>2. CASE j \notin 1 .. len
      <4>1. PICK i \in 1 .. n : j = len + i
        <5>1. j \in 1 .. len + n
          BY <1>6
        <5>2. \A x \in 1 .. len + n : x \notin 1 .. len => x - len \in 1 .. n /\ x = len + (x - len)
          BY <1>2, <1>3
        <5>3. j - len \in 1 .. n /\ j = len + (j - len)
          BY <3>2, <5>1, <5>2
        <5>4. QED  BY <5>3
      <4>2. fetched'[j] = <<f, r + i>>
        <5>1. len + i \in len + 1 .. len + n /\ (len + i) - len = i
          BY <1>2, <1>3
        <5>2. QED  BY <4>1, <5>1, <1>6
      <4>3. fetched'[j][1] = f /\ fetched'[j][2] = r + i
        BY <4>2
      <4>4. r + i <= Len(inode[f])
        BY <1>2, <1>3, <4>1
      <4>5. CASE i = 1
        <5>1. j - 1 = len
          BY <4>1, <4>5, <1>3
        <5>2. j > 1 => fetched'[j - 1] = fetched[len] /\ fetched[len][1] \in 1 .. Len(inode)
          <6>1. SUFFICES ASSUME j > 1  PROVE fetched'[j - 1] = fetched[len] /\ fetched[len][1] \in 1 .. Len(inode)
            OBVIOUS
          <6>2. len \in 1 .. len
            BY <6>1, <5>1, <4>1, <1>3
          <6>3. fetched'[j - 1] = fetched[len]
            BY <6>2, <5>1, <1>6
          <6>4. QED  BY <6>2, <6>3, <2>1, <1>26 DEF FetchedInv
        <5>3. j > 1 => fetched'[j - 1][1] <= f
          <6>1. \A x \in 1 .. Len(inode) : x <= Len(inode)
            BY <1>3
          <6>2. QED  BY <5>2, <2>3, <6>1
        <5>4. FetchedTo(fetched', j - 1, f) = r
          BY <5>1, <2>3, <2>4, <1>3
        <5>5. QED  BY <4>3, <4>4, <4>5, <5>3, <5>4, <1>1, <1>3
      <4>6. CASE i # 1
        <5>1. i - 1 \in 1 .. n /\ j - 1 = len + (i - 1)
          BY <4>1, <4>6, <1>2, <1>3
        <5>2. FetchedTo(fetched', j - 1, f) = r + (i - 1)
          BY <5>1, <2>5
        <5>3. fetched'[j - 1] = <<f, r + (i - 1)>>
          <6>1. len + (i - 1) \in len + 1 .. len + n /\ (len + (i - 1)) - len = i - 1
            BY <5>1, <1>2, <1>3, <4>1
          <6>2. QED  BY <5>1, <6>1, <1>6
        <5>4. fetched'[j - 1][1] = f
          BY <5>3
        <5>5. r + (i - 1) + 1 = r + i /\ f <= f
          BY <1>3, <4>1
        <5>6. QED  BY <4>3, <4>4, <5>2, <5>4, <5>5, <1>1, <1>3
      <4>7. QED  BY <4>5, <4>6
    <3>3. QED  BY <3>1, <3>2
  <2>8. FetchedInv'
    BY <2>7 DEF FetchedInv
  <2>9. AtWork(c)' /\ \A d \in Console : d # c => ~AtWork(d)'
    BY <2>2, <1>4 DEF AtWork
  <2>10. \A d \in Console : d # c => console'[d].at \notin {"saves", "writes", "takes", "loads"}
    BY <2>2, <1>4 DEF AtWork
  <2>11. PlaceInv'
    BY <2>1, <2>6, <2>9, <2>10, <1>1, <1>4 DEF PlaceInv
  <2>12. QED  BY <2>8, <2>11
<1>10. QED  BY <1>1, <1>7, <1>8, <1>9 DEF StreamInv

\* A console ends.
LEMMA ConsoleEndsStep ==
  ASSUME StreamInv, NEW c \in Console, ConsoleEnds(c)
  PROVE  StreamInv'
<1>1. /\ console[c].at = "idle"
      /\ console' = [console EXCEPT ![c].at = "off"]
      /\ UNCHANGED <<inode, current, serial, opened, fetched, crossed>>
  BY DEF ConsoleEnds
<1>2. /\ console' \in [Console -> [at : Ats, rpos : Nat, wpos : Nat, file : Nat]]
      /\ console'[c].at = "off"
      /\ \A d \in Console : d # c => console'[d] = console[d]
  BY <1>1 DEF StreamInv, StreamTypes, Ats
<1>3. StreamTypes'
  BY <1>1, <1>2 DEF StreamInv, StreamTypes
<1>4. Reached' = Reached /\ \A d \in Console : AtWork(d)' <=> AtWork(d)
  BY <1>1, <1>2 DEF AtWork, Reached, FetchedTo
<1>5. ASSUME ~crossed  PROVE FetchedInv' /\ PlaceInv'
  <2>1. FetchedInv /\ PlaceInv
    BY <1>5 DEF StreamInv
  <2>2. FetchedInv'
    BY <2>1, <1>1 DEF FetchedInv, FetchedTo
  <2>3. QED  BY <2>1, <2>2, <1>1, <1>2, <1>4 DEF PlaceInv
<1>6. FileInv'
  BY <1>1, <1>2 DEF StreamInv, FileInv
<1>7. QED  BY <1>1, <1>3, <1>5, <1>6 DEF StreamInv

\* Every step.
LEMMA StreamInvStep == StreamInv /\ [StreamNext]_streamVars => StreamInv'
<1> SUFFICES ASSUME StreamInv, [StreamNext]_streamVars  PROVE StreamInv'
  OBVIOUS
<1>1. ASSUME NEW n \in Note, WriteOpens(n) \/ Writes(n)  PROVE StreamInv'
  BY <1>1, WriteOpensStep, WritesStep
<1>2. ASSUME NEW c \in Console,
             ConsoleStarts(c) \/ Saves(c) \/ Saved(c) \/ ReadOpens(c) \/ Loads(c) \/ Takes(c) \/ ConsoleEnds(c)
      PROVE  StreamInv'
  BY <1>2, ConsoleStartsStep, SavesStep, SavedStep, ReadOpensStep, LoadsStep, TakesStep, ConsoleEndsStep
<1>3. CASE UNCHANGED streamVars
  <2>1. Reached' = Reached /\ \A c \in Console : AtWork(c)' <=> AtWork(c)
    BY <1>3 DEF streamVars, Reached, AtWork, FetchedTo
  <2>2. QED  BY <1>3, <2>1 DEF streamVars, StreamInv, StreamTypes, FileInv, FetchedInv, PlaceInv, FetchedTo
<1>4. QED  BY <1>1, <1>2, <1>3 DEF StreamNext

\* What the invariant says of the notes that were fetched.
LEMMA StreamInvKeeps == StreamInv => NotesInOrder
<1> SUFFICES ASSUME StreamInv, ~crossed  PROVE NotesInOrder
  BY DEF NotesInOrder
<1>1. FetchedInv /\ PlaceInv /\ StreamTypes
  BY DEF StreamInv
<1>2. DOMAIN fetched = 1 .. Len(fetched) /\ DOMAIN inode = 1 .. Len(inode)
  BY <1>1 DEF StreamTypes
<1>3. \A c \in Console : console[c].at \in Ats
  BY <1>1 DEF StreamTypes
<1>4. \A c \in Console : console[c].at = "idle" =>
         \/ \E d \in Console : console[d].at # "idle" /\ console[d].at # "off"
         \/ serial = FetchedTo(fetched, Len(fetched), current)
  BY <1>1, <1>3 DEF PlaceInv, AtWork, Reached, Ats
<1>5. QED  BY <1>1, <1>2, <1>4 DEF FetchedInv, NotesInOrder

\* Whatever the workers write and however the file is moved meanwhile, consoles that
\* do not begin to read at once fetch the notes of a file in order, each once, and a
\* console that waits finds the place that was reached (files_stream.cpp).
THEOREM NotesFetchedInOrder == StreamInit /\ [][StreamNext]_streamVars => []NotesInOrder
<1>1. StreamInit => StreamInv
  BY StreamInvInit
<1>2. StreamInv /\ [StreamNext]_streamVars => StreamInv'
  BY StreamInvStep
<1>3. StreamInv => NotesInOrder
  BY StreamInvKeeps
<1>4. QED  BY <1>1, <1>2, <1>3, PTL

(*****************************************************************************)
(* Startup: the pid file.                                                    *)
(*****************************************************************************)

-----------------------------------------------------------------------------
(* The options.                                                            *)

\* Which option ends a line.
LEMMA FirstEnding ==
  ASSUME NEW o \in Seq(STRING), Ending(o) # {}
  PROVE  Min(Ending(o)) \in Ending(o) /\ \A i \in Ending(o) : Min(Ending(o)) <= i
<1>1. Ending(o) \subseteq Nat
  <2>1. DOMAIN o = 1 .. Len(o) /\ Len(o) \in Nat
    OBVIOUS
  <2>2. Ending(o) \subseteq DOMAIN o
    BY DEF Ending
  <2>3. QED  BY <2>1, <2>2
<1>2. \E x \in Ending(o) : \A y \in Ending(o) : x <= y
  BY <1>1, LeastMember
<1>3. QED  BY <1>2 DEF Min

\* An option before the first that ends the line is taken.
LEMMA TakenBefore ==
  ASSUME NEW o \in Seq(STRING), NEW i \in DOMAIN o, Ending(o) = {} \/ i < Min(Ending(o))
  PROVE  o[i] \in Taken(o)
<1>1. CASE Ending(o) = {}
  BY <1>1 DEF Taken, ToSet
<1>2. CASE Ending(o) # {}
  <2> DEFINE e == Min(Ending(o))  part == SubSeq(o, 1, e - 1)
  <2>1. e \in 1 .. Len(o)
    <3>1. DOMAIN o = 1 .. Len(o)
      OBVIOUS
    <3>3. Ending(o) \subseteq 1 .. Len(o)
      BY <3>1 DEF Ending
    <3>2. QED  BY <1>2, <3>3, FirstEnding
  <2>2. i \in 1 .. e - 1
    BY <1>2, <2>1
  <2> HIDE DEF e
  <2>3. i \in DOMAIN part /\ part[i] = o[i]
    BY <2>1, <2>2
  <2>4. part[i] \in ToSet(part)
    BY <2>3 DEF ToSet
  <2>5. Taken(o) = ToSet(part)
    BY <1>2 DEF Taken, e
  <2>6. QED  BY <2>3, <2>4, <2>5
<1>3. QED  BY <1>1, <1>2

\* Who serves was neither told to test nor to signal.
LEMMA ServesMay ==
  ASSUME NEW o \in Seq(STRING), Becomes(o) = "serves"
  PROVE  MayServe(o)
<1>1. Taken(o) \cap ({"t", "T"} \cup Signals) = {}
  <2>1. ~TestsConfig(o) /\ ~ShowsAndExits(o) /\ ~SendsSignal(o)
    BY DEF Becomes
  <2>2. QED  BY <2>1 DEF TestsConfig, SendsSignal
<1>2. ASSUME NEW i \in DOMAIN o, o[i] \in {"t", "T"} \cup Signals
      PROVE  \E j \in 1 .. i - 1 : o[j] \in {"?", "s x", "s", "c"}
  <2>1. Ending(o) # {} /\ ~(i < Min(Ending(o)))
    BY <1>1, <1>2, TakenBefore
  <2>2. PICK e \in Ending(o) : e = Min(Ending(o))
    BY <2>1, FirstEnding
  <2>3. e \in DOMAIN o /\ o[e] \in {"?", "s x", "s", "c"}
    BY <2>2 DEF Ending
  <2>8. DOMAIN o = 1 .. Len(o) /\ Len(o) \in Nat
    OBVIOUS
  <2>4. e # i
    BY <1>2, <2>3 DEF Signals
  <2>5. i \in 1 .. Len(o) /\ ~(i < e)
    BY <2>1, <2>2, <2>8
  <2>6. e \in 1 .. i - 1
    <3>1. e \in 1 .. Len(o)
      BY <2>3, <2>8
    <3>2. e \in Nat /\ i \in Nat /\ 1 <= e /\ e <= i /\ e # i
      BY <3>1, <2>4, <2>5, <2>8
    <3>3. QED  BY <3>2
  <2>7. QED  BY <2>3, <2>6
<1>3. QED  BY <1>2 DEF MayServe

-----------------------------------------------------------------------------
(* The pid file.                                                           *)

Phases == {"off", "gone", "signals", "serves", "claims", "runs", "kills"}

StartTypes ==
  /\ phase \in [Launch -> Phases] /\ opts \in [Launch -> Seq(STRING)]
  /\ text \in Seq(Seq(Nat))
  /\ names \in [pid : 0 .. Len(text), oldpid : 0 .. Len(text)]
  /\ fd \in [Launch -> 0 .. Len(text)]
  /\ number \in [Launch -> Seq(Nat)]
  /\ newBinary \in [Launch -> {0, 1}]
  /\ since \in [Launch -> SUBSET (Launch \cup {0})]
  /\ overlap \in BOOLEAN

\* Who has claimed the file has a file open, knows of all that may still write
\* into it, and, with nothing since, has the file that is named.
ClaimInv ==
  /\ \A m \in Launch : HasClaimed(m) => fd[m] # 0
  /\ \A m, l \in Launch : m # l /\ HasClaimed(m) /\ phase[l] = "claims" => l \in since[m]
  /\ \A m \in Launch : HasClaimed(m) /\ since[m] = {} =>
       /\ names.pid = fd[m]
       /\ text[fd[m]] = IF phase[m] = "claims" THEN <<>> ELSE Pid[m]
  /\ \A m, l \in Launch : l \in since[m] => phase[l] \in {"claims", "runs", "gone"}

\* Who has claimed it may serve.
MayInv ==
  \A l \in Launch : phase[l] \in {"serves", "claims", "runs"} \/ (\E m \in Launch : l \in since[m])
                      => Becomes(opts[l]) = "serves"

\* As long as no two claimed it at once, every file is empty or has the number
\* of one that served.
Of(t, S) == t = <<>> \/ \E m \in S : t = Pid[m]
Opened == {m \in Launch : fd[m] # 0}
TextInv ==
  ~overlap =>
    /\ \A i \in 1 .. Len(text) : Of(text[i], Opened)
    /\ \A l \in Launch : Of(number[l], Opened)
    /\ \A l, m \in Launch : phase[l] = "claims" /\ phase[m] = "claims" => l = m
    /\ \A l \in Launch : phase[l] = "claims" => text[fd[l]] = <<>>

StartInv == StartTypes /\ ClaimInv /\ MayInv /\ TextInv

\* Nothing runs at the start.
LEMMA StartInvInit == StartInit => StartInv
<1> SUFFICES ASSUME StartInit PROVE StartInv
  OBVIOUS
<1>1. Len(<<>>) = 0 /\ <<>> \in Seq(Seq(Nat)) /\ <<>> \in Seq(Nat) /\ <<>> \in Seq(STRING)
  OBVIOUS
<1>2. StartTypes
  <2>1. text \in Seq(Seq(Nat)) /\ Len(text) = 0
    BY <1>1 DEF StartInit
  <2>2. names \in [pid : 0 .. Len(text), oldpid : 0 .. Len(text)]
    <3>1. names = [pid |-> 0, oldpid |-> 0]
      BY DEF StartInit
    <3>2. QED  BY <3>1, <2>1
  <2>3. fd \in [Launch -> 0 .. Len(text)]
    BY <2>1 DEF StartInit
  <2>4. /\ opts \in [Launch -> Seq(STRING)] /\ number \in [Launch -> Seq(Nat)]
        /\ newBinary \in [Launch -> {0, 1}] /\ since \in [Launch -> SUBSET (Launch \cup {0})]
        /\ overlap \in BOOLEAN
    BY <1>1 DEF StartInit, NoLine
  <2>5. phase \in [Launch -> Phases]
    BY DEF StartInit, Phases
  <2>6. QED  BY <2>1, <2>2, <2>3, <2>4, <2>5 DEF StartTypes
<1>3. ClaimInv
  BY DEF StartInit, ClaimInv, HasClaimed
<1>4. MayInv
  BY DEF StartInit, MayInv
<1>5. TextInv
  <2>1. \A l \in Launch : number[l] = <<>> /\ phase[l] = "off"
    BY DEF StartInit
  <2>2. 1 .. Len(text) = {}
    BY <1>1 DEF StartInit
  <2>3. QED  BY <2>1, <2>2 DEF TextInv, Of
<1>6. QED  BY <1>2, <1>3, <1>4, <1>5 DEF StartInv

\* Opening the pid file makes a file when there is none.
LEMMA PidFileOpens ==
  ASSUME StartTypes, OpensPidFile, NotTruncated \/ Truncated
  PROVE  /\ text' \in Seq(Seq(Nat)) /\ Len(text) <= Len(text')
         /\ PidFile \in 1 .. Len(text')
         /\ names' \in [pid : 0 .. Len(text'), oldpid : 0 .. Len(text')]
         /\ names'.pid = PidFile
         /\ names.pid # 0 => PidFile = names.pid
         /\ \A i \in 1 .. Len(text) : i # PidFile => text'[i] = text[i]
         /\ Truncated => text'[PidFile] = <<>>
         /\ NotTruncated => \/ text'[PidFile] = <<>> /\ PidFile \notin 1 .. Len(text)
                            \/ names.pid # 0 /\ text' = text
         /\ \A i \in 1 .. Len(text') : i \in 1 .. Len(text) \/ (i = PidFile /\ text'[i] = <<>>)
<1>1. /\ text \in Seq(Seq(Nat)) /\ Len(text) \in Nat /\ names.pid \in 0 .. Len(text)
      /\ names \in [pid : 0 .. Len(text), oldpid : 0 .. Len(text)]
  BY DEF StartTypes
<1>2. names' = [names EXCEPT !.pid = PidFile]
  BY DEF OpensPidFile
<1>3. CASE names.pid = 0
  <2>1. PidFile = Len(text) + 1 /\ text' = Append(text, <<>>)
    BY <1>3 DEF PidFile, NotTruncated, Truncated
  <2>2. /\ text' \in Seq(Seq(Nat)) /\ Len(text') = Len(text) + 1
        /\ text'[Len(text) + 1] = <<>> /\ \A i \in 1 .. Len(text) : text'[i] = text[i]
    <3>1. <<>> \in Seq(Nat)
      OBVIOUS
    <3>2. QED  BY <2>1, <1>1, <3>1
  <2>3. names' \in [pid : 0 .. Len(text'), oldpid : 0 .. Len(text')] /\ names'.pid = PidFile
    <3>1. names.oldpid \in 0 .. Len(text') /\ PidFile \in 0 .. Len(text')
      BY <1>1, <2>1, <2>2
    <3>2. QED  BY <1>1, <1>2, <3>1
  <2>4. QED  BY <1>1, <1>3, <2>1, <2>2, <2>3
<1>4. CASE names.pid # 0
  <2>1. PidFile = names.pid /\ (text' = text \/ text' = [text EXCEPT ![names.pid] = <<>>])
        /\ (NotTruncated => text' = text) /\ (Truncated => text' = [text EXCEPT ![names.pid] = <<>>])
    BY <1>4 DEF PidFile, NotTruncated, Truncated
  <2>2. names.pid \in 1 .. Len(text)
    BY <1>1, <1>4
  <2>3. [text EXCEPT ![names.pid] = <<>>] \in Seq(Seq(Nat)) /\ Len([text EXCEPT ![names.pid] = <<>>]) = Len(text)
        /\ [text EXCEPT ![names.pid] = <<>>][names.pid] = <<>>
        /\ \A i \in 1 .. Len(text) : i # names.pid => [text EXCEPT ![names.pid] = <<>>][i] = text[i]
    <3>1. <<>> \in Seq(Nat)
      OBVIOUS
    <3>2. QED  BY <1>1, <2>2, <3>1
  <2>4. text' \in Seq(Seq(Nat)) /\ Len(text') = Len(text)
    BY <1>1, <2>1, <2>3
  <2>5. names' \in [pid : 0 .. Len(text'), oldpid : 0 .. Len(text')] /\ names'.pid = PidFile
    BY <1>1, <1>2, <2>1, <2>2, <2>4
  <2>6. Len(text) <= Len(text') /\ PidFile \in 1 .. Len(text')
    BY <1>1, <2>1, <2>2, <2>4
  <2>7. \A i \in 1 .. Len(text) : i # PidFile => text'[i] = text[i]
    BY <2>1, <2>3
  <2>8. Truncated => text'[PidFile] = <<>>
    BY <2>1, <2>3
  <2>9. QED  BY <1>4, <2>1, <2>4, <2>5, <2>6, <2>7, <2>8
<1>5. QED  BY <1>3, <1>4

\* What a launch makes of its options, and of the file there is.
LEMMA MainStep ==
  ASSUME StartInv, NEW l \in Launch, Main(l)
  PROVE  StartInv'
<1>1. /\ phase[l] = "off" /\ UNCHANGED <<names, text, fd, number, newBinary, since, overlap>>
  BY DEF Main
<1>2. PICK q \in {"gone", "signals", "serves"} : phase' = [phase EXCEPT ![l] = q]
  BY DEF Main, To, Becomes
<1>3. /\ phase' \in [Launch -> Phases] /\ phase'[l] = q
      /\ \A m \in Launch : m # l => phase'[m] = phase[m]
  BY <1>2 DEF StartInv, StartTypes, Phases
<1>4. /\ opts' \in [Launch -> Seq(STRING)] /\ \A m \in Launch : m # l => opts'[m] = opts[m]
      /\ q = "serves" => Becomes(opts'[l]) = "serves"
  <2>1. CASE To(l, "gone") /\ UNCHANGED opts
    <3>1. q = "gone"
      BY <2>1, <1>2, <1>3 DEF To, StartInv, StartTypes
    <3>2. QED  BY <2>1, <3>1 DEF StartInv, StartTypes
  <2>2. ASSUME NEW o \in Options, To(l, Becomes(o)),
               opts' = [opts EXCEPT ![l] = IF Becomes(o) = "gone" THEN NoLine ELSE o]
        PROVE  /\ opts' \in [Launch -> Seq(STRING)] /\ \A m \in Launch : m # l => opts'[m] = opts[m]
               /\ q = "serves" => Becomes(opts'[l]) = "serves"
    <3>1. q = Becomes(o)
      BY <2>2, <1>2, <1>3 DEF To, StartInv, StartTypes
    <3>2. o \in Seq(STRING) /\ NoLine \in Seq(STRING)
      BY StartupAssumption DEF NoLine
    <3>3. opts \in [Launch -> Seq(STRING)]
      BY DEF StartInv, StartTypes
    <3>4. q = "serves" => opts'[l] = o
      BY <2>2, <3>1, <3>3
    <3>5. QED  BY <2>2, <3>1, <3>2, <3>3, <3>4
  <2>3. QED  BY <2>1, <2>2 DEF Main
<1>5. \A m \in Launch : HasClaimed(m)' <=> HasClaimed(m)
  BY <1>1, <1>3 DEF HasClaimed
<1>6. \A m \in Launch : l \notin since[m]
  BY <1>1 DEF StartInv, ClaimInv
<1>7. StartTypes'
  BY <1>1, <1>3, <1>4 DEF StartInv, StartTypes
<1>8. ClaimInv'
  BY <1>1, <1>3, <1>5, <1>6 DEF StartInv, ClaimInv, HasClaimed
<1>9. MayInv'
  BY <1>1, <1>3, <1>4, <1>6 DEF StartInv, MayInv
<1>10. TextInv'
  <2>1. Opened' = Opened
    BY <1>1 DEF Opened
  <2>2. \A m \in Launch : phase'[m] = "claims" <=> phase[m] = "claims"
    BY <1>1, <1>3
  <2>3. QED  BY <1>1, <2>1, <2>2 DEF StartInv, TextInv
<1>11. QED  BY <1>7, <1>8, <1>9, <1>10 DEF StartInv

\* Opening and locking the file.
LEMMA CreatePidStep ==
  ASSUME StartInv, NEW l \in Launch, CreatePid(l)
  PROVE  StartInv'
<1>1. /\ phase[l] = "serves" /\ phase' = [phase EXCEPT ![l] = "claims"]
      /\ OpensPidFile /\ Truncated /\ fd' = [fd EXCEPT ![l] = PidFile]
      /\ since' = [m \in Launch |-> CASE m = l -> Claiming
                                      [] m # l /\ HasClaimed(m) -> since[m] \union {l}
                                      [] OTHER -> {}]
      /\ overlap' = (overlap \/ Claiming # {})
      /\ UNCHANGED <<opts, number, newBinary>>
  BY DEF CreatePid, To
<1>2. /\ phase' \in [Launch -> Phases] /\ phase'[l] = "claims"
      /\ \A m \in Launch : m # l => phase'[m] = phase[m]
  BY <1>1 DEF StartInv, StartTypes, Phases
<1>3. /\ text' \in Seq(Seq(Nat)) /\ Len(text) <= Len(text')
      /\ PidFile \in 1 .. Len(text')
      /\ names' \in [pid : 0 .. Len(text'), oldpid : 0 .. Len(text')]
      /\ names'.pid = PidFile
      /\ \A i \in 1 .. Len(text) : i # PidFile => text'[i] = text[i]
      /\ text'[PidFile] = <<>>
      /\ \A i \in 1 .. Len(text') : i \in 1 .. Len(text) \/ (i = PidFile /\ text'[i] = <<>>)
  BY <1>1, PidFileOpens DEF StartInv
<1>4. /\ since'[l] = Claiming
      /\ \A m \in Launch : m # l /\ HasClaimed(m) => since'[m] = since[m] \cup {l}
      /\ \A m \in Launch : m # l /\ ~HasClaimed(m) => since'[m] = {}
  BY <1>1
<1>5. Claiming \subseteq Launch /\ l \notin Claiming /\ \A m \in Launch : m \in Claiming <=> phase[m] = "claims"
  BY <1>1 DEF Claiming
<1>6. fd' \in [Launch -> 0 .. Len(text')] /\ fd'[l] = PidFile /\ \A m \in Launch : m # l => fd'[m] = fd[m]
  <2>1. fd \in [Launch -> 0 .. Len(text)] /\ Len(text) \in Nat /\ Len(text') \in Nat
    BY <1>3 DEF StartInv, StartTypes
  <2>2. \A m \in Launch : fd[m] \in 0 .. Len(text')
    BY <2>1, <1>3
  <2>3. QED  BY <2>1, <2>2, <1>1, <1>3
<1>7. since' \in [Launch -> SUBSET (Launch \cup {0})]
  <2>1. \A m \in Launch : since[m] \subseteq Launch \cup {0}
    BY DEF StartInv, StartTypes
  <2>3. \A m \in Launch : since'[m] \subseteq Launch \cup {0}
    BY <2>1, <1>4, <1>5
  <2>2. QED  BY <2>3, <1>1
<1>8. StartTypes'
  BY <1>1, <1>2, <1>3, <1>6, <1>7 DEF StartInv, StartTypes
<1>9. \A m \in Launch : m # l => (HasClaimed(m)' <=> HasClaimed(m))
  BY <1>2 DEF HasClaimed
<1>10. ClaimInv'
  <2>1. ASSUME NEW m \in Launch, HasClaimed(m)'  PROVE fd'[m] # 0
    <3>1. fd'[l] # 0
      BY <1>3, <1>6
    <3>2. m # l => HasClaimed(m) /\ fd'[m] = fd[m]
      BY <2>1, <1>6, <1>9
    <3>3. QED  BY <3>1, <3>2 DEF StartInv, ClaimInv
  <2>2. ASSUME NEW m \in Launch, NEW k \in Launch, m # k, HasClaimed(m)', phase'[k] = "claims"
        PROVE  k \in since'[m]
    <3>1. CASE m = l
      BY <2>2, <3>1, <1>2, <1>4, <1>5
    <3>2. CASE m # l /\ k = l
      BY <2>2, <3>2, <1>4, <1>9
    <3>3. CASE m # l /\ k # l
      BY <2>2, <3>3, <1>2, <1>4, <1>9 DEF StartInv, ClaimInv
    <3>4. QED  BY <3>1, <3>2, <3>3
  <2>3. ASSUME NEW m \in Launch, HasClaimed(m)', since'[m] = {}
        PROVE  names'.pid = fd'[m] /\ text'[fd'[m]] = IF phase'[m] = "claims" THEN <<>> ELSE Pid[m]
    <3>1. m = l
      BY <2>3, <1>4, <1>9
    <3>2. QED  BY <3>1, <1>2, <1>3, <1>6
  <2>4. ASSUME NEW m \in Launch, NEW k \in Launch, k \in since'[m]
        PROVE  phase'[k] \in {"claims", "runs", "gone"}
    <3>1. k = l \/ phase[k] \in {"claims", "runs", "gone"}
      BY <2>4, <1>4, <1>5 DEF StartInv, ClaimInv
    <3>2. QED  BY <3>1, <1>2
  <2>5. QED  BY <2>1, <2>2, <2>3, <2>4 DEF ClaimInv
<1>11. MayInv'
  <2>1. Becomes(opts[l]) = "serves"
    BY <1>1 DEF StartInv, MayInv
  <2>2. ASSUME NEW k \in Launch, NEW m \in Launch, k \in since'[m], k # l  PROVE Becomes(opts[k]) = "serves"
    BY <2>2, <1>4, <1>5 DEF StartInv, MayInv
  <2>3. QED  BY <2>1, <2>2, <1>1, <1>2 DEF StartInv, MayInv
<1>12. Opened \subseteq Opened'
  BY <1>3, <1>6 DEF Opened
<1>13. ASSUME ~overlap'  PROVE TextInv'
  <2>1. ~overlap /\ Claiming = {}
    BY <1>13, <1>1 DEF StartInv, StartTypes
  <2>2. ASSUME NEW i \in 1 .. Len(text')  PROVE Of(text'[i], Opened')
    <3>1. CASE text'[i] = <<>>
      BY <3>1 DEF Of
    <3>2. CASE text'[i] # <<>>
      <4>1. i \in 1 .. Len(text) /\ i # PidFile
        BY <1>3, <3>2
      <4>2. text'[i] = text[i] /\ Of(text[i], Opened)
        BY <2>1, <4>1, <1>3 DEF StartInv, TextInv
      <4>3. QED  BY <4>2, <1>12 DEF Of
    <3>3. QED  BY <3>1, <3>2
  <2>3. ASSUME NEW k \in Launch  PROVE Of(number'[k], Opened')
    <3>1. number'[k] = number[k] /\ Of(number[k], Opened)
      BY <2>1, <1>1 DEF StartInv, TextInv
    <3>2. QED  BY <3>1, <1>12 DEF Of
  <2>4. \A k \in Launch : phase'[k] = "claims" => k = l
    BY <2>1, <1>2, <1>5
  <2>5. text'[fd'[l]] = <<>>
    BY <1>3, <1>6
  <2>6. QED  BY <2>2, <2>3, <2>4, <2>5 DEF TextInv
<1>14. QED  BY <1>8, <1>10, <1>11, <1>13 DEF StartInv, TextInv

\* Writing the pid over what the file had.
LEMMA WritePidStep ==
  ASSUME StartInv, NEW l \in Launch, WritePid(l)
  PROVE  StartInv'
<1>1. /\ phase[l] = "claims" /\ phase' = [phase EXCEPT ![l] = "runs"]
      /\ text' = [text EXCEPT ![fd[l]] = WrittenOver(@, Pid[l])]
      /\ UNCHANGED <<opts, names, fd, number, newBinary, since, overlap>>
  BY DEF WritePid, To
<1>2. /\ phase' \in [Launch -> Phases] /\ phase'[l] = "runs"
      /\ \A m \in Launch : m # l => phase'[m] = phase[m]
  BY <1>1 DEF StartInv, StartTypes, Phases
<1>3. \A m \in Launch : HasClaimed(m)' <=> HasClaimed(m)
  BY <1>1, <1>2 DEF HasClaimed
<1>4. HasClaimed(l) /\ fd[l] \in 1 .. Len(text) /\ text \in Seq(Seq(Nat)) /\ Len(text) \in Nat
  <2>1. HasClaimed(l)
    BY <1>1 DEF HasClaimed
  <2>2. fd[l] # 0 /\ fd[l] \in 0 .. Len(text) /\ text \in Seq(Seq(Nat)) /\ Len(text) \in Nat
    BY <2>1 DEF StartInv, StartTypes, ClaimInv
  <2>3. QED  BY <2>1, <2>2
<1>5. Pid[l] \in Seq(Nat)
  BY StartupAssumption
<1>6. /\ WrittenOver(text[fd[l]], Pid[l]) \in Seq(Nat)
      /\ text[fd[l]] = <<>> => WrittenOver(text[fd[l]], Pid[l]) = Pid[l]
  <2>1. ASSUME NEW t \in Seq(Nat)
        PROVE  WrittenOver(t, Pid[l]) \in Seq(Nat) /\ (t = <<>> => WrittenOver(t, Pid[l]) = Pid[l])
    <3>1. Len(Pid[l]) \in Nat /\ Len(t) \in Nat
      BY <1>5
    <3>2. SubSeq(t, Len(Pid[l]) + 1, Len(t)) \in Seq(Nat)
      BY <3>1
    <3>3. t = <<>> => SubSeq(t, Len(Pid[l]) + 1, Len(t)) = <<>>
      <4>1. t = <<>> => Len(t) = 0
        OBVIOUS
      <4>2. QED  BY <3>1, <4>1
    <3>4. Pid[l] \o <<>> = Pid[l]
      BY <1>5
    <3>5. Pid[l] \o SubSeq(t, Len(Pid[l]) + 1, Len(t)) \in Seq(Nat)
      BY <1>5, <3>2
    <3>6. QED  BY <3>3, <3>4, <3>5 DEF WrittenOver
  <2>2. text[fd[l]] \in Seq(Nat)
    BY <1>4
  <2>3. QED  BY <2>1, <2>2
<1>7. /\ text' \in Seq(Seq(Nat)) /\ Len(text') = Len(text)
      /\ text'[fd[l]] = WrittenOver(text[fd[l]], Pid[l])
      /\ \A i \in 1 .. Len(text) : i # fd[l] => text'[i] = text[i]
  <2>1. ASSUME NEW w \in Seq(Nat), text' = [text EXCEPT ![fd[l]] = w]
        PROVE  /\ text' \in Seq(Seq(Nat)) /\ Len(text') = Len(text) /\ text'[fd[l]] = w
               /\ \A i \in 1 .. Len(text) : i # fd[l] => text'[i] = text[i]
    BY <1>4, <2>1
  <2>2. QED  BY <1>1, <1>6, <2>1
<1>8. StartTypes'
  BY <1>1, <1>2, <1>7 DEF StartInv, StartTypes
<1>9. ClaimInv'
  <2>1. \A m \in Launch : HasClaimed(m)' => fd'[m] # 0
    BY <1>1, <1>3 DEF StartInv, ClaimInv
  <2>2. \A m, k \in Launch : m # k /\ HasClaimed(m)' /\ phase'[k] = "claims" => k \in since'[m]
    BY <1>1, <1>2, <1>3 DEF StartInv, ClaimInv
  <2>3. ASSUME NEW m \in Launch, HasClaimed(m)', since'[m] = {}
        PROVE  names'.pid = fd'[m] /\ text'[fd'[m]] = IF phase'[m] = "claims" THEN <<>> ELSE Pid[m]
    <3>1. HasClaimed(m) /\ since[m] = {}
      BY <2>3, <1>1, <1>3
    <3>2. m = l
      BY <3>1, <1>1 DEF StartInv, ClaimInv
    <3>3. names.pid = fd[l] /\ text[fd[l]] = <<>>
      BY <3>1, <3>2, <1>1 DEF StartInv, ClaimInv
    <3>4. QED  BY <3>2, <3>3, <1>1, <1>2, <1>6, <1>7
  <2>4. \A m, k \in Launch : k \in since'[m] => phase'[k] \in {"claims", "runs", "gone"}
    BY <1>1, <1>2 DEF StartInv, ClaimInv
  <2>5. QED  BY <2>1, <2>2, <2>3, <2>4 DEF ClaimInv
<1>10. MayInv'
  BY <1>1, <1>2 DEF StartInv, MayInv
<1>11. Opened' = Opened /\ l \in Opened
  BY <1>1, <1>4 DEF Opened
<1>12. ASSUME ~overlap'  PROVE TextInv'
  <2>1. ~overlap
    BY <1>12, <1>1
  <2>2. text'[fd[l]] = Pid[l]
    BY <2>1, <1>1, <1>6, <1>7 DEF StartInv, TextInv
  <2>3. ASSUME NEW i \in 1 .. Len(text')  PROVE Of(text'[i], Opened')
    <3>1. i \in 1 .. Len(text)
      BY <1>7
    <3>2. CASE i = fd[l]
      BY <3>2, <2>2, <1>11 DEF Of
    <3>3. CASE i # fd[l]
      BY <3>1, <3>3, <1>7, <1>11, <2>1 DEF StartInv, TextInv
    <3>4. QED  BY <3>2, <3>3
  <2>4. \A k \in Launch : Of(number'[k], Opened')
    BY <1>1, <1>11, <2>1 DEF StartInv, TextInv
  <2>5. \A k \in Launch : phase'[k] # "claims"
    BY <1>1, <1>2, <2>1 DEF StartInv, TextInv
  <2>6. QED  BY <2>3, <2>4, <2>5 DEF TextInv
<1>13. QED  BY <1>8, <1>9, <1>10, <1>12 DEF StartInv, TextInv

\* Reading whom to send a signal.
LEMMA ReadPidStep ==
  ASSUME StartInv, NEW l \in Launch, ReadPid(l)
  PROVE  StartInv'
<1>1. /\ phase[l] = "signals" /\ phase' = [phase EXCEPT ![l] = "kills"]
      /\ OpensPidFile /\ NotTruncated
      /\ number' = [number EXCEPT ![l] = text'[PidFile]]
      /\ UNCHANGED <<opts, fd, newBinary, since, overlap>>
  BY DEF ReadPid, To
<1>2. /\ phase' \in [Launch -> Phases] /\ phase'[l] = "kills"
      /\ \A m \in Launch : m # l => phase'[m] = phase[m]
  BY <1>1 DEF StartInv, StartTypes, Phases
<1>3. /\ text' \in Seq(Seq(Nat)) /\ Len(text) <= Len(text')
      /\ PidFile \in 1 .. Len(text')
      /\ names' \in [pid : 0 .. Len(text'), oldpid : 0 .. Len(text')]
      /\ names'.pid = PidFile
      /\ names.pid # 0 => PidFile = names.pid
      /\ \/ text'[PidFile] = <<>> /\ PidFile \notin 1 .. Len(text)
         \/ names.pid # 0 /\ text' = text
      /\ \A i \in 1 .. Len(text) : i # PidFile => text'[i] = text[i]
      /\ \A i \in 1 .. Len(text') : i \in 1 .. Len(text) \/ (i = PidFile /\ text'[i] = <<>>)
  BY <1>1, PidFileOpens DEF StartInv
<1>4. \A i \in 1 .. Len(text) : text'[i] = text[i]
  BY <1>3
<1>5. number' \in [Launch -> Seq(Nat)] /\ number'[l] = text'[PidFile]
      /\ \A m \in Launch : m # l => number'[m] = number[m]
  <2>1. text'[PidFile] \in Seq(Nat)
    BY <1>3
  <2>2. QED  BY <1>1, <2>1 DEF StartInv, StartTypes
<1>6. \A m \in Launch : HasClaimed(m)' <=> HasClaimed(m)
  BY <1>1, <1>2 DEF HasClaimed
<1>7. fd' \in [Launch -> 0 .. Len(text')]
  <2>1. fd \in [Launch -> 0 .. Len(text)] /\ Len(text) \in Nat /\ Len(text') \in Nat
    BY <1>3 DEF StartInv, StartTypes
  <2>2. \A m \in Launch : fd[m] \in 0 .. Len(text')
    BY <2>1, <1>3
  <2>3. QED  BY <2>1, <2>2, <1>1
<1>8. StartTypes'
  BY <1>1, <1>2, <1>3, <1>5, <1>7 DEF StartInv, StartTypes
<1>9. ClaimInv'
  <2>1. \A m \in Launch : HasClaimed(m)' => fd'[m] # 0
    BY <1>1, <1>6 DEF StartInv, ClaimInv
  <2>2. \A m, k \in Launch : m # k /\ HasClaimed(m)' /\ phase'[k] = "claims" => k \in since'[m]
    BY <1>1, <1>2, <1>6 DEF StartInv, ClaimInv
  <2>3. ASSUME NEW m \in Launch, HasClaimed(m)', since'[m] = {}
        PROVE  names'.pid = fd'[m] /\ text'[fd'[m]] = IF phase'[m] = "claims" THEN <<>> ELSE Pid[m]
    <3>1. HasClaimed(m) /\ since[m] = {} /\ m # l /\ fd'[m] = fd[m] /\ phase'[m] = phase[m]
      BY <2>3, <1>1, <1>2, <1>6 DEF HasClaimed
    <3>2. /\ names.pid = fd[m] /\ fd[m] # 0 /\ fd[m] \in 0 .. Len(text) /\ Len(text) \in Nat
          /\ text[fd[m]] = IF phase[m] = "claims" THEN <<>> ELSE Pid[m]
      BY <3>1 DEF StartInv, StartTypes, ClaimInv
    <3>3. fd[m] \in 1 .. Len(text) /\ names'.pid = fd[m]
      <4>1. fd[m] \in 1 .. Len(text)
        BY <3>2
      <4>2. QED  BY <3>2, <4>1, <1>3
    <3>4. QED  BY <3>1, <3>2, <3>3, <1>4
  <2>4. \A m, k \in Launch : k \in since'[m] => phase'[k] \in {"claims", "runs", "gone"}
    BY <1>1, <1>2 DEF StartInv, ClaimInv
  <2>5. QED  BY <2>1, <2>2, <2>3, <2>4 DEF ClaimInv
<1>10. MayInv'
  BY <1>1, <1>2 DEF StartInv, MayInv
<1>11. Opened' = Opened
  BY <1>1 DEF Opened
<1>12. ASSUME ~overlap'  PROVE TextInv'
  <2>1. ~overlap
    BY <1>12, <1>1
  <2>2. ASSUME NEW i \in 1 .. Len(text')  PROVE Of(text'[i], Opened)
    <3>1. CASE i \in 1 .. Len(text)
      BY <3>1, <1>4, <2>1 DEF StartInv, TextInv
    <3>2. CASE i \notin 1 .. Len(text)
      BY <3>2, <1>3 DEF Of
    <3>3. QED  BY <3>1, <3>2
  <2>3. \A k \in Launch : Of(number'[k], Opened)
    <3>1. Of(text'[PidFile], Opened)
      BY <2>2, <1>3
    <3>2. QED  BY <3>1, <1>5, <2>1 DEF StartInv, TextInv
  <2>4. ASSUME NEW k \in Launch, phase'[k] = "claims"  PROVE text'[fd'[k]] = <<>>
    <3>1. phase[k] = "claims" /\ HasClaimed(k) /\ fd'[k] = fd[k]
      BY <2>4, <1>1, <1>2 DEF HasClaimed
    <3>2. fd[k] # 0 /\ fd[k] \in 0 .. Len(text) /\ Len(text) \in Nat /\ text[fd[k]] = <<>>
      BY <3>1, <2>1 DEF StartInv, StartTypes, ClaimInv, TextInv
    <3>3. fd[k] \in 1 .. Len(text)
      BY <3>2
    <3>4. QED  BY <3>1, <3>2, <3>3, <1>4
  <2>5. \A k, m \in Launch : phase'[k] = "claims" /\ phase'[m] = "claims" => k = m
    BY <1>1, <1>2, <2>1 DEF StartInv, TextInv
  <2>6. QED  BY <2>2, <2>3, <2>4, <2>5, <1>11 DEF TextInv
<1>13. QED  BY <1>8, <1>9, <1>10, <1>12 DEF StartInv, TextInv

\* Sending it.
LEMMA KillStep ==
  ASSUME StartInv, NEW l \in Launch, Kill(l)
  PROVE  StartInv'
<1>1. /\ phase[l] = "kills" /\ phase' = [phase EXCEPT ![l] = "gone"]
      /\ opts' = [opts EXCEPT ![l] = NoLine] /\ number' = [number EXCEPT ![l] = <<>>]
      /\ UNCHANGED <<names, text, fd, newBinary, since, overlap>>
  BY DEF Kill, To
<1>2. /\ phase' \in [Launch -> Phases] /\ phase'[l] = "gone"
      /\ \A m \in Launch : m # l => phase'[m] = phase[m]
  BY <1>1 DEF StartInv, StartTypes, Phases
<1>3. /\ opts' \in [Launch -> Seq(STRING)] /\ \A m \in Launch : m # l => opts'[m] = opts[m]
  <2>1. NoLine \in Seq(STRING)
    BY DEF NoLine
  <2>2. QED  BY <1>1, <2>1 DEF StartInv, StartTypes
<1>4. /\ number' \in [Launch -> Seq(Nat)] /\ number'[l] = <<>>
      /\ \A m \in Launch : m # l => number'[m] = number[m]
  <2>1. <<>> \in Seq(Nat)
    OBVIOUS
  <2>2. QED  BY <1>1, <2>1 DEF StartInv, StartTypes
<1>5. \A m \in Launch : HasClaimed(m)' <=> HasClaimed(m)
  BY <1>1, <1>2 DEF HasClaimed
<1>6. \A m \in Launch : l \notin since[m]
  BY <1>1 DEF StartInv, ClaimInv
<1>7. \A m \in Launch : phase'[m] = "claims" <=> phase[m] = "claims"
  BY <1>1, <1>2
<1>8. StartTypes'
  BY <1>1, <1>2, <1>3, <1>4 DEF StartInv, StartTypes
<1>9. ClaimInv'
  BY <1>1, <1>2, <1>5, <1>6, <1>7 DEF StartInv, ClaimInv
<1>10. MayInv'
  BY <1>1, <1>2, <1>3, <1>6 DEF StartInv, MayInv
<1>11. TextInv'
  <2>1. Opened' = Opened
    BY <1>1 DEF Opened
  <2>2. ~overlap => \A m \in Launch : Of(number'[m], Opened)
    BY <1>4 DEF StartInv, TextInv, Of
  <2>3. QED  BY <1>1, <1>7, <2>1, <2>2 DEF StartInv, TextInv
<1>12. QED  BY <1>8, <1>9, <1>10, <1>11 DEF StartInv

\* A claim that a deletion or a new name voids is nobody's to rely on.
LEMMA VoidedClaims ==
  ASSUME StartInv, ClaimsVoid
  PROVE  /\ since' \in [Launch -> SUBSET (Launch \cup {0})]
         /\ \A m \in Launch : since'[m] = IF HasClaimed(m) THEN since[m] \cup {0} ELSE {}
         /\ \A m \in Launch : HasClaimed(m) => since'[m] # {}
         /\ \A m, k \in Launch : k \in since'[m] => k \in since[m]
<1>1. \A m \in Launch : since[m] \subseteq Launch \cup {0}
  BY DEF StartInv, StartTypes
<1>2. since' = [m \in Launch |-> IF HasClaimed(m) THEN since[m] \cup {0} ELSE {}]
  BY DEF ClaimsVoid
<1>3. \A m \in Launch : since'[m] = IF HasClaimed(m) THEN since[m] \cup {0} ELSE {}
  BY <1>2
<1>4. \A m, k \in Launch : k \in since'[m] => k \in since[m]
  BY <1>3, StartupAssumption
<1>5. since' \in [Launch -> SUBSET (Launch \cup {0})]
  <2>1. \A m \in Launch : since'[m] \subseteq Launch \cup {0}
    BY <1>1, <1>3
  <2>2. QED  BY <2>1, <1>2
<1>6. QED  BY <1>3, <1>4, <1>5

\* The end of a master.
LEMMA DeletePidStep ==
  ASSUME StartInv, NEW l \in Launch, DeletePid(l)
  PROVE  StartInv'
<1>1. /\ phase[l] = "runs" /\ phase' = [phase EXCEPT ![l] = "gone"]
      /\ UNCHANGED <<opts, text, fd, number, newBinary, overlap>>
  BY DEF DeletePid, To
<1>2. \/ names' = [names EXCEPT !.pid = 0] /\ ClaimsVoid
      \/ names' = [names EXCEPT !.oldpid = 0] /\ UNCHANGED since
  BY DEF DeletePid
<1>3. /\ phase' \in [Launch -> Phases] /\ phase'[l] = "gone"
      /\ \A m \in Launch : m # l => phase'[m] = phase[m]
  BY <1>1 DEF StartInv, StartTypes, Phases
<1>4. /\ since' \in [Launch -> SUBSET (Launch \cup {0})]
      /\ \A m, k \in Launch : k \in since'[m] => k \in since[m]
      /\ \A m, k \in Launch : HasClaimed(m) /\ k \in since[m] => k \in since'[m]
      /\ \A m \in Launch : HasClaimed(m) /\ since'[m] = {} => since[m] = {} /\ names'.pid = names.pid
  <2>1. CASE names' = [names EXCEPT !.pid = 0] /\ ClaimsVoid
    <3>1. \A m \in Launch : HasClaimed(m) => since'[m] = since[m] \cup {0}
      BY <2>1, VoidedClaims
    <3>2. QED  BY <2>1, <3>1, VoidedClaims
  <2>2. CASE names' = [names EXCEPT !.oldpid = 0] /\ UNCHANGED since
    BY <2>2 DEF StartInv, StartTypes
  <2>3. QED  BY <1>2, <2>1, <2>2
<1>5. names' \in [pid : 0 .. Len(text), oldpid : 0 .. Len(text)]
  <2>1. names \in [pid : 0 .. Len(text), oldpid : 0 .. Len(text)] /\ 0 \in 0 .. Len(text)
    <3>1. text \in Seq(Seq(Nat)) /\ names \in [pid : 0 .. Len(text), oldpid : 0 .. Len(text)]
      BY DEF StartInv, StartTypes
    <3>2. QED  BY <3>1
  <2>2. QED  BY <1>2, <2>1
<1>6. \A m \in Launch : HasClaimed(m)' => HasClaimed(m) /\ m # l /\ phase'[m] = phase[m]
  BY <1>3 DEF HasClaimed
<1>7. \A m \in Launch : phase'[m] = "claims" <=> phase[m] = "claims"
  BY <1>1, <1>3
<1>8. StartTypes'
  BY <1>1, <1>3, <1>4, <1>5 DEF StartInv, StartTypes
<1>9. ClaimInv'
  <2>1. \A m, k \in Launch : m # k /\ HasClaimed(m)' /\ phase'[k] = "claims" => k \in since'[m]
    BY <1>4, <1>6, <1>7 DEF StartInv, ClaimInv
  <2>2. ASSUME NEW m \in Launch, HasClaimed(m)', since'[m] = {}
        PROVE  names'.pid = fd'[m] /\ text'[fd'[m]] = IF phase'[m] = "claims" THEN <<>> ELSE Pid[m]
    <3>1. HasClaimed(m) /\ since[m] = {} /\ names'.pid = names.pid /\ phase'[m] = phase[m]
      BY <2>2, <1>4, <1>6
    <3>2. QED  BY <3>1, <1>1 DEF StartInv, ClaimInv
  <2>3. \A m, k \in Launch : k \in since'[m] => phase'[k] \in {"claims", "runs", "gone"}
    BY <1>3, <1>4 DEF StartInv, ClaimInv
  <2>4. \A m \in Launch : HasClaimed(m)' => fd'[m] # 0
    BY <1>1, <1>6 DEF StartInv, ClaimInv
  <2>5. QED  BY <2>1, <2>2, <2>3, <2>4 DEF ClaimInv
<1>10. MayInv'
  BY <1>1, <1>3, <1>4 DEF StartInv, MayInv
<1>11. TextInv'
  <2>1. Opened' = Opened
    BY <1>1 DEF Opened
  <2>2. QED  BY <1>1, <1>7, <2>1 DEF StartInv, TextInv
<1>12. QED  BY <1>8, <1>9, <1>10, <1>11 DEF StartInv

\* A master that is killed.
LEMMA CrashStep ==
  ASSUME StartInv, NEW l \in Launch, Crash(l)
  PROVE  StartInv'
<1>1. /\ phase[l] \in {"claims", "runs"} /\ phase' = [phase EXCEPT ![l] = "gone"]
      /\ since' = [since EXCEPT ![l] = {}]
      /\ UNCHANGED <<opts, names, text, fd, number, newBinary, overlap>>
  BY DEF Crash, To
<1>2. /\ phase' \in [Launch -> Phases] /\ phase'[l] = "gone"
      /\ \A m \in Launch : m # l => phase'[m] = phase[m]
  BY <1>1 DEF StartInv, StartTypes, Phases
<1>3. /\ since' \in [Launch -> SUBSET (Launch \cup {0})] /\ since'[l] = {}
      /\ \A m \in Launch : m # l => since'[m] = since[m]
  BY <1>1 DEF StartInv, StartTypes
<1>4. \A m \in Launch : HasClaimed(m)' => HasClaimed(m) /\ m # l /\ phase'[m] = phase[m]
  BY <1>2 DEF HasClaimed
<1>5. \A m \in Launch : phase'[m] = "claims" => phase[m] = "claims" /\ m # l
  BY <1>1, <1>2
<1>6. StartTypes'
  BY <1>1, <1>2, <1>3 DEF StartInv, StartTypes
<1>7. ClaimInv'
  <2>1. \A m, k \in Launch : m # k /\ HasClaimed(m)' /\ phase'[k] = "claims" => k \in since'[m]
    BY <1>3, <1>4, <1>5 DEF StartInv, ClaimInv
  <2>2. ASSUME NEW m \in Launch, HasClaimed(m)', since'[m] = {}
        PROVE  names'.pid = fd'[m] /\ text'[fd'[m]] = IF phase'[m] = "claims" THEN <<>> ELSE Pid[m]
    <3>1. HasClaimed(m) /\ since[m] = {} /\ phase'[m] = phase[m]
      BY <2>2, <1>3, <1>4
    <3>2. QED  BY <3>1, <1>1 DEF StartInv, ClaimInv
  <2>3. \A m, k \in Launch : k \in since'[m] => phase'[k] \in {"claims", "runs", "gone"}
    <3>1. ASSUME NEW m \in Launch, NEW k \in Launch, k \in since'[m]
          PROVE  phase'[k] \in {"claims", "runs", "gone"}
      <4>1. m # l /\ k \in since[m]
        BY <3>1, <1>3
      <4>2. phase[k] \in {"claims", "runs", "gone"}
        BY <4>1 DEF StartInv, ClaimInv
      <4>3. QED  BY <4>2, <1>2
    <3>2. QED  BY <3>1
  <2>4. \A m \in Launch : HasClaimed(m)' => fd'[m] # 0
    BY <1>1, <1>4 DEF StartInv, ClaimInv
  <2>5. QED  BY <2>1, <2>2, <2>3, <2>4 DEF ClaimInv
<1>8. MayInv'
  <2>1. ASSUME NEW k \in Launch, phase'[k] \in {"serves", "claims", "runs"} \/ \E m \in Launch : k \in since'[m]
        PROVE  Becomes(opts[k]) = "serves"
    <3>1. phase[k] \in {"serves", "claims", "runs"} \/ \E m \in Launch : k \in since[m]
      BY <2>1, <1>2, <1>3
    <3>2. QED  BY <3>1 DEF StartInv, MayInv
  <2>2. QED  BY <2>1, <1>1 DEF MayInv
<1>9. TextInv'
  <2>1. Opened' = Opened
    BY <1>1 DEF Opened
  <2>2. QED  BY <1>1, <1>5, <2>1 DEF StartInv, TextInv
<1>10. QED  BY <1>6, <1>7, <1>8, <1>9 DEF StartInv

\* A master that starts another.
LEMMA ExecNewBinaryStep ==
  ASSUME StartInv, NEW l \in Launch, ExecNewBinary(l)
  PROVE  StartInv'
<1>1. /\ phase[l] = "runs" /\ UNCHANGED <<phase, opts, text, fd, number, overlap>>
  BY DEF ExecNewBinary
<1>2. \/ names' = [pid |-> 0, oldpid |-> names.pid] /\ ClaimsVoid
      \/ UNCHANGED <<names, since>>
  BY DEF ExecNewBinary
<1>3. newBinary' \in [Launch -> {0, 1}]
  BY DEF ExecNewBinary, StartInv, StartTypes
<1>4. /\ since' \in [Launch -> SUBSET (Launch \cup {0})]
      /\ \A m, k \in Launch : k \in since'[m] => k \in since[m]
      /\ \A m, k \in Launch : HasClaimed(m) /\ k \in since[m] => k \in since'[m]
      /\ \A m \in Launch : HasClaimed(m) /\ since'[m] = {} => since[m] = {} /\ names' = names
  <2>1. CASE names' = [pid |-> 0, oldpid |-> names.pid] /\ ClaimsVoid
    <3>1. \A m \in Launch : HasClaimed(m) => since'[m] = since[m] \cup {0}
      BY <2>1, VoidedClaims
    <3>2. QED  BY <2>1, <3>1, VoidedClaims
  <2>2. CASE UNCHANGED <<names, since>>
    BY <2>2 DEF StartInv, StartTypes
  <2>3. QED  BY <1>2, <2>1, <2>2
<1>5. names' \in [pid : 0 .. Len(text), oldpid : 0 .. Len(text)]
  <2>1. names \in [pid : 0 .. Len(text), oldpid : 0 .. Len(text)] /\ 0 \in 0 .. Len(text)
    <3>1. text \in Seq(Seq(Nat)) /\ names \in [pid : 0 .. Len(text), oldpid : 0 .. Len(text)]
      BY DEF StartInv, StartTypes
    <3>2. QED  BY <3>1
  <2>2. QED  BY <1>2, <2>1
<1>6. \A m \in Launch : HasClaimed(m)' <=> HasClaimed(m)
  BY <1>1 DEF HasClaimed
<1>7. StartTypes'
  BY <1>1, <1>3, <1>4, <1>5 DEF StartInv, StartTypes
<1>8. ClaimInv'
  <2>1. \A m, k \in Launch : m # k /\ HasClaimed(m)' /\ phase'[k] = "claims" => k \in since'[m]
    BY <1>1, <1>4, <1>6 DEF StartInv, ClaimInv
  <2>2. \A m \in Launch : HasClaimed(m)' /\ since'[m] = {} =>
          names'.pid = fd'[m] /\ text'[fd'[m]] = IF phase'[m] = "claims" THEN <<>> ELSE Pid[m]
    BY <1>1, <1>4, <1>6 DEF StartInv, ClaimInv
  <2>3. \A m, k \in Launch : k \in since'[m] => phase'[k] \in {"claims", "runs", "gone"}
    BY <1>1, <1>4 DEF StartInv, ClaimInv
  <2>4. \A m \in Launch : HasClaimed(m)' => fd'[m] # 0
    BY <1>1, <1>6 DEF StartInv, ClaimInv
  <2>5. QED  BY <2>1, <2>2, <2>3, <2>4 DEF ClaimInv
<1>9. MayInv'
  BY <1>1, <1>4 DEF StartInv, MayInv
<1>10. TextInv'
  <2>1. Opened' = Opened
    BY <1>1 DEF Opened
  <2>2. QED  BY <1>1, <2>1 DEF StartInv, TextInv
<1>11. QED  BY <1>7, <1>8, <1>9, <1>10 DEF StartInv

\* Every step.
LEMMA StartInvStep == StartInv /\ [StartNext]_startVars => StartInv'
<1> SUFFICES ASSUME StartInv, [StartNext]_startVars  PROVE StartInv'
  OBVIOUS
<1>1. ASSUME NEW l \in Launch,
             Main(l) \/ CreatePid(l) \/ WritePid(l) \/ ReadPid(l) \/ Kill(l)
               \/ DeletePid(l) \/ Crash(l) \/ ExecNewBinary(l)
      PROVE  StartInv'
  BY <1>1, MainStep, CreatePidStep, WritePidStep, ReadPidStep, KillStep,
     DeletePidStep, CrashStep, ExecNewBinaryStep
<1>2. CASE UNCHANGED startVars
  <2>1. Opened' = Opened /\ \A m \in Launch : HasClaimed(m)' <=> HasClaimed(m)
    BY <1>2 DEF startVars, Opened, HasClaimed
  <2>2. QED  BY <1>2, <2>1 DEF startVars, StartInv, StartTypes, ClaimInv, MayInv, TextInv
<1>3. QED  BY <1>1, <1>2 DEF StartNext

\* What the invariant says of the file.
LEMMA StartInvKeeps == StartInv => PidFileKept
<1> SUFFICES ASSUME StartInv  PROVE PidFileKept
  OBVIOUS
<1>1. ASSUME NEW m \in Launch, phase[m] = "runs", since[m] = {}
      PROVE  names.pid # 0 /\ text[names.pid] = Pid[m]
  BY <1>1 DEF StartInv, ClaimInv, HasClaimed
<1>2. ASSUME NEW m \in Launch, NEW l \in Launch, l \in since[m]  PROVE MayServe(opts[l])
  <2>1. Becomes(opts[l]) = "serves" /\ opts[l] \in Seq(STRING)
    BY <1>2 DEF StartInv, StartTypes, MayInv
  <2>2. QED  BY <2>1, ServesMay
<1>3. ASSUME NEW l \in Launch, number[l] # <<>>, ~overlap
      PROVE  \E m \in Launch : fd[m] # 0 /\ number[l] = Pid[m]
  BY <1>3 DEF StartInv, TextInv, Of, Opened
<1>4. QED  BY <1>1, <1>2, <1>3 DEF PidFileKept

\* However many launches there are, whatever they are told and wherever they are
\* killed, the pid file names a running master unless another launch has claimed or
\* renamed it since, and a signaller reads the number of a launch that served
\* (core.cpp, core_cycle.cpp, core_solution.cpp).
THEOREM PidFileIsKept == StartInit /\ [][StartNext]_startVars => []PidFileKept
<1>1. StartInit => StartInv
  BY StartInvInit
<1>2. StartInv /\ [StartNext]_startVars => StartInv'
  BY StartInvStep
<1>3. StartInv => PidFileKept
  BY StartInvKeeps
<1>4. QED  BY <1>1, <1>2, <1>3, PTL

(*****************************************************************************)
(* CommandLine: what the node is told to do.                                 *)
(*****************************************************************************)

-----------------------------------------------------------------------------
\* The flags of a line say nothing that is not in it.
LEMMA FlagsAreTyped ==
  ASSUME NEW line \in Seq(STRING)
  PROVE  /\ FlagsOf(line).repeat => "-t" \in ToSet(line)
         /\ FlagsOf(line).print # "none" => FlagsOf(line).print \in ToSet(line)
<1>1. FlagsOf(line).repeat => "-t" \in ToSet(line)
  BY DEF FlagsOf, ToSet
<1>2. ASSUME PrintOptions(line) # {}  PROVE line[Max(PrintOptions(line))] \in ToSet(line)
  <2>1. PrintOptions(line) \subseteq 0 .. Len(line)
    BY DEF PrintOptions
  <2>2. Max(PrintOptions(line)) \in PrintOptions(line)
    BY <1>2, <2>1, GreatestMember DEF Max
  <2>3. PrintOptions(line) \subseteq 1 .. Len(line)
    BY DEF PrintOptions
  <2>4. PICK i \in 1 .. Len(line) : i = Max(PrintOptions(line))
    BY <2>2, <2>3
  <2>5. line[i] \in ToSet(line)
    BY <2>4 DEF ToSet
  <2>6. QED  BY <2>4, <2>5
<1>3. QED  BY <1>1, <1>2 DEF FlagsOf

\* What the flags of a running command may be.
FlagsAsTyped == flags = NoFlags \/ (Sound(asked) /\ flags = FlagsOf(asked))

Runs == {"login", "beat", "pull", "again"}
ShellInv ==
  /\ at \in Runs \cup {"parse", "prompt", "over"}
  /\ {cmd, given, asked} \subseteq Seq(STRING)
  /\ at = "parse" => cmd = asked \/ (asked # <<>> /\ cmd = <<asked[1]>>)
  /\ at \in Runs => asked # <<>> /\ cmd = <<asked[1]>> /\ asked[1] \in Server /\ FlagsAsTyped
  /\ token \in BOOLEAN /\ (token => entered)
  /\ at \in {"beat", "pull"} => entered
  /\ at = "login" /\ cmd[1] # "authlogin" => ~token
  /\ at = "beat" => cmd[1] \in {"heartbeat", "pulltask"}
  /\ DOMAIN requests \subseteq Request /\ requests \in [DOMAIN requests -> 0 .. 7]
  /\ DOMAIN failed \subseteq Request /\ failed \in [DOMAIN failed -> 0 .. 7]
  /\ todo \subseteq DOMAIN requests
  /\ at = "again" /\ cmd[1] = "pulltask" => DOMAIN requests = {} \/ ~token
  /\ given # NoText => asked = given

\* Nothing is typed yet.
LEMMA ShellInvInit == ShellInit => ShellInv
<1> SUFFICES ASSUME ShellInit PROVE ShellInv
  OBVIOUS
<1>1. DOMAIN <<>> = {}
  OBVIOUS
<1>2. <<>> \in [DOMAIN <<>> -> 0 .. 7]
  OBVIOUS
<1>3. QED  BY <1>1, <1>2, CommandAssumption DEF ShellInit, ShellInv, Runs

\* Where a command begins.
LEMMA RunsFromFacts ==
  ASSUME NEW c, RunsFrom(c) \in Runs
  PROVE  /\ c \in Server
         /\ RunsFrom(c) = "login" /\ c # "authlogin" => ~token
         /\ RunsFrom(c) = "beat" => token /\ c \in {"heartbeat", "pulltask"}
         /\ RunsFrom(c) = "again" => c \in {"statlogs", "statload"}
         /\ RunsFrom(c) # "pull"
  BY DEF RunsFrom, Server, Runs

\* Where a command line may lead.
LEMMA RunsFromPlaces ==
  ASSUME NEW c, token \in BOOLEAN
  PROVE  RunsFrom(c) \in {"login", "beat", "again", "over", "prompt"}
  BY DEF RunsFrom, Server

\* Every step.
LEMMA ShellInvStep == ShellInv /\ [ShellNext]_commandVars => ShellInv'
<1> SUFFICES ASSUME ShellInv, [ShellNext]_commandVars PROVE ShellInv'
  OBVIOUS
<1>1. CASE NothingTyped
  BY <1>1 DEF NothingTyped, ShellInv, Runs
<1>2. CASE Parses
  <2>1. /\ at = "parse" /\ Words(cmd) # <<>> /\ cmd' = <<Words(cmd)[1]>>
        /\ UNCHANGED <<given, token, requests, todo, failed, asked, entered>>
    BY <1>2 DEF Parses
  <2>2. Words(cmd) = cmd /\ cmd # <<>> /\ cmd \in Seq(STRING)
    BY <2>1 DEF Words, ShellInv
  <2>3. asked # <<>> /\ cmd[1] = asked[1] /\ (cmd = asked \/ cmd = <<asked[1]>>) /\ asked \in Seq(STRING)
    BY <2>1, <2>2 DEF ShellInv
  <2>4. cmd' = <<asked[1]>> /\ cmd' \in Seq(STRING)
    BY <2>1, <2>2, <2>3
  <2>5. CASE Sound(cmd) /\ flags' = FlagsOf(cmd) /\ at' = RunsFrom(cmd[1])
    <3>1. FlagsAsTyped'
      <4>1. CASE cmd = asked
        BY <2>1, <2>5, <4>1 DEF FlagsAsTyped, FlagsOf, Sound, PrintOptions
      <4>2. CASE cmd = <<asked[1]>>
        <5>1. Len(cmd) = 1
          BY <4>2
        <5>2. PrintOptions(cmd) = {} /\ 2 .. Len(cmd) - 1 = {}
          BY <5>1 DEF PrintOptions
        <5>3. FlagsOf(cmd) = NoFlags
          BY <5>2 DEF FlagsOf, NoFlags
        <5>4. QED  BY <2>5, <5>3 DEF FlagsAsTyped, NoFlags
      <4>3. QED  BY <4>1, <4>2, <2>3
    <3>2. at' \in {"login", "beat", "again", "over", "prompt"}
      BY <2>5, RunsFromPlaces DEF ShellInv
    <3>3. at' \in Runs =>
            /\ asked[1] \in Server
            /\ at' = "login" /\ asked[1] # "authlogin" => ~token
            /\ at' = "beat" => token /\ asked[1] \in {"heartbeat", "pulltask"}
            /\ at' = "again" => asked[1] \in {"statlogs", "statload"}
            /\ at' # "pull"
      BY <2>3, <2>5, RunsFromFacts
    <3>4. cmd'[1] = asked[1]
      BY <2>4
    <3>5. QED  BY <2>1, <2>3, <2>4, <3>1, <3>2, <3>3, <3>4 DEF ShellInv, Runs
  <2>6. CASE UNCHANGED <<at, flags>>
    BY <2>1, <2>3, <2>4, <2>6 DEF ShellInv, Runs
  <2>7. QED  BY <1>2, <2>2, <2>5, <2>6 DEF Parses
<1>3. CASE LogsIn
  <2>1. /\ at = "login" /\ UNCHANGED <<cmd, given, flags, requests, todo, failed, asked>>
        /\ \/ /\ token' \in BOOLEAN /\ entered' = TRUE
              /\ at' = IF cmd[1] \in {"heartbeat", "pulltask"} THEN "beat" ELSE "again"
           \/ at' = "again" /\ token' = token /\ entered' = entered
    BY <1>3 DEF LogsIn
  <2>2. FlagsAsTyped' = FlagsAsTyped
    BY <2>1 DEF FlagsAsTyped, FlagsOf, Sound, PrintOptions
  <2>3. QED  BY <2>1, <2>2 DEF ShellInv, Runs
<1>4. CASE Asks
  <2>1. /\ at = "beat" /\ UNCHANGED <<cmd, given, flags, token, asked, entered>>
        /\ failed' = <<>> /\ todo' = IF at' = "pull" THEN DOMAIN requests' ELSE {}
        /\ at' = IF cmd[1] = "heartbeat" THEN "again" ELSE ToPull(requests')
        /\ requests' = requests \/ \E s \in SUBSET Request : requests' = [r \in s |-> 0]
    BY <1>4 DEF Asks
  <2>2. DOMAIN requests' \subseteq Request /\ requests' \in [DOMAIN requests' -> 0 .. 7]
    <3>1. ASSUME NEW s \in SUBSET Request, requests' = [r \in s |-> 0]
          PROVE  DOMAIN requests' \subseteq Request /\ requests' \in [DOMAIN requests' -> 0 .. 7]
      BY <3>1
    <3>2. QED  BY <2>1, <3>1 DEF ShellInv
  <2>3. DOMAIN failed' \subseteq Request /\ failed' \in [DOMAIN failed' -> 0 .. 7]
    <3>1. DOMAIN <<>> = {} /\ <<>> \in [DOMAIN <<>> -> 0 .. 7]
      OBVIOUS
    <3>2. QED  BY <2>1, <3>1
  <2>4. at' \in {"again", "pull"} /\ (at' = "again" /\ cmd[1] # "heartbeat" => DOMAIN requests' = {})
    BY <2>1 DEF ToPull
  <2>5. FlagsAsTyped' = FlagsAsTyped
    BY <2>1 DEF FlagsAsTyped, FlagsOf, Sound, PrintOptions
  <2>6. QED  BY <2>1, <2>2, <2>3, <2>4, <2>5 DEF ShellInv, Runs
<1>5. CASE Pulls
  <2> DEFINE r == CHOOSE q \in todo : \A s \in todo : q <= s
  <2>1. /\ at = "pull" /\ todo # {}
        /\ UNCHANGED <<at, cmd, given, flags, token, requests, asked, entered>>
        /\ todo' = todo \ {r}
        /\ \/ failed' = failed
           \/ /\ requests[r] <= 6
              /\ failed' = [s \in DOMAIN failed \union {r} |-> IF s = r THEN requests[r] + 1 ELSE failed[s]]
    BY <1>5 DEF Pulls
  <2>2. r \in todo
    <3>1. todo \subseteq Nat
      BY CommandAssumption DEF ShellInv
    <3>2. \E q \in todo : \A s \in todo : q <= s
      BY <2>1, <3>1, LeastMember
    <3>3. QED  BY <3>2
  <2> HIDE DEF r
  <2>3. r \in Request /\ r \in DOMAIN requests /\ requests[r] \in 0 .. 7
    BY <2>2 DEF ShellInv
  <2>4. DOMAIN failed' \subseteq Request /\ failed' \in [DOMAIN failed' -> 0 .. 7]
    <3>1. CASE failed' = failed
      BY <3>1 DEF ShellInv
    <3>2. CASE /\ requests[r] <= 6
               /\ failed' = [s \in DOMAIN failed \union {r} |-> IF s = r THEN requests[r] + 1 ELSE failed[s]]
      <4>1. DOMAIN failed' = DOMAIN failed \cup {r}
        BY <3>2
      <4>2. \A s \in DOMAIN failed : failed[s] \in 0 .. 7
        BY DEF ShellInv
      <4>3. requests[r] + 1 \in 0 .. 7
        BY <2>3, <3>2
      <4>4. QED  BY <3>2, <4>1, <4>2, <4>3, <2>3 DEF ShellInv
    <3>3. QED  BY <2>1, <3>1, <3>2
  <2>5. FlagsAsTyped' = FlagsAsTyped
    BY <2>1 DEF FlagsAsTyped, FlagsOf, Sound, PrintOptions
  <2>6. QED  BY <2>1, <2>4, <2>5 DEF ShellInv, Runs
<1>6. CASE PassIsOver
  <2>1. /\ at = "pull" /\ requests' = failed /\ todo' = DOMAIN failed /\ failed' = <<>>
        /\ at' = ToPull(failed) /\ UNCHANGED <<cmd, given, flags, token, asked, entered>>
    BY <1>6 DEF PassIsOver
  <2>2. DOMAIN failed' \subseteq Request /\ failed' \in [DOMAIN failed' -> 0 .. 7]
    <3>1. DOMAIN <<>> = {} /\ <<>> \in [DOMAIN <<>> -> 0 .. 7]
      OBVIOUS
    <3>2. QED  BY <2>1, <3>1
  <2>3. at' \in {"again", "pull"} /\ (at' = "again" => DOMAIN requests' = {})
    BY <2>1 DEF ToPull
  <2>4. FlagsAsTyped' = FlagsAsTyped
    BY <2>1 DEF FlagsAsTyped, FlagsOf, Sound, PrintOptions
  <2>5. QED  BY <2>1, <2>2, <2>3, <2>4 DEF ShellInv, Runs
<1>7. CASE GoesAgain
  <2>1. /\ at = "again" /\ at' = IF flags.repeat THEN RunsFrom(cmd[1]) ELSE "prompt"
        /\ UNCHANGED <<cmd, given, flags, token, requests, todo, failed, asked, entered>>
    BY <1>7 DEF GoesAgain
  <2>2. at' \in {"login", "beat", "again", "over", "prompt"}
    BY <2>1, RunsFromPlaces DEF ShellInv
  <2>3. at' \in Runs =>
          /\ at' = "login" /\ cmd[1] # "authlogin" => ~token
          /\ at' = "beat" => token /\ cmd[1] \in {"heartbeat", "pulltask"}
          /\ at' = "again" => cmd[1] \in {"statlogs", "statload"}
          /\ at' # "pull"
    BY <2>1, RunsFromFacts DEF Runs
  <2>4. FlagsAsTyped' = FlagsAsTyped
    BY <2>1 DEF FlagsAsTyped, FlagsOf, Sound, PrintOptions
  <2>5. QED  BY <2>1, <2>2, <2>3, <2>4 DEF ShellInv, Runs
<1>8. CASE Prompts
  <2>1. UNCHANGED <<flags, token, requests, todo, failed, entered>> /\ at = "prompt"
    BY <1>8 DEF Prompts
  <2>2. CASE given # NoText /\ given' = NoText /\ at' = "over" /\ UNCHANGED <<cmd, asked>>
    BY <2>1, <2>2 DEF ShellInv, Runs, NoText
  <2>3. CASE /\ given = NoText /\ at' = "parse" /\ UNCHANGED given
             /\ cmd' \in Typed \union {NoText} /\ asked' = cmd'
    BY <2>1, <2>3, CommandAssumption DEF ShellInv, Runs, NoText
  <2>4. QED  BY <1>8, <2>2, <2>3 DEF Prompts
<1>9. CASE UNCHANGED commandVars
  <2>1. FlagsAsTyped' = FlagsAsTyped
    BY <1>9 DEF commandVars, FlagsAsTyped, FlagsOf, Sound, PrintOptions
  <2>2. QED  BY <1>9, <2>1 DEF commandVars, ShellInv
<1>10. QED
  BY <1>1, <1>2, <1>3, <1>4, <1>5, <1>6, <1>7, <1>8, <1>9 DEF ShellNext

\* What the invariant says of a node that runs.
LEMMA ShellInvRuns == ShellInv => RunsAsTyped
<1> SUFFICES ASSUME ShellInv PROVE RunsAsTyped
  OBVIOUS
<1>1. ASSUME at \in Runs
      PROVE  /\ cmd = <<asked[1]>> /\ asked[1] \in Server
             /\ flags.repeat => Sound(asked) /\ "-t" \in ToSet(asked)
             /\ flags.print # "none" => Sound(asked) /\ flags.print \in ToSet(asked)
  <2>1. asked \in Seq(STRING) /\ FlagsAsTyped
    BY <1>1 DEF ShellInv
  <2>2. CASE flags = NoFlags
    BY <1>1, <2>2 DEF ShellInv, NoFlags
  <2>3. CASE Sound(asked) /\ flags = FlagsOf(asked)
    BY <1>1, <2>1, <2>3, FlagsAreTyped DEF ShellInv
  <2>4. QED  BY <2>1, <2>2, <2>3 DEF FlagsAsTyped
<1>2. \A r \in DOMAIN requests : requests[r] <= 7
  <2>1. \A r \in DOMAIN requests : requests[r] \in 0 .. 7
    BY DEF ShellInv
  <2>2. QED  BY <2>1
<1>3. QED  BY <1>1, <1>2 DEF ShellInv, RunsAsTyped, Runs

\* Whatever is typed and answered, the command that runs is that of the last line, with
\* its flags only if the line is sound, after a login (nodes_cmdline.cpp).
THEOREM CommandsRunAsTyped == ShellInit /\ [][ShellNext]_commandVars => []RunsAsTyped
  BY ShellInvInit, ShellInvStep, ShellInvRuns, PTL

(*****************************************************************************)
(* Steps: the tasks that are processes and files.                            *)
(*****************************************************************************)

StepPlaces == {"check", "start", "reload", "stop", "leave", "purge", "defend", "done", "fails", "throws"}
StepIs(ops) == doing.kind = "step" /\ doing.operate \in ops

\* Nothing came after a deed that was noticed to go wrong.
NothingAfter == \A i \in 1 .. Len(deeds) - 1 : deeds[i][2] \notin {"badly", "lost"}

\* What place says of the task that runs, and of what it did.
StepsInv ==
  /\ doing \in StepsTask \cup {Nothing}
  /\ doing = Nothing => place = "none" /\ deeds = <<>>
  /\ doing # Nothing => place \in StepPlaces
  /\ place = "check" => StepIs({"start", "check", "update"}) /\ deeds = <<>>
  /\ place = "start" => StepIs({"start"}) /\ deeds = <<<<"ps", "nothing">>>>
  /\ place = "reload" => StepIs({"start"}) /\ deeds = <<<<"ps", "shown">>>>
  /\ place = "stop" => StepIs({"stop", "remove"}) /\ deeds = <<>>
  /\ place = "leave" => StepIs({"remove"}) /\ deeds = <<<<"stop", "well">>>>
  /\ place = "purge" => doing.kind = "cache" /\ doing.operate # Unknown /\ deeds = <<>>
  /\ place = "defend" => doing.kind = "defense" /\ doing.operate # Unknown /\ deeds = <<>>
  /\ place = "done" => deeds \in Fulfils(doing) /\ NothingAfter
  /\ place \in {"fails", "throws"} => deeds \notin Fulfils(doing) /\ NothingAfter

\* What each kind of task is to do.
LEMMA FulfilsOf ==
  ASSUME NEW t, t \in StepsTask
  PROVE  /\ t.kind = "step" =>
              /\ t.operate = "start" =>
                   Fulfils(t) = {<<<<"ps", "nothing">>, <<"start", "well">>>>, <<<<"ps", "shown">>, <<"reload", "well">>>>}
              /\ t.operate \in {"check", "update"} => Fulfils(t) = {<<<<"ps", "nothing">>>>}
              /\ t.operate = "stop" => Fulfils(t) = {<<<<"stop", "well">>>>}
              /\ t.operate = "remove" => Fulfils(t) = {<<<<"stop", "well">>, <<"leave", "well">>>>}
              /\ t.operate = Unknown => Fulfils(t) = {<<>>}
         /\ t.kind = "cache" => Fulfils(t) = IF t.operate = Unknown THEN {} ELSE {<<<<"purge", "well">>>>}
         /\ t.kind = "defense" =>
              Fulfils(t) = IF t.operate = Unknown THEN {<<>>} ELSE {<<<<"defend", "well">>>>, <<<<"defend", "unheard">>>>}
         /\ t.kind = "redis" => Fulfils(t) = {<<>>}
  BY DEF Fulfils, Unknown

\* One deed, and a second one.
LEMMA DeedsAppend ==
  ASSUME NEW a, NEW b
  PROVE  Append(<<>>, a) = <<a>> /\ Append(<<a>>, b) = <<a, b>>
<1> DEFINE S == {a, b}
           one == Append(<<>>, a)
           two == Append(<<a>>, b)
<1>1. /\ one \in Seq(S) /\ Len(one) = 1 /\ one[1] = a
      /\ <<a>> \in Seq(S) /\ Len(<<a>>) = 1
  OBVIOUS
<1>2. /\ two \in Seq(S) /\ Len(two) = 2 /\ two[1] = a /\ two[2] = b
      /\ <<a, b>> \in Seq(S) /\ Len(<<a, b>>) = 2
  OBVIOUS
<1>3. /\ \A i \in 1 .. 1 : one[i] = <<a>>[i]
      /\ \A i \in 1 .. 2 : two[i] = <<a, b>>[i]
  BY <1>1, <1>2
<1> HIDE DEF one, two
<1>4. one = <<a>>
  BY <1>1, <1>3
<1>5. two = <<a, b>>
  BY <1>2, <1>3
<1>6. QED  BY <1>4, <1>5 DEF one, two

\* No step is asked for at the start.
LEMMA StepsInvInit == StepsInit => StepsInv
  BY DEF StepsInit, StepsInv, Nothing, StepPlaces

\* A task begins with nothing done.
LEMMA ComesInv ==
  ASSUME StepsInv, NEW t \in StepsTask, Comes(t)
  PROVE  StepsInv'
<1>1. doing' = t /\ place' = BeginsAt(t) /\ deeds' = <<>> /\ t # Nothing
  BY DEF Comes, StepsInv, StepsTask, StepTasks, DefenseTasks, CacheTasks, Nothing
<1>2. NothingAfter'
  BY <1>1 DEF NothingAfter
<1>3. t.kind \in {"step", "defense", "cache", "redis"}
  BY DEF StepsTask, StepTasks, DefenseTasks, CacheTasks
<1>4. CASE t.kind = "step"
  <2>1. t.operate \in {"start", "stop", "check", "remove", "update", Unknown}
    BY <1>4 DEF StepsTask, StepTasks, DefenseTasks, CacheTasks
  <2>2. CASE t.operate \in {"start", "check", "update"}
    <3>1. BeginsAt(t) = "check"
      BY <1>4, <2>2 DEF BeginsAt
    <3>2. QED  BY <1>1, <1>4, <2>2, <3>1 DEF StepsInv, StepIs, StepPlaces
  <2>3. CASE t.operate \in {"stop", "remove"}
    <3>1. BeginsAt(t) = "stop"
      BY <1>4, <2>3 DEF BeginsAt
    <3>2. QED  BY <1>1, <1>4, <2>3, <3>1 DEF StepsInv, StepIs, StepPlaces
  <2>4. CASE t.operate = Unknown
    <3>1. BeginsAt(t) = "done" /\ Fulfils(t) = {<<>>}
      BY <1>4, <2>4, FulfilsOf DEF BeginsAt, Unknown
    <3>2. QED  BY <1>1, <1>2, <3>1 DEF StepsInv, StepPlaces
  <2>5. QED  BY <2>1, <2>2, <2>3, <2>4
<1>5. CASE t.kind = "defense"
  <2>1. CASE t.operate = Unknown
    <3>1. BeginsAt(t) = "done" /\ Fulfils(t) = {<<>>}
      BY <1>5, <2>1, FulfilsOf DEF BeginsAt
    <3>2. QED  BY <1>1, <1>2, <3>1 DEF StepsInv, StepPlaces
  <2>2. CASE t.operate # Unknown
    <3>1. BeginsAt(t) = "defend"
      BY <1>5, <2>2 DEF BeginsAt
    <3>2. QED  BY <1>1, <1>5, <2>2, <3>1 DEF StepsInv, StepPlaces
  <2>3. QED  BY <2>1, <2>2
<1>6. CASE t.kind = "cache"
  <2>1. CASE t.operate = Unknown
    <3>1. BeginsAt(t) = "fails" /\ Fulfils(t) = {}
      BY <1>6, <2>1, FulfilsOf DEF BeginsAt
    <3>2. QED  BY <1>1, <1>2, <3>1 DEF StepsInv, StepPlaces
  <2>2. CASE t.operate # Unknown
    <3>1. BeginsAt(t) = "purge"
      BY <1>6, <2>2 DEF BeginsAt
    <3>2. QED  BY <1>1, <1>6, <2>2, <3>1 DEF StepsInv, StepPlaces
  <2>3. QED  BY <2>1, <2>2
<1>7. CASE t.kind = "redis"
  <2>1. BeginsAt(t) = "done" /\ Fulfils(t) = {<<>>}
    BY <1>7, FulfilsOf DEF BeginsAt
  <2>2. QED  BY <1>1, <1>2, <2>1 DEF StepsInv, StepPlaces
<1>8. QED  BY <1>3, <1>4, <1>5, <1>6, <1>7

\* What ps shows decides where start goes, and what check and update answer.
LEMMA ChecksInv ==
  ASSUME StepsInv, Checks
  PROVE  StepsInv'
<1> DEFINE s == IF nginx \/ namesake THEN "shown" ELSE "nothing"
<1>1. /\ deeds = <<>> /\ StepIs({"start", "check", "update"}) /\ doing \in StepsTask /\ doing # Nothing /\ UNCHANGED doing
      /\ deeds' = Append(deeds, <<"ps", s>>)
  BY DEF Checks, StepsInv, Deed, TaskStill, StepIs, Nothing
<1>2. deeds' = <<<<"ps", s>>>> /\ NothingAfter'
  <2>1. deeds' = <<<<"ps", s>>>>
    BY <1>1, DeedsAppend
  <2>2. QED  BY <2>1 DEF NothingAfter
<1>3. CASE doing.operate = "start"
  <2>1. /\ s = "shown" => place' = "reload"
        /\ s = "nothing" => place' = "start"
        /\ s \in {"shown", "nothing"}
    BY <1>3 DEF Checks, GoesTo
  <2>2. QED  BY <1>1, <1>2, <1>3, <2>1 DEF StepsInv, StepIs, StepPlaces
<1>4. CASE doing.operate \in {"check", "update"}
  <2>1. /\ s = "shown" => place' = "fails"
        /\ s = "nothing" => place' = "done"
        /\ s \in {"shown", "nothing"}
    BY <1>4 DEF Checks, GoesTo
  <2>2. Fulfils(doing') = {<<<<"ps", "nothing">>>>}
    BY <1>1, <1>4, FulfilsOf DEF StepIs
  <2>3. s = "shown" => deeds' \notin Fulfils(doing')
    BY <1>2, <2>2
  <2>4. QED  BY <1>1, <1>2, <2>1, <2>2, <2>3 DEF StepsInv, StepPlaces
<1>5. QED  BY <1>1, <1>3, <1>4 DEF StepIs

\* Starting and reloading: the second deed of a start.
LEMMA StartsInv ==
  ASSUME StepsInv, StartsNginx \/ ReloadsNginx
  PROVE  StepsInv'
<1>1. PICK x \in {<<"nothing", "start", "throws">>, <<"shown", "reload", "fails">>} :
        /\ deeds = <<<<"ps", x[1]>>>> /\ Ran(x[2], "done", x[3]) /\ UNCHANGED doing
  BY DEF StepsInv, StartsNginx, ReloadsNginx, TaskStill
<1>2. StepIs({"start"}) /\ doing \in StepsTask /\ doing # Nothing
  BY DEF StepsInv, StartsNginx, ReloadsNginx, StepIs, Nothing
<1>3. Fulfils(doing') = {<<<<"ps", "nothing">>, <<"start", "well">>>>, <<<<"ps", "shown">>, <<"reload", "well">>>>}
  BY <1>1, <1>2, FulfilsOf DEF StepIs
<1>4. PICK how \in {"well", "badly"} :
        /\ deeds' = Append(deeds, <<x[2], how>>)
        /\ place' = IF how = "well" THEN "done" ELSE x[3]
  BY <1>1 DEF Ran, Deed, GoesTo
<1>5. deeds' = <<<<"ps", x[1]>>, <<x[2], how>>>>
  BY <1>1, <1>4, DeedsAppend
<1>6. NothingAfter'
  BY <1>5 DEF NothingAfter
<1>7. how = "well" <=> deeds' \in Fulfils(doing')
  BY <1>3, <1>5
<1>8. QED  BY <1>1, <1>2, <1>4, <1>6, <1>7 DEF StepsInv, StepPlaces

\* Stopping: asnode leaves behind it, if it went well.
LEMMA StopsInv ==
  ASSUME StepsInv, StopsNginx
  PROVE  StepsInv'
<1>1. /\ deeds = <<>> /\ StepIs({"stop", "remove"}) /\ doing \in StepsTask /\ doing # Nothing /\ UNCHANGED doing
      /\ Ran("stop", IF doing.operate = "remove" THEN "leave" ELSE "done", "fails")
  BY DEF StepsInv, StopsNginx, TaskStill, StepIs, Nothing
<1>2. PICK how \in {"well", "badly"} :
        /\ deeds' = Append(deeds, <<"stop", how>>)
        /\ place' = IF how = "badly" THEN "fails" ELSE IF doing.operate = "remove" THEN "leave" ELSE "done"
  BY <1>1 DEF Ran, Deed, GoesTo
<1>3. deeds' = <<<<"stop", how>>>>
  BY <1>1, <1>2, DeedsAppend
<1>4. NothingAfter'
  BY <1>3 DEF NothingAfter
<1>5. Fulfils(doing') = IF doing.operate = "stop" THEN {<<<<"stop", "well">>>>} ELSE {<<<<"stop", "well">>, <<"leave", "well">>>>}
  BY <1>1, FulfilsOf DEF StepIs
<1>6. CASE how = "badly"
  <2>1. deeds' \notin Fulfils(doing')
    BY <1>3, <1>5, <1>6
  <2>2. QED  BY <1>1, <1>2, <1>4, <1>6, <2>1 DEF StepsInv, StepPlaces
<1>7. CASE how = "well"
  <2>1. doing.operate # "remove" => deeds' \in Fulfils(doing')
    BY <1>1, <1>3, <1>5, <1>7 DEF StepIs
  <2>2. QED  BY <1>1, <1>2, <1>3, <1>4, <1>7, <2>1 DEF StepsInv, StepIs, StepPlaces
<1>8. QED  BY <1>6, <1>7

\* asnode leaves.
LEMMA LeavesInv ==
  ASSUME StepsInv, RemovesNodes
  PROVE  StepsInv'
<1>1. /\ deeds = <<<<"stop", "well">>>> /\ StepIs({"remove"}) /\ doing \in StepsTask /\ doing # Nothing /\ UNCHANGED doing
      /\ Ran("leave", "done", "fails")
  BY DEF StepsInv, RemovesNodes, TaskStill, StepIs, Nothing
<1>2. PICK how \in {"well", "badly"} :
        deeds' = Append(deeds, <<"leave", how>>) /\ place' = IF how = "well" THEN "done" ELSE "fails"
  BY <1>1 DEF Ran, Deed, GoesTo
<1>3. deeds' = <<<<"stop", "well">>, <<"leave", how>>>>
  BY <1>1, <1>2, DeedsAppend
<1>4. NothingAfter'
  BY <1>3 DEF NothingAfter
<1>5. Fulfils(doing') = {<<<<"stop", "well">>, <<"leave", "well">>>>}
  BY <1>1, FulfilsOf DEF StepIs
<1>6. how = "well" <=> deeds' \in Fulfils(doing')
  BY <1>3, <1>5
<1>7. QED  BY <1>1, <1>2, <1>4, <1>6 DEF StepsInv, StepPlaces

\* A purge, and a defense: one deed each.
LEMMA PurgesInv ==
  ASSUME StepsInv, Purges
  PROVE  StepsInv'
<1>1. /\ deeds = <<>> /\ doing.kind = "cache" /\ doing.operate # Unknown /\ doing \in StepsTask /\ doing # Nothing /\ UNCHANGED doing
      /\ Ran("purge", "done", "fails")
  BY DEF StepsInv, Purges, TaskStill, Nothing
<1>2. PICK how \in {"well", "badly"} :
        deeds' = Append(deeds, <<"purge", how>>) /\ place' = IF how = "well" THEN "done" ELSE "fails"
  BY <1>1 DEF Ran, Deed, GoesTo
<1>3. deeds' = <<<<"purge", how>>>>
  BY <1>1, <1>2, DeedsAppend
<1>4. NothingAfter' /\ Fulfils(doing') = {<<<<"purge", "well">>>>}
  BY <1>1, <1>3, FulfilsOf DEF NothingAfter
<1>5. how = "well" <=> deeds' \in Fulfils(doing')
  BY <1>3, <1>4
<1>6. QED  BY <1>1, <1>2, <1>4, <1>5 DEF StepsInv, StepPlaces

LEMMA DefendsInv ==
  ASSUME StepsInv, Defends
  PROVE  StepsInv'
<1>1. /\ deeds = <<>> /\ doing.kind = "defense" /\ doing.operate # Unknown /\ doing \in StepsTask /\ doing # Nothing /\ UNCHANGED doing
  BY DEF StepsInv, Defends, TaskStill, Nothing
<1>2. PICK how \in {"well", "unheard", "badly", "lost"} :
        /\ deeds' = Append(deeds, <<"defend", how>>)
        /\ place' = IF how \in {"well", "unheard"} THEN "done" ELSE "fails"
  BY DEF Defends, Deed, GoesTo
<1>3. deeds' = <<<<"defend", how>>>>
  BY <1>1, <1>2, DeedsAppend
<1>4. NothingAfter' /\ Fulfils(doing') = {<<<<"defend", "well">>>>, <<<<"defend", "unheard">>>>}
  BY <1>1, <1>3, FulfilsOf DEF NothingAfter
<1>5. how \in {"well", "unheard"} <=> deeds' \in Fulfils(doing')
  BY <1>3, <1>4
<1>6. QED  BY <1>1, <1>2, <1>4, <1>5 DEF StepsInv, StepPlaces

\* Every step.
LEMMA StepsInvStep == StepsInv /\ [StepsNext]_stepVars => StepsInv'
<1> SUFFICES ASSUME StepsInv, [StepsNext]_stepVars PROVE StepsInv'
  OBVIOUS
<1>1. CASE Done \/ Throws
  <2>1. doing' = Nothing /\ place' = "none" /\ deeds' = <<>>
    BY <1>1 DEF Done, Throws, Answered
  <2>2. QED  BY <2>1 DEF StepsInv
<1>2. CASE World \/ UNCHANGED stepVars
  <2>1. UNCHANGED <<doing, place, deeds>>
    BY <1>2 DEF World, stepVars
  <2>2. QED  BY <2>1 DEF StepsInv, StepIs, NothingAfter
<1>3. QED
  BY <1>1, <1>2, ComesInv, ChecksInv, StartsInv, StopsInv, LeavesInv, PurgesInv, DefendsInv DEF StepsNext

\* The answer is the one of the place, and only the purge of a domain changes the cache.
LEMMA StepsAnswer ==
  ASSUME StepsInv, StepsNext
  PROVE  /\ doing # Nothing /\ doing' = Nothing =>
              /\ code' = 200 <=> deeds \in Fulfils(doing)
              /\ \A i \in 1 .. Len(deeds) - 1 : deeds[i][2] \notin {"badly", "lost"}
         /\ place = "purge" /\ place' # "purge" =>
              \A d \in Domain \ {doing.operate} : dirs'[d] = dirs[d]
<1>1. doing # Nothing /\ doing' = Nothing => Done \/ Throws
  BY DEF StepsNext, Comes, Checks, StartsNginx, ReloadsNginx, StopsNginx, RemovesNodes, Purges, Defends, World, TaskStill
<1>2. Done => code' = 200 /\ deeds \in Fulfils(doing) /\ NothingAfter
  BY DEF Done, Answered, StepsInv
<1>3. Throws => code' # 200 /\ deeds \notin Fulfils(doing) /\ NothingAfter
  BY DEF Throws, Answered, StepsInv
<1>4. place = "purge" /\ place' # "purge" => Purges
  BY DEF StepsInv, StepsNext, Comes, Checks, StartsNginx, ReloadsNginx, StopsNginx, RemovesNodes, Defends, Done, Throws, World
<1>5. Purges => \A d \in Domain \ {doing.operate} : dirs'[d] = dirs[d]
  BY DEF Purges
<1>6. QED  BY <1>1, <1>2, <1>3, <1>4, <1>5 DEF NothingAfter

\* Whatever the domains and the tasks, 200 is the answer to exactly the tasks that did
\* what they were asked to, none goes on after what it noticed to go wrong, and a purge
\* stays in its own domain (nodes_process.cpp:83-156, 318-444, nodes_tasks.cpp:549-608).
THEOREM TasksAnswered == StepsInit /\ [][StepsNext]_stepVars => StepsAnswered
<1>1. StepsInv /\ [StepsNext]_stepVars =>
        [/\ doing # Nothing /\ doing' = Nothing =>
              /\ code' = 200 <=> deeds \in Fulfils(doing)
              /\ \A i \in 1 .. Len(deeds) - 1 : deeds[i][2] \notin {"badly", "lost"}
         /\ place = "purge" /\ place' # "purge" =>
              \A d \in Domain \ {doing.operate} : dirs'[d] = dirs[d]]_stepVars
  BY StepsAnswer
<1>2. QED  BY <1>1, StepsInvInit, StepsInvStep, PTL DEF StepsAnswered

(*****************************************************************************)
(* DevStat: the figures of the machine.                                      *)
(*****************************************************************************)

\* A quotient and a remainder that fit are the ones.
LEMMA RemainderIs ==
  ASSUME NEW q \in Nat, NEW r \in 0 .. Word - 1, NEW x \in Nat, x = Word * q + r
  PROVE  x % Word = r
<1> DEFINE d == x \div Word
<1>1. Word \in Nat \ {0}
  BY DevStatAssumption
<1>2. d \in Nat /\ Word * d <= x /\ x < Word * d + Word /\ x = Word * d + (x % Word)
  BY <1>1
<1> HIDE DEF d
<1>3. Word * d \in Nat /\ Word * q \in Nat /\ x % Word \in 0 .. Word - 1
  BY <1>1, <1>2
<1>4. Word * d < Word * q + Word /\ Word * q < Word * d + Word
  BY <1>1, <1>2, <1>3
<1>5. d <= q
  BY <1>1, <1>2, <1>4
<1>6. q <= d
  BY <1>1, <1>2, <1>4
<1>7. d = q
  BY <1>2, <1>5, <1>6
<1>8. QED  BY <1>2, <1>3, <1>7

\* What a counter has run on since it was kept, if that fits a word.
LEMMA MinusIs ==
  ASSUME NEW a \in Nat, NEW b \in Nat, b <= a, a - b < Word
  PROVE  Minus(a, b % Word) = a - b
<1> DEFINE q == b \div Word  r == b % Word
<1>1. Word \in Nat \ {0}
  BY DevStatAssumption
<1>2. q \in Nat /\ r \in 0 .. Word - 1 /\ b = Word * q + r
  BY <1>1, Z3
<1>3. r % Word = r
  <2>1. r = Word * 0 + r
    BY <1>1, <1>2
  <2>2. QED  BY <1>1, <1>2, <2>1, RemainderIs
<1> HIDE DEF q, r
<1>4. Minus(a, r) = (a + Word - r) % Word
  BY <1>3 DEF Minus
<1>5. Word * (q + 1) = Word * q + Word /\ Word * q \in Nat
  BY <1>1, <1>2
<1>6. a + Word - r = Word * (q + 1) + (a - b)
  BY <1>1, <1>2, <1>5
<1>7. a + Word - r \in Nat /\ a - b \in 0 .. Word - 1 /\ q + 1 \in Nat
  BY <1>1, <1>2
<1>8. (a + Word - r) % Word = a - b
  BY <1>6, <1>7, RemainderIs
<1>9. QED  BY <1>4, <1>8 DEF r

\* A rate whose product fits a word.
LEMMA RateIs ==
  ASSUME NEW part \in Nat, NEW whole \in Nat, part * FullRate < Word
  PROVE  Rate(part, whole) = Share(part, whole) /\ part < Word /\ part % Word = part
<1>1. Word \in Nat \ {0} /\ FullRate \in Nat \ {0}
  BY DevStatAssumption
<1>2. part * FullRate \in Nat /\ part <= part * FullRate
  BY <1>1
<1> DEFINE p == part * FullRate
<1>3. p = Word * 0 + p /\ part = Word * 0 + part
  BY <1>1, <1>2
<1>4. p \in 0 .. Word - 1 /\ part \in 0 .. Word - 1
  BY <1>1, <1>2
<1> HIDE DEF p
<1>5. p % Word = p /\ part % Word = part
  BY <1>2, <1>3, <1>4, RemainderIs DEF p
<1>6. Rate(part, whole) = Share(part, whole)
  BY <1>5 DEF Rate, Share, p
<1>7. QED  BY <1>4, <1>5, <1>6, <1>1
-----------------------------------------------------------------------------
\* The counters of the processor, and what is kept of them.
Counters == [user : Nat, system : Nat, other : Nat]
NoLess(t, s) == t.user >= s.user /\ t.system >= s.system /\ t.other >= s.other

CpuKept ==
  /\ {"cpu", "sys", "tcp", "connected"} \subseteq DOMAIN info
  /\ kernel = [cpu |-> kernel.cpu, net |-> kernel.net]
  /\ kernel.cpu \in Counters /\ ticked \in Counters \X Counters
  /\ NoLess(kernel.cpu, ticked[2]) /\ NoLess(ticked[2], ticked[1])
  /\ param.user = ticked[2].user % Word /\ param.system = ticked[2].system % Word
  /\ param.total = Total(ticked[2]) % Word

\* The rates of a pass are those of the ticks since the pass before.
LEMMA RatesOfTicks ==
  ASSUME CpuKept,
         NEW did, did = Did(kernel.cpu, ticked[2]),
         (did.user + did.system) * FullRate < Word, Total(did) < Word
  PROVE  /\ Rate((UserNow + SysNow) % Word, TotalNow) = Share(did.user + did.system, Total(did))
         /\ Rate(SysNow, TotalNow) = Share(did.system, Total(did))
<1> DEFINE k == kernel.cpu  t == ticked[2]
<1>1. k \in Counters /\ t \in Counters /\ NoLess(k, t)
  BY DEF CpuKept
<1>2. /\ param.user = t.user % Word /\ param.system = t.system % Word
      /\ param.total = Total(t) % Word
  BY DEF CpuKept
<1>3. UserNow = Minus(k.user, param.user) /\ SysNow = Minus(k.system, param.system)
      /\ TotalNow = Minus(Total(k), param.total)
  BY DEF UserNow, SysNow, TotalNow
<1>4. did.user = k.user - t.user /\ did.system = k.system - t.system /\ did.other = k.other - t.other
  BY <1>1 DEF Did, Counters
<1> HIDE DEF k, t
<1>5. Word \in Nat \ {0} /\ FullRate \in Nat \ {0}
  BY DevStatAssumption
<1>6. /\ k.user \in Nat /\ k.system \in Nat /\ k.other \in Nat
      /\ t.user \in Nat /\ t.system \in Nat /\ t.other \in Nat
      /\ k.user >= t.user /\ k.system >= t.system /\ k.other >= t.other
  BY <1>1 DEF Counters, NoLess
<1>7. /\ did.user \in Nat /\ did.system \in Nat /\ did.other \in Nat
      /\ Total(did) = Total(k) - Total(t) /\ Total(did) \in Nat
      /\ Total(k) \in Nat /\ Total(t) \in Nat /\ Total(t) <= Total(k)
  BY <1>4, <1>6 DEF Total
<1>8. did.user <= Total(did) /\ did.system <= Total(did)
  BY <1>7 DEF Total
<1>9. UserNow = did.user /\ SysNow = did.system /\ TotalNow = Total(did)
  <2>1. UserNow = did.user
    BY <1>2, <1>3, <1>4, <1>5, <1>6, <1>7, <1>8, MinusIs
  <2>2. SysNow = did.system
    BY <1>2, <1>3, <1>4, <1>5, <1>6, <1>7, <1>8, MinusIs
  <2>3. TotalNow = Total(did)
    BY <1>2, <1>3, <1>5, <1>7, MinusIs
  <2>4. QED  BY <2>1, <2>2, <2>3
<1>10. did.user + did.system \in Nat
  BY <1>7
<1>11. /\ Rate(did.user + did.system, Total(did)) = Share(did.user + did.system, Total(did))
       /\ (did.user + did.system) % Word = did.user + did.system
  BY <1>7, <1>10, RateIs
<1>12. did.system * FullRate < Word
  BY <1>5, <1>7
<1>13. Rate(did.system, Total(did)) = Share(did.system, Total(did))
  BY <1>7, <1>12, RateIs
<1>14. QED  BY <1>9, <1>11, <1>13

\* What is kept stays what was counted at the last pass, on every step.
LEMMA CpuKeptStep ==
  ASSUME CpuKept, StatNext
  PROVE  CpuKept'
<1>1. kernel.cpu \in Counters /\ ticked[1] \in Counters /\ ticked[2] \in Counters
  BY DEF CpuKept
<1>2. CASE Pass
  <2>1. kernel' = kernel /\ ticked' = <<ticked[2], kernel.cpu>>
    BY <1>2 DEF Pass
  <2>2. /\ param'.user = kernel.cpu.user % Word /\ param'.system = kernel.cpu.system % Word
        /\ param'.total = Total(kernel.cpu) % Word
    BY <1>2 DEF Pass
  <2>3. NoLess(kernel.cpu, kernel.cpu)
    BY <1>1 DEF Counters, NoLess
  <2>4. {"cpu", "sys", "tcp", "connected"} \subseteq DOMAIN info'
    BY <1>2 DEF Pass
  <2>5. kernel' = [cpu |-> kernel'.cpu, net |-> kernel'.net]
    BY <2>1 DEF CpuKept
  <2>6. QED  BY <1>1, <2>1, <2>2, <2>3, <2>4, <2>5 DEF CpuKept
<1>3. CASE CpuRuns
  <2>1. PICK t \in Ticks : kernel' = [kernel EXCEPT !.cpu = [f \in DOMAIN t |-> kernel.cpu[f] + t[f]]]
    BY <1>3 DEF CpuRuns
  <2>2. t \in Counters
    BY DevStatAssumption DEF Counters
  <2>3. ticked' = ticked /\ param' = param /\ info' = info
    BY <1>3 DEF CpuRuns, Changes
  <2> DEFINE more == [f \in DOMAIN t |-> kernel.cpu[f] + t[f]]
  <2>4. more.user = kernel.cpu.user + t.user /\ more.system = kernel.cpu.system + t.system
        /\ more.other = kernel.cpu.other + t.other
    BY <2>2 DEF Counters
  <2>5. more = [user |-> more.user, system |-> more.system, other |-> more.other]
    BY <2>2 DEF Counters
  <2> HIDE DEF more
  <2>6. more \in Counters /\ NoLess(more, kernel.cpu)
    <3>1. /\ kernel.cpu.user \in Nat /\ kernel.cpu.system \in Nat /\ kernel.cpu.other \in Nat
          /\ t.user \in Nat /\ t.system \in Nat /\ t.other \in Nat
      BY <1>1, <2>2 DEF Counters
    <3>2. more.user \in Nat /\ more.system \in Nat /\ more.other \in Nat
      BY <2>4, <3>1
    <3>3. more \in Counters
      BY <2>5, <3>2 DEF Counters
    <3>4. NoLess(more, kernel.cpu)
      BY <2>4, <3>1 DEF NoLess
    <3>5. QED  BY <3>3, <3>4
  <2>7. kernel' = [kernel EXCEPT !.cpu = more]
    BY <2>1 DEF more
  <2>8. kernel' = [cpu |-> more, net |-> kernel.net]
    BY <2>7 DEF CpuKept
  <2>9. NoLess(more, ticked[2])
    BY <1>1, <2>6 DEF CpuKept, NoLess, Counters
  <2>10. kernel'.cpu = more /\ kernel' = [cpu |-> kernel'.cpu, net |-> kernel'.net]
    BY <2>8
  <2>11. QED  BY <2>3, <2>6, <2>9, <2>10 DEF CpuKept
<1>4. CASE Dies \/ CardRuns \/ NginxReloads \/ Connects80
  <2>1. ticked' = ticked
    BY <1>4 DEF Dies, CardRuns, NginxReloads, Connects80, Changes
  <2>2. param' = param
    BY <1>4 DEF Dies, CardRuns, NginxReloads, Connects80, Changes
  <2>3. kernel' = [cpu |-> kernel.cpu, net |-> kernel'.net]
    <3>1. CASE CardRuns
      <4>1. PICK c \in Card, b \in Bytes :
              kernel' = [kernel EXCEPT !.net[c] = [f \in DOMAIN b |-> @[f] + b[f]]]
        BY <3>1 DEF CardRuns
      <4>2. \E n : kernel' = [kernel EXCEPT !.net = n]
        BY <4>1
      <4>3. QED  BY <4>2 DEF CpuKept
    <3>2. CASE Dies \/ NginxReloads \/ Connects80
      <4>1. kernel' = kernel
        BY <3>2 DEF Dies, NginxReloads, Connects80, Changes
      <4>2. QED  BY <4>1 DEF CpuKept
    <3>3. QED  BY <1>4, <3>1, <3>2
  <2>4. kernel'.cpu = kernel.cpu /\ kernel' = [cpu |-> kernel'.cpu, net |-> kernel'.net]
    BY <2>3
  <2>5. DOMAIN info' = DOMAIN info
    BY <1>4 DEF Dies, CardRuns, NginxReloads, Connects80, Changes
  <2>6. QED  BY <2>1, <2>2, <2>4, <2>5 DEF CpuKept
<1>5. QED  BY <1>2, <1>3, <1>4 DEF StatNext

\* Only a pass makes a rate.
LEMMA CpuRightStep ==
  ASSUME CpuKept, CpuRight, StatNext
  PROVE  CpuRight'
<1>1. CASE Pass
  <2>1. ticked' = <<ticked[2], kernel.cpu>>
    BY <1>1 DEF Pass
  <2>2. /\ info'.cpu = Rate((UserNow + SysNow) % Word, TotalNow)
        /\ info'.sys = Rate(SysNow, TotalNow)
    BY <1>1 DEF Pass
  <2> DEFINE did == Did(kernel.cpu, ticked[2])
  <2>3. did = Did(kernel.cpu, ticked[2])
    OBVIOUS
  <2> HIDE DEF did
  <2>4. (did.user + did.system) * FullRate < Word /\ Total(did) < Word =>
          /\ info'.cpu = Share(did.user + did.system, Total(did))
          /\ info'.sys = Share(did.system, Total(did))
    BY <2>2, <2>3, RatesOfTicks
  <2>5. Did(ticked'[2], ticked'[1]) = did
    BY <2>1, <2>3
  <2>6. QED  BY <2>4, <2>5 DEF CpuRight
<1>2. CASE Dies \/ CpuRuns \/ CardRuns \/ NginxReloads \/ Connects80
  <2>1. ticked' = ticked
    BY <1>2 DEF Dies, CpuRuns, CardRuns, NginxReloads, Connects80, Changes
  <2>2. info'.cpu = info.cpu /\ info'.sys = info.sys
    BY <1>2 DEF Dies, CpuRuns, CardRuns, NginxReloads, Connects80, Changes, CpuKept
  <2>3. QED  BY <2>1, <2>2 DEF CpuRight
<1>3. QED  BY <1>1, <1>2 DEF StatNext
\* The start.
LEMMA CpuStart ==
  ASSUME StatInit
  PROVE  CpuKept /\ CpuRight
<1>1. ticked = <<NoTicks, NoTicks>> /\ kernel.cpu = NoTicks /\ kernel = [cpu |-> kernel.cpu, net |-> kernel.net]
  BY DEF StatInit
<1>2. param.user = 0 /\ param.system = 0 /\ param.total = 0 /\ info.cpu = 0 /\ info.sys = 0
  BY DEF StatInit
<1>3. Word \in Nat \ {0} /\ FullRate \in Nat \ {0} /\ 0 % Word = 0
  <2>1. Word \in Nat \ {0} /\ FullRate \in Nat \ {0}
    BY DevStatAssumption
  <2>2. 0 \in 0 .. Word - 1 /\ 0 = Word * 0 + 0
    BY <2>1
  <2>3. QED  BY <2>1, <2>2, RemainderIs
<1>4. Total(NoTicks) = 0 /\ NoTicks \in Counters /\ NoLess(NoTicks, NoTicks)
  BY DEF Total, NoTicks, Counters, NoLess
<1>5. {"cpu", "sys", "tcp", "connected"} \subseteq DOMAIN info
  BY DEF StatInit
<1>6. CpuKept
  BY <1>1, <1>2, <1>3, <1>4, <1>5 DEF CpuKept, NoTicks
<1>7. Total(Did(ticked[2], ticked[1])) = 0 /\ Did(ticked[2], ticked[1]).system = 0
      /\ Did(ticked[2], ticked[1]).user = 0
  BY <1>1 DEF Did, NoTicks, Total
<1>8. QED  BY <1>2, <1>6, <1>7 DEF CpuRight, Share

\* collection_cpu: the rates that a pass reports are the shares of the ticks
\* since the pass before, whatever the counters of the kernel have run to, as
\* long as the products of those ticks fit an unsigned int.
THEOREM RatesAreOfThePass == StatInit /\ [][StatNext]_statVars => []CpuRight
<1>1. StatInit => CpuKept /\ CpuRight
  BY CpuStart
<1>2. CpuKept /\ CpuRight /\ [StatNext]_statVars => CpuKept' /\ CpuRight'
  <2> SUFFICES ASSUME CpuKept, CpuRight, [StatNext]_statVars
               PROVE  CpuKept' /\ CpuRight'
    OBVIOUS
  <2>1. CASE StatNext
    BY <2>1, CpuKeptStep, CpuRightStep
  <2>2. CASE UNCHANGED statVars
    BY <2>2 DEF statVars, CpuKept, CpuRight
  <2>3. QED  BY <2>1, <2>2
<1>3. QED  BY <1>1, <1>2, PTL
-----------------------------------------------------------------------------
\* A listed process is a worker of the listing or one of those that listed it;
\* one that was found gone is still listed and does not come back.
Own == {"sh", "grep"}
ListKept ==
  /\ {"cpu", "sys", "tcp", "connected"} \subseteq DOMAIN info
  /\ nginx80 = [at |-> nginx80.at, established |-> nginx80.established]
  /\ nginx80.at \in 0 .. Len(Workers) /\ nginx80.established \in Nat
  /\ listing.at \in 0 .. nginx80.at
  /\ param.ids \subseteq Alive(listing) \union Own
  /\ listing.gone \subseteq param.ids
  /\ \A x \in listing.gone : x \in Own \/ nginx80.at > listing.at

\* Workers of two sets, or a worker and a process of pids, are not the same.
LEMMA WorkersApart ==
  ASSUME NEW m, NEW n, m.at \in 0 .. Len(Workers), n.at \in 0 .. Len(Workers)
  PROVE  /\ IsFiniteSet(Alive(m)) /\ Alive(m) \cap Own = {}
         /\ m.at # n.at => Alive(m) \cap Alive(n) = {}
         /\ m.at = n.at => Alive(m) = Alive(n)
<1>1. m.at # 0 => m.at \in DOMAIN Workers
  BY DevStatAssumption
<1>2. n.at # 0 => n.at \in DOMAIN Workers
  BY DevStatAssumption
<1>3. \A i \in DOMAIN Workers :
        /\ IsFiniteSet(Workers[i]) /\ Workers[i] \cap Own = {}
        /\ \A j \in DOMAIN Workers \ {i} : Workers[i] \cap Workers[j] = {}
  BY DevStatAssumption DEF Own
<1>4. IsFiniteSet(Alive(m)) /\ Alive(m) \cap Own = {}
  BY <1>1, <1>3, FS_EmptySet DEF Alive
<1>5. m.at # n.at => Alive(m) \cap Alive(n) = {}
  BY <1>1, <1>2, <1>3 DEF Alive
<1>6. m.at = n.at => Alive(m) = Alive(n)
  BY DEF Alive
<1>7. QED  BY <1>4, <1>5, <1>6

\* One that was found gone is none of the workers there are.
LEMMA GoneIsGone ==
  ASSUME ListKept
  PROVE  listing.gone \cap Alive(nginx80) = {}
<1>1. nginx80.at \in 0 .. Len(Workers) /\ listing.at \in 0 .. Len(Workers)
  BY DevStatAssumption DEF ListKept
<1>2. Alive(nginx80) \cap Own = {} /\ (nginx80.at # listing.at => Alive(nginx80) \cap Alive(listing) = {})
  BY <1>1, WorkersApart
<1>3. ASSUME NEW x \in listing.gone
      PROVE  x \notin Alive(nginx80)
  <2>1. x \in Alive(listing) \union Own /\ (x \in Own \/ nginx80.at > listing.at)
    BY <1>3 DEF ListKept
  <2>2. nginx80.at > listing.at => nginx80.at # listing.at
    BY <1>1
  <2>3. QED  BY <1>2, <2>1, <2>2
<1>4. QED  BY <1>3
\* What a pass makes of the list: ids are those it asked, kept those it keeps.
Lists(ids, kept) ==
  /\ param'.ids = kept /\ kept \subseteq ids /\ ids \subseteq Alive(listing)' \union Own
  /\ listing'.at \in 0 .. nginx80.at
  /\ ids \ Alive(nginx80) \subseteq kept
  /\ nginx80.established > 0 => kept = ids
  /\ nginx80.established = 0 => Few(ids) \/ kept = ids \ Alive(nginx80)
  /\ param.ids = {} => ids \subseteq Alive(nginx80) \union Own /\ listing'.at = nginx80.at
  /\ param.ids # {} => ids = param.ids /\ listing'.at = listing.at /\ ~Few(ids)
  /\ listing'.gone = (IF param.ids = {} THEN {} ELSE listing.gone)
                     \union (IF Few(ids) THEN {} ELSE ids \ Alive(nginx80))
  /\ ~Few(ids) => info'.tcp = Tcp(ids)
  /\ info'.connected = (~Few(ids) /\ kept # {})

\* A pass does so for some ids.
LEMMA PassLists ==
  ASSUME ListKept, Pass
  PROVE  \E ids, kept : Lists(ids, kept)
<1>1. PICK ids \in Found :
        LET kept == IF Few(ids) THEN ids ELSE KeptIds(ids) IN
        /\ param' = [user |-> kernel.cpu.user % Word, system |-> kernel.cpu.system % Word,
                     total |-> Total(kernel.cpu) % Word, last |-> Net.last, ids |-> kept]
        /\ info' = [cpu |-> Rate((UserNow + SysNow) % Word, TotalNow), sys |-> Rate(SysNow, TotalNow),
                    out |-> Net.out, tcp |-> IF Few(ids) THEN info.tcp ELSE Tcp(ids),
                    connected |-> ~Few(ids) /\ kept # {},
                    boot |-> IF disks.boot = "none" THEN "root" ELSE "boot", up |-> TRUE]
        /\ listing' = [at   |-> IF param.ids = {} THEN nginx80.at ELSE listing.at,
                       gone |-> (IF param.ids = {} THEN {} ELSE listing.gone)
                                \union (IF Few(ids) THEN {} ELSE ids \ Alive(nginx80))]
  BY DEF Pass
<1> DEFINE kept == IF Few(ids) THEN ids ELSE KeptIds(ids)
<1>2. /\ param'.ids = kept
      /\ ~Few(ids) => info'.tcp = Tcp(ids)
      /\ info'.connected = (~Few(ids) /\ kept # {})
      /\ listing'.at = IF param.ids = {} THEN nginx80.at ELSE listing.at
      /\ listing'.gone = (IF param.ids = {} THEN {} ELSE listing.gone)
                         \union (IF Few(ids) THEN {} ELSE ids \ Alive(nginx80))
  BY <1>1
<1>3. /\ kept \subseteq ids /\ ids \ Alive(nginx80) \subseteq kept
      /\ nginx80.established > 0 => kept = ids
      /\ nginx80.established = 0 => Few(ids) \/ kept = ids \ Alive(nginx80)
  <2>1. nginx80.established \in Nat
    BY DEF ListKept
  <2>2. KeptIds(ids) = IF nginx80.established > 0 THEN ids ELSE ids \ Alive(nginx80)
    BY DEF KeptIds
  <2> HIDE DEF kept
  <2>3. kept = IF Few(ids) THEN ids ELSE KeptIds(ids)
    BY DEF kept
  <2>4. QED  BY <2>1, <2>2, <2>3
<1>4. /\ param.ids = {} => ids \subseteq Alive(nginx80) \union Own
      /\ param.ids # {} => ids = param.ids /\ ~Few(ids)
  BY <1>1 DEF Found, Ghosts, Own, Few
<1>5. listing'.at \in 0 .. nginx80.at
  BY <1>2 DEF ListKept
<1>6. ids \subseteq Alive(listing)' \union Own
  <2>1. /\ listing'.at = nginx80.at => Alive(listing)' = Alive(nginx80)
        /\ listing'.at = listing.at => Alive(listing)' = Alive(listing)
    BY DEF Alive
  <2>2. param.ids # {} => ids \subseteq Alive(listing) \union Own
    BY <1>4 DEF ListKept
  <2>3. QED  BY <1>2, <1>4, <2>1, <2>2
<1>7. Lists(ids, kept)
  <2> HIDE DEF kept
  <2>1. QED  BY <1>2, <1>3, <1>4, <1>5, <1>6 DEF Lists
<1>8. QED  BY <1>7

\* The list is kept so on every step.
LEMMA ListKeptStep ==
  ASSUME ListKept, StatNext
  PROVE  ListKept'
<1>1. CASE Pass
  <2>1. PICK ids, kept : Lists(ids, kept)
    BY <1>1, PassLists
  <2>2. nginx80' = nginx80 /\ {"cpu", "sys", "tcp", "connected"} \subseteq DOMAIN info'
    BY <1>1 DEF Pass
  <2>3. param'.ids \subseteq Alive(listing)' \union Own
    BY <2>1 DEF Lists
  <2>4. listing'.gone \subseteq param'.ids
    <3>1. listing.gone \subseteq param.ids /\ listing.gone \cap Alive(nginx80) = {}
      BY GoneIsGone DEF ListKept
    <3>2. param.ids # {} => listing.gone \subseteq kept
      BY <2>1, <3>1 DEF Lists
    <3>3. ids \ Alive(nginx80) \subseteq kept /\ param'.ids = kept
      BY <2>1 DEF Lists
    <3>4. QED  BY <2>1, <3>2, <3>3 DEF Lists
  <2>5. ASSUME NEW x \in listing'.gone
        PROVE  x \in Own \/ nginx80.at > listing'.at
    <3>1. CASE param.ids = {}
      <4>1. x \in ids \ Alive(nginx80) /\ ids \subseteq Alive(nginx80) \union Own
        BY <2>1, <2>5, <3>1 DEF Lists
      <4>2. QED  BY <4>1
    <3>2. CASE param.ids # {}
      <4>1. listing'.at = listing.at /\ ids = param.ids /\ x \in listing.gone \union (ids \ Alive(nginx80))
        BY <2>1, <2>5, <3>2 DEF Lists
      <4>2. CASE x \in listing.gone
        BY <4>1, <4>2 DEF ListKept
      <4>3. CASE x \in ids \ Alive(nginx80) /\ x \notin Own
        <5>1. x \in Alive(listing)
          BY <4>1, <4>3 DEF ListKept
        <5>2. Alive(listing) # Alive(nginx80)
          BY <4>3, <5>1
        <5>3. nginx80.at # listing.at
          BY <5>2 DEF Alive
        <5>4. QED  BY <4>1, <5>3 DEF ListKept
      <4>4. QED  BY <4>1, <4>2, <4>3
    <3>3. QED  BY <3>1, <3>2
  <2>6. listing'.at \in 0 .. nginx80.at
    BY <2>1 DEF Lists
  <2>7. QED  BY <2>2, <2>3, <2>4, <2>5, <2>6 DEF ListKept
<1>2. CASE Dies \/ CpuRuns \/ CardRuns
  <2>1. nginx80' = nginx80 /\ param' = param /\ listing' = listing /\ DOMAIN info' = DOMAIN info
    BY <1>2 DEF Dies, CpuRuns, CardRuns, Changes
  <2>2. QED  BY <2>1 DEF ListKept, Alive
<1>3. CASE NginxReloads \/ Connects80
  <2>1. param' = param /\ listing' = listing /\ info' = info
    BY <1>3 DEF NginxReloads, Connects80, Changes
  <2>2. /\ nginx80' = [at |-> nginx80'.at, established |-> nginx80'.established]
        /\ nginx80'.at \in {nginx80.at, nginx80.at + 1} /\ nginx80'.at \in 0 .. Len(Workers)
        /\ nginx80'.established \in Nat
    <3>1. CASE NginxReloads
      <4>1. nginx80' = [at |-> nginx80.at + 1, established |-> nginx80.established] /\ nginx80.at < Len(Workers)
        BY <3>1 DEF NginxReloads, ListKept
      <4>2. Len(Workers) \in Nat /\ nginx80.at \in 0 .. Len(Workers) /\ nginx80.established \in Nat
        BY DevStatAssumption DEF ListKept
      <4>3. QED  BY <4>1, <4>2
    <3>2. CASE Connects80
      <4>1. PICK n \in 0 .. 2 : nginx80' = [nginx80 EXCEPT !.established = n]
        BY <3>2 DEF Connects80
      <4>2. nginx80' = [at |-> nginx80.at, established |-> n]
        BY <4>1 DEF ListKept
      <4>3. QED  BY <4>2 DEF ListKept
    <3>3. QED  BY <1>3, <3>1, <3>2
  <2>3. listing.at \in 0 .. nginx80'.at /\ (nginx80.at > listing.at => nginx80'.at > listing.at)
    BY <2>2, DevStatAssumption DEF ListKept
  <2>4. QED  BY <2>1, <2>2, <2>3 DEF ListKept, Alive
<1>4. QED  BY <1>1, <1>2, <1>3 DEF StatNext
\* Only a pass counts connections.
LEMMA TcpRightStep ==
  ASSUME ListKept, TcpRight, StatNext
  PROVE  TcpRight'
<1>1. listing'.gone \subseteq param'.ids
  BY ListKeptStep DEF ListKept
<1>2. CASE Pass
  <2>1. PICK ids, kept : Lists(ids, kept)
    BY <1>2, PassLists
  <2>2. met' = nginx80
    BY <1>2 DEF Pass
  <2>3. nginx80.at \in 0 .. Len(Workers) /\ listing.at \in 0 .. Len(Workers) /\ nginx80.established \in Nat
    BY DevStatAssumption DEF ListKept
  <2>4. IsFiniteSet(Alive(nginx80)) /\ Alive(nginx80) \cap Own = {}
        /\ (nginx80.at # listing.at => Alive(nginx80) \cap Alive(listing) = {})
    BY <2>3, WorkersApart
  <2>5. Cardinality(ids \cap Alive(nginx80)) \in Nat /\ Cardinality({}) = 0
    <3>1. ids \cap Alive(nginx80) \subseteq Alive(nginx80)
      OBVIOUS
    <3>2. IsFiniteSet(ids \cap Alive(nginx80))
      BY <2>4, <3>1, FS_Subset
    <3>3. QED  BY <3>2, FS_CardinalityType, FS_EmptySet
  <2>6. ASSUME info'.connected
        PROVE  info'.tcp = Cardinality(param'.ids \cap Alive(nginx80)) * nginx80.established
    <3>1. ~Few(ids) /\ info'.tcp = Cardinality(ids \cap Alive(nginx80)) * nginx80.established
          /\ param'.ids = kept
      BY <2>1, <2>6 DEF Lists, Tcp
    <3>2. CASE nginx80.established > 0
      <4>1. kept = ids
        BY <2>1, <3>2 DEF Lists
      <4>2. QED  BY <3>1, <4>1
    <3>3. CASE nginx80.established = 0
      <4>1. kept = ids \ Alive(nginx80)
        BY <2>1, <3>1, <3>3 DEF Lists
      <4>2. kept \cap Alive(nginx80) = {}
        BY <4>1
      <4>3. info'.tcp = 0
        BY <2>5, <3>1, <3>3
      <4>4. Cardinality(kept \cap Alive(nginx80)) = 0
        BY <2>5, <4>2
      <4>5. QED  BY <3>1, <3>3, <4>3, <4>4
    <3>4. QED  BY <2>3, <3>2, <3>3
  <2>7. ASSUME listing'.gone # {}, nginx80.at > listing'.at
        PROVE  info'.connected /\ info'.tcp = 0
    <3>1. param.ids # {}
      BY <2>1, <2>3, <2>7 DEF Lists
    <3>2. ids = param.ids /\ listing'.at = listing.at /\ ~Few(ids) /\ param'.ids = kept
      BY <2>1, <3>1 DEF Lists
    <3>3. kept # {}
      BY <1>1, <2>7, <3>2
    <3>4. nginx80.at # listing.at
      BY <2>3, <2>7, <3>2
    <3>5. ids \subseteq Alive(listing) \union Own
      BY <3>2 DEF ListKept
    <3>6. ids \cap Alive(nginx80) = {}
      BY <2>4, <3>4, <3>5
    <3>7. Cardinality(ids \cap Alive(nginx80)) = 0
      BY <2>5, <3>6
    <3>8. info'.tcp = Cardinality(ids \cap Alive(nginx80)) * nginx80.established
      BY <2>1, <3>2 DEF Lists, Tcp
    <3>9. info'.tcp = 0
      BY <2>3, <3>7, <3>8
    <3>10. info'.connected
      BY <2>1, <3>2, <3>3 DEF Lists
    <3>11. QED  BY <3>9, <3>10
  <2>8. Alive(met)' = Alive(nginx80)
    BY <2>2 DEF Alive
  <2>9. QED  BY <1>1, <2>2, <2>6, <2>7, <2>8 DEF TcpRight
<1>3. CASE Dies \/ CpuRuns \/ CardRuns \/ NginxReloads \/ Connects80
  <2>1. met' = met /\ param' = param /\ listing' = listing
    BY <1>3 DEF Dies, CpuRuns, CardRuns, NginxReloads, Connects80, Changes
  <2>2. info'.tcp = info.tcp /\ info'.connected = info.connected
    BY <1>3 DEF Dies, CpuRuns, CardRuns, NginxReloads, Connects80, Changes, ListKept
  <2>3. QED  BY <2>1, <2>2 DEF TcpRight, Alive
<1>4. QED  BY <1>2, <1>3 DEF StatNext

\* The start.
LEMMA ListStart ==
  ASSUME StatInit
  PROVE  ListKept /\ TcpRight
<1>1. /\ nginx80 = [at |-> 0, established |-> 0] /\ met = nginx80
      /\ param.ids = {} /\ listing.at = 0 /\ listing.gone = {} /\ info.connected = FALSE
  BY DEF StatInit, NoNginx
<1>2. {"cpu", "sys", "tcp", "connected"} \subseteq DOMAIN info
  BY DEF StatInit
<1>3. Len(Workers) \in Nat
  BY DevStatAssumption
<1>4. QED  BY <1>1, <1>2, <1>3 DEF ListKept, TcpRight

\* pids, do_tcp, tcps: the connections of a pass are those of the machine, once
\* for each listed process that is there; a process once found gone is listed
\* for ever, and from the next reload of nginx on nothing is counted any more.
THEOREM GoneStaysListed == StatInit /\ [][StatNext]_statVars => []TcpRight
<1>1. StatInit => ListKept /\ TcpRight
  BY ListStart
<1>2. ListKept /\ TcpRight /\ [StatNext]_statVars => ListKept' /\ TcpRight'
  <2> SUFFICES ASSUME ListKept, TcpRight, [StatNext]_statVars
               PROVE  ListKept' /\ TcpRight'
    OBVIOUS
  <2>1. CASE StatNext
    BY <2>1, ListKeptStep, TcpRightStep
  <2>2. CASE UNCHANGED statVars
    BY <2>2 DEF statVars, ListKept, TcpRight, Alive
  <2>3. QED  BY <2>1, <2>2
<1>3. QED  BY <1>1, <1>2, PTL
-----------------------------------------------------------------------------
\* What the first n cards make of the figures, as a function of their number.
Collecting(g, n) ==
  g = [i \in 0 .. n |->
         IF i = 0 THEN [last |-> param.last, out |-> info.out, sum |-> counted]
         ELSE Collects(g[i - 1], Cards[i])]

\* There is one for every number of cards, and Collected is it.
LEMMA CollectedIs == Collecting(Collected, Len(Cards))
<1>1. Len(Cards) \in Nat
  BY DevStatAssumption
<1> DEFINE base == [last |-> param.last, out |-> info.out, sum |-> counted]
           T == {n \in Nat : ~ \E g : Collecting(g, n)}
<1>2. T = {}
  <2> SUFFICES ASSUME T # {}  PROVE FALSE
    OBVIOUS
  <2>1. PICK n \in T : \A y \in T : n <= y
    <3>1. T \subseteq Nat
      OBVIOUS
    <3> HIDE DEF T
    <3>2. QED  BY <3>1, LeastMember
  <2>2. n # 0
    <3>1. SUFFICES ASSUME n = 0  PROVE \E g : Collecting(g, n)
      OBVIOUS
    <3>2. Collecting([i \in 0 .. 0 |-> base], 0)
      BY DEF Collecting
    <3>3. QED  BY <3>1, <3>2
  <2>3. n - 1 \in Nat /\ n - 1 \notin T
    BY <2>1, <2>2
  <2>4. PICK g : Collecting(g, n - 1)
    BY <2>3
  <2> DEFINE h == [i \in 0 .. n |-> IF i < n THEN g[i] ELSE Collects(g[n - 1], Cards[n])]
  <2>5. g = [i \in 0 .. n - 1 |-> IF i = 0 THEN base ELSE Collects(g[i - 1], Cards[i])]
    BY <2>4 DEF Collecting
  <2>6. ASSUME NEW i \in 0 .. n
        PROVE  h[i] = IF i = 0 THEN base ELSE Collects(h[i - 1], Cards[i])
    <3>1. n \in Nat \ {0}
      BY <2>1, <2>2
    <3>2. CASE i = 0
      <4>1. h[i] = g[0] /\ g[0] = base
        BY <2>5, <3>1, <3>2
      <4>2. QED  BY <3>2, <4>1
    <3>3. CASE i # 0 /\ i < n
      <4>1. i \in 0 .. n - 1 /\ i - 1 \in 0 .. n /\ i - 1 < n
        BY <3>1, <3>3
      <4>2. h[i] = g[i] /\ h[i - 1] = g[i - 1]
        BY <3>3, <4>1
      <4>3. g[i] = Collects(g[i - 1], Cards[i])
        BY <2>5, <3>3, <4>1
      <4>4. QED  BY <3>3, <4>2, <4>3
    <3>4. CASE i = n
      <4>1. n - 1 \in 0 .. n /\ n - 1 < n
        BY <3>1
      <4>2. h[n - 1] = g[n - 1] /\ h[n] = Collects(g[n - 1], Cards[n])
        BY <3>1, <4>1
      <4>3. QED  BY <3>1, <3>4, <4>2
    <3>5. QED  BY <3>1, <3>2, <3>3, <3>4
  <2>7. h = [i \in 0 .. n |-> IF i = 0 THEN base ELSE Collects(h[i - 1], Cards[i])]
    <3> DEFINE k == [i \in 0 .. n |-> IF i = 0 THEN base ELSE Collects(h[i - 1], Cards[i])]
    <3>1. h = [i \in 0 .. n |-> h[i]]
      OBVIOUS
    <3>2. \A i \in 0 .. n : h[i] = k[i]
      <4> HIDE DEF h
      <4>1. QED  BY <2>6
    <3> HIDE DEF h, k
    <3>3. k = [i \in 0 .. n |-> k[i]]
      BY DEF k
    <3>4. h = k
      BY <3>1, <3>2, <3>3
    <3>5. QED  BY <3>4 DEF k
  <2>8. Collecting(h, n)
    BY <2>7 DEF Collecting
  <2> HIDE DEF h
  <2>9. QED  BY <2>1, <2>8
<1>3. \E g : Collecting(g, Len(Cards))
  BY <1>1, <1>2
<1>4. QED  BY <1>3 DEF Collecting, Collected
\* Whether no card but c has any traffic, and what is so of the figures then.
OnlyCard(c) == \A d \in Card \ {c} : kernel.net[d] = [recv |-> 0, sent |-> 0]
Figured(acc) ==
  /\ acc.last \in Nat /\ acc.sum \in Nat
  /\ \A c \in Card : OnlyCard(c) => acc.sum = acc.last /\ acc.last <= kernel.net[c].sent

NetKept ==
  /\ kernel = [cpu |-> kernel.cpu, net |-> kernel.net]
  /\ kernel.net \in [Card -> [recv : Nat, sent : Nat]]
  /\ param.last \in Nat /\ counted \in Nat
  /\ NetRight

\* One card more.
LEMMA CollectsFigured ==
  ASSUME NetKept, NEW acc, NEW card \in Card, Figured(acc)
  PROVE  Figured(Collects(acc, card))
<1> DEFINE n == kernel.net[card]
<1>1. n \in [recv : Nat, sent : Nat] /\ acc.last \in Nat /\ acc.sum \in Nat
  BY DEF NetKept, Figured
<1>2. CASE (n.recv = 0 /\ n.sent = 0) \/ n.recv < acc.last \/ n.sent < acc.last
  <2>1. Collects(acc, card) = acc
    BY <1>2 DEF Collects
  <2>2. QED  BY <2>1
<1>3. CASE ~ ((n.recv = 0 /\ n.sent = 0) \/ n.recv < acc.last \/ n.sent < acc.last)
  <2>1. Collects(acc, card) = [last |-> n.sent, out |-> n.sent - acc.last, sum |-> acc.sum + n.sent - acc.last]
    BY <1>3 DEF Collects
  <2> DEFINE new == Collects(acc, card)
  <2>2. new.last = n.sent /\ new.sum = acc.sum + n.sent - acc.last
    BY <2>1
  <2>3. n.sent \in Nat /\ n.recv \in Nat /\ n.sent >= acc.last
    BY <1>1, <1>3
  <2>4. n # [recv |-> 0, sent |-> 0]
    BY <1>3
  <2> HIDE DEF new
  <2>5. new.last \in Nat /\ new.sum \in Nat
    <3> DEFINE m == n.sent
    <3>1. m \in Nat /\ m >= acc.last /\ new.last = m /\ new.sum = acc.sum + m - acc.last
      BY <2>2, <2>3
    <3> HIDE DEF m
    <3>2. QED  BY <1>1, <3>1
  <2>6. ASSUME NEW c \in Card, OnlyCard(c)
        PROVE  new.sum = new.last /\ new.last <= kernel.net[c].sent
    <3>1. c = card
      BY <2>4, <2>6 DEF OnlyCard
    <3>2. acc.sum = acc.last
      BY <2>6 DEF Figured
    <3> DEFINE m == n.sent
    <3>3. m \in Nat /\ m >= acc.last /\ new.last = m /\ new.sum = acc.sum + m - acc.last
          /\ kernel.net[c].sent = m
      BY <2>2, <2>3, <3>1
    <3> HIDE DEF m
    <3>4. QED  BY <1>1, <3>2, <3>3
  <2>7. Figured(new)
    BY <2>5, <2>6 DEF Figured
  <2>8. QED  BY <2>7 DEF new
<1>4. QED  BY <1>2, <1>3

\* All of them.
LEMMA NetFigured ==
  ASSUME NetKept
  PROVE  Figured(Net)
<1>1. Len(Cards) \in Nat /\ \A i \in 1 .. Len(Cards) : Cards[i] \in Card
  BY DevStatAssumption DEF Card
<1> DEFINE base == [last |-> param.last, out |-> info.out, sum |-> counted]
<1>2. /\ Collected[0] = base
      /\ \A i \in 1 .. Len(Cards) : Collected[i] = Collects(Collected[i - 1], Cards[i])
  <2>1. Collected = [i \in 0 .. Len(Cards) |->
                       IF i = 0 THEN base ELSE Collects(Collected[i - 1], Cards[i])]
    BY CollectedIs DEF Collecting
  <2>2. 0 \in 0 .. Len(Cards) /\ \A i \in 1 .. Len(Cards) : i \in 0 .. Len(Cards) /\ i # 0
    BY <1>1
  <2> HIDE DEF base
  <2>3. Collected[0] = base
    BY <2>1, <2>2
  <2>4. ASSUME NEW i \in 1 .. Len(Cards)
        PROVE  Collected[i] = Collects(Collected[i - 1], Cards[i])
    BY <2>1, <2>2
  <2>5. QED  BY <2>3, <2>4
<1> DEFINE T == {n \in 0 .. Len(Cards) : ~ Figured(Collected[n])}
<1>3. Figured(base)
  BY DEF Figured, NetKept, NetRight, OnlyCard
<1>4. T = {}
  <2> SUFFICES ASSUME T # {}  PROVE FALSE
    OBVIOUS
  <2>1. PICK n \in T : \A y \in T : n <= y
    <3>1. T \subseteq Nat
      BY <1>1
    <3> HIDE DEF T
    <3>2. QED  BY <3>1, LeastMember
  <2>2. n \in 0 .. Len(Cards) /\ ~ Figured(Collected[n]) /\ n # 0
    BY <1>2, <1>3, <2>1
  <2>3. n \in 1 .. Len(Cards) /\ n - 1 \in 0 .. Len(Cards) /\ n - 1 < n
    BY <1>1, <2>2
  <2>4. Figured(Collected[n - 1])
    <3>1. n - 1 \notin T
      BY <1>1, <2>1, <2>3
    <3>2. QED  BY <2>3, <3>1
  <2>5. Figured(Collected[n])
    BY <1>1, <1>2, <2>3, <2>4, CollectsFigured
  <2>6. QED  BY <2>2, <2>5
<1>5. QED  BY <1>1, <1>4 DEF Net

\* On every step.
LEMMA NetKeptStep ==
  ASSUME NetKept, StatNext
  PROVE  NetKept'
<1>1. CASE Pass
  <2>1. kernel' = kernel /\ param'.last = Net.last /\ counted' = Net.sum
    BY <1>1 DEF Pass
  <2>2. Figured(Net)
    BY NetFigured
  <2>3. NetRight'
    BY <2>1, <2>2 DEF Figured, NetRight, OnlyCard
  <2>4. QED  BY <2>1, <2>2, <2>3 DEF NetKept, Figured
<1>2. CASE CardRuns
  <2>1. PICK c \in Card, b \in Bytes :
          kernel' = [kernel EXCEPT !.net[c] = [f \in DOMAIN b |-> kernel.net[c][f] + b[f]]]
    BY <1>2 DEF CardRuns
  <2>2. b \in [recv : Nat, sent : Nat] /\ kernel.net[c] \in [recv : Nat, sent : Nat]
    BY DevStatAssumption DEF NetKept
  <2> DEFINE new == [f \in DOMAIN b |-> kernel.net[c][f] + b[f]]
  <2>3. new = [recv |-> kernel.net[c].recv + b.recv, sent |-> kernel.net[c].sent + b.sent]
    BY <2>2
  <2> HIDE DEF new
  <2>4. kernel' = [kernel EXCEPT !.net = [kernel.net EXCEPT ![c] = new]]
    BY <2>1 DEF new
  <2>5. kernel' = [cpu |-> kernel.cpu, net |-> [kernel.net EXCEPT ![c] = new]]
    BY <2>4 DEF NetKept
  <2>6. kernel'.net = [kernel.net EXCEPT ![c] = new] /\ kernel' = [cpu |-> kernel'.cpu, net |-> kernel'.net]
    BY <2>5
  <2>7. param' = param /\ counted' = counted
    BY <1>2 DEF CardRuns, Changes
  <2>8. /\ kernel.net[c].recv \in Nat /\ kernel.net[c].sent \in Nat /\ b.recv \in Nat /\ b.sent \in Nat
        /\ new.recv = kernel.net[c].recv + b.recv /\ new.sent = kernel.net[c].sent + b.sent
    BY <2>2, <2>3
  <2>9. new.recv \in Nat /\ new.sent \in Nat /\ new.sent >= kernel.net[c].sent
        /\ (new.recv = 0 /\ new.sent = 0 => kernel.net[c].recv = 0 /\ kernel.net[c].sent = 0)
    <3>1. \A i, j, m, l \in Nat : m + l \in Nat /\ m + l >= m /\ (i + j = 0 => i = 0)
      OBVIOUS
    <3>2. new.recv \in Nat /\ new.sent \in Nat /\ new.sent >= kernel.net[c].sent
      BY <2>8, <3>1
    <3>3. ASSUME new.recv = 0, new.sent = 0
          PROVE  kernel.net[c].recv = 0 /\ kernel.net[c].sent = 0
      BY <2>8, <3>1, <3>3
    <3>4. QED  BY <3>2, <3>3
  <2>10. new \in [recv : Nat, sent : Nat]
    BY <2>3, <2>8, <2>9
  <2>11. kernel'.net \in [Card -> [recv : Nat, sent : Nat]]
    BY <2>6, <2>10 DEF NetKept
  <2>12. ASSUME NEW e \in Card, \A d \in Card \ {e} : kernel'.net[d] = [recv |-> 0, sent |-> 0]
         PROVE  counted' = param'.last /\ param'.last <= kernel'.net[e].sent
    <3>1. ASSUME NEW d \in Card \ {e}
          PROVE  kernel.net[d] = [recv |-> 0, sent |-> 0]
      <4>1. kernel'.net[d] = [recv |-> 0, sent |-> 0]
        BY <2>12
      <4>2. CASE d = c
        <5>1. new.recv = 0 /\ new.sent = 0
          BY <2>6, <4>1, <4>2 DEF NetKept
        <5>2. kernel.net[c].recv = 0 /\ kernel.net[c].sent = 0
          BY <2>9, <5>1
        <5>3. kernel.net[c] = [recv |-> kernel.net[c].recv, sent |-> kernel.net[c].sent]
          BY <2>2
        <5>4. QED  BY <4>2, <5>2, <5>3
      <4>3. CASE d # c
        BY <2>6, <4>1, <4>3 DEF NetKept
      <4>4. QED  BY <4>2, <4>3
    <3>2. counted = param.last /\ param.last <= kernel.net[e].sent
      BY <3>1 DEF NetKept, NetRight
    <3>3. kernel'.net[e] = IF e = c THEN new ELSE kernel.net[e]
      BY <2>6 DEF NetKept
    <3>4. kernel.net[e] \in [recv : Nat, sent : Nat]
      BY DEF NetKept
    <3>5. kernel'.net[e].sent \in Nat /\ kernel'.net[e].sent >= kernel.net[e].sent /\ kernel.net[e].sent \in Nat
      BY <2>9, <3>3, <3>4
    <3>6. param.last \in Nat
      BY DEF NetKept
    <3>7. QED  BY <2>7, <3>2, <3>5, <3>6
  <2>13. NetRight'
    BY <2>12 DEF NetRight
  <2>14. QED  BY <2>6, <2>7, <2>11, <2>13 DEF NetKept
<1>3. CASE Dies \/ CpuRuns \/ NginxReloads \/ Connects80
  <2>1. param' = param /\ counted' = counted
    BY <1>3 DEF Dies, CpuRuns, NginxReloads, Connects80, Changes
  <2>2. kernel' = [cpu |-> kernel'.cpu, net |-> kernel.net]
    <3>1. CASE CpuRuns
      <4>1. \E t : kernel' = [kernel EXCEPT !.cpu = t]
        BY <3>1 DEF CpuRuns
      <4>2. QED  BY <4>1 DEF NetKept
    <3>2. CASE Dies \/ NginxReloads \/ Connects80
      <4>1. kernel' = kernel
        BY <3>2 DEF Dies, NginxReloads, Connects80, Changes
      <4>2. QED  BY <4>1 DEF NetKept
    <3>3. QED  BY <1>3, <3>1, <3>2
  <2>3. kernel'.net = kernel.net /\ kernel' = [cpu |-> kernel'.cpu, net |-> kernel'.net]
    BY <2>2
  <2>4. QED  BY <2>1, <2>3 DEF NetKept, NetRight
<1>4. QED  BY <1>1, <1>2, <1>3 DEF StatNext

\* The start.
LEMMA NetStart ==
  ASSUME StatInit
  PROVE  NetKept
<1>1. kernel = [cpu |-> NoTicks, net |-> [c \in Card |-> [recv |-> 0, sent |-> 0]]]
      /\ param.last = 0 /\ counted = 0
  BY DEF StatInit
<1>2. kernel.net = [c \in Card |-> [recv |-> 0, sent |-> 0]] /\ kernel = [cpu |-> kernel.cpu, net |-> kernel.net]
  BY <1>1
<1>3. NetRight
  BY <1>1, <1>2 DEF NetRight
<1>4. QED  BY <1>1, <1>2, <1>3 DEF NetKept

\* dev_stat_info: the rates are those of the pass, the bytes add up to those of
\* the one card that has any, the connections are those of the machine once for
\* each listed process that is there, and a process once found gone stays
\* listed, so that after a reload of nginx nothing is counted.
THEOREM ReportIsRight == StatInit /\ [][StatNext]_statVars => []FiguresRight
<1>1. StatInit => NetKept
  BY NetStart
<1>2. NetKept /\ [StatNext]_statVars => NetKept'
  <2> SUFFICES ASSUME NetKept, [StatNext]_statVars
               PROVE  NetKept'
    OBVIOUS
  <2>1. CASE StatNext
    BY <2>1, NetKeptStep
  <2>2. CASE UNCHANGED statVars
    BY <2>2 DEF statVars, NetKept, NetRight
  <2>3. QED  BY <2>1, <2>2
<1>3. NetKept => NetRight
  BY DEF NetKept
<1>4. CpuRight /\ NetRight /\ TcpRight => FiguresRight
  BY DEF FiguresRight
<1>5. QED  BY <1>1, <1>2, <1>3, <1>4, RatesAreOfThePass, GoneStaysListed, PTL
=============================================================================
