---------------------------- MODULE Modules_proofs ----------------------------
(***************************************************************************)
(* Proofs about the logs and the configuration (src/src/kits/logs and      *)
(* src/src/kits/module): ErrorLog and ConfigLoad.                          *)
(*                                                                         *)
(* Of ErrorLog: a worker never gets out of exit, the buffer never          *)
(* overflows, and the records come to disk in their order.                 *)
(*                                                                         *)
(* Of ConfigLoad, whatever lines the files have: a file that is accepted   *)
(* says what its lines tell, and the loads are accounted for.              *)
(***************************************************************************)
EXTENDS ErrorLog, ConfigLoad, FiniteSetTheorems, SequenceTheorems, WellFoundedInduction, TLAPS

-----------------------------------------------------------------------------
(* The worker never leaves.                                                  *)

\* Nobody interrupts the logging thread, so it is never done and the join of
\* its destructor never returns.
Joining == /\ rpc \in [Thread -> ThreadPoints] /\ interupt \in [Thread -> {FALSE}]
           /\ rpc[Log] # "done" /\ wpc # "exited"

LEMMA JoiningInit == Init => Joining
  BY LogAssumption DEF Init, ThreadInit, Joining, ThreadPoints

LEMMA JoiningStep == Joining /\ [Next]_vars => Joining'
<1> SUFFICES ASSUME Joining, [Next]_vars  PROVE Joining'
  OBVIOUS
<1> USE LogAssumption DEF Joining, ThreadPoints
<1>1. ~interupt[Log]
  OBVIOUS
<1>2. CASE Main
  <2>1. CASE InitProcess
    BY <2>1 DEF InitProcess, AddTask, Woken
  <2>2. CASE InitStarts
    BY <2>2 DEF InitStarts, StartThread, At
  <2>3. CASE WorkerExit \/ InitFails
    BY <2>3 DEF WorkerExit, InitFails, threadVars
  <2>5. CASE UseOfFreed
    BY <2>5 DEF UseOfFreed, threadVars
  <2>4. CASE JoinReturns
    BY <2>4 DEF JoinReturns, Joined
  <2> QED BY <1>2, <2>1, <2>2, <2>3, <2>4, <2>5 DEF Main
<1>3. CASE UNCHANGED <<threadVars, wpc, flag, freed>>
  BY <1>3 DEF threadVars
<1>4. CASE (Runner \/ WakeSpuriously(Log)) /\ UNCHANGED <<wpc, flag, freed, logVars>>
  <2>1. CASE TestInterupt(Log)
    BY <1>1, <1>4, <2>1 DEF TestInterupt, At
  <2>2. CASE EvaluatePredicate(Log) \/ Block(Log) \/ WakeSpuriously(Log)
    BY <1>4, <2>2 DEF EvaluatePredicate, Block, WakeSpuriously, At
  <2>3. CASE TakeTask(Log) \/ TakeNothing(Log)
    BY <1>4, <2>3 DEF TakeTask, TakeNothing, At
  <2>4. CASE PrintTaskEnds
    BY <1>4, <2>4 DEF PrintTaskEnds, FinishTask, At
  <2> QED BY <1>4, <2>1, <2>2, <2>3, <2>4 DEF Runner, ThreadStep
<1>5. CASE UNCHANGED vars
  BY <1>5 DEF vars, threadVars
<1> QED BY <1>2, <1>3, <1>4, <1>5 DEF Next

\* A worker that calls exit waits for its logging thread for ever: only a
\* signal that kills it ends it.
THEOREM WorkerNeverLeaves == Spec => []NeverLeaves
<1>1. Joining => NeverLeaves
  BY DEF Joining, NeverLeaves
<1> QED BY <1>1, JoiningInit, JoiningStep, PTL DEF Spec

-----------------------------------------------------------------------------
(* The buffer does not overflow.                                             *)

BufferOK == buffer \in [recs: Seq(Nat), used: Nat] /\ printed \in Nat /\ BufferFits

\* A remainder of a number below the divisor.
LEMMA ShortMod ==
  ASSUME NEW a \in Nat, NEW b \in Nat, a < b
  PROVE  a % b = a
  OBVIOUS

\* A record that is put in the buffer fits behind what is there.
LEMMA WriteFits ==
  ASSUME BufferOK, NEW len \in Lengths, WriteBuffer(len)
  PROVE  BufferOK'
<1>1. len \in Nat /\ len % SizeMod = len
  BY SizeAssumption, ShortMod
<1>2. CASE len + Slack > PageSize
  BY <1>1, <1>2, SizeAssumption DEF WriteBuffer, BufferOK, BufferFits, Capacity
<1>3. CASE len + Slack =< PageSize /\ len + Slack > Capacity - buffer.used
  BY <1>1, <1>3, SizeAssumption DEF WriteBuffer, BufferOK, BufferFits, Capacity
<1>4. CASE len + Slack =< PageSize /\ len + Slack =< Capacity - buffer.used
  BY <1>1, <1>4, SizeAssumption DEF WriteBuffer, BufferOK, BufferFits, Capacity
<1> QED BY <1>1, <1>2, <1>3, <1>4, SizeAssumption DEF BufferOK, Capacity

LEMMA BufferStep == BufferOK /\ [Next]_vars => BufferOK'
<1> SUFFICES ASSUME BufferOK, [Next]_vars  PROVE BufferOK'
  OBVIOUS
<1>1. CASE PrintWrites \/ HandlerWrites
  BY <1>1, WriteFits DEF PrintWrites, HandlerWrites
<1>2. CASE Flush
  BY <1>2, SizeAssumption DEF Flush, BufferOK, BufferFits, Capacity
<1>3. CASE UNCHANGED <<buffer, printed>>
  BY <1>3 DEF BufferOK, BufferFits
<1>4. CASE PrintLocks \/ SignalArrives \/ RoundStarts \/ HandlerLocks \/ UNCHANGED logVars \/ UNCHANGED vars
  BY <1>3, <1>4 DEF PrintLocks, SignalArrives, RoundStarts, HandlerLocks, logVars, vars
<1> QED BY <1>1, <1>2, <1>4 DEF Next, Writer, Rounds

\* Messages shorter than the u_short that carries their length never write
\* beyond the end of the buffer.
THEOREM BufferNeverOverflows == Spec => []BufferFits
<1>1. Init => BufferOK
  BY BufferAssumption DEF Init, BufferOK, BufferFits, Capacity
<1>2. BufferOK => BufferFits
  BY DEF BufferOK
<1> QED BY <1>1, <1>2, BufferStep, PTL DEF Spec

-----------------------------------------------------------------------------
(* The records come to disk in their order.                                  *)

\* Records up to the p-th, in order and none but 0 more than twice.
Sound(s, p) == s \in Seq(0..p) /\ Ordered(s) /\ TwiceAtMost(s)

\* What a sequence made of two has where.
LEMMA JoinedPlaces ==
  ASSUME NEW a \in Seq(Nat), NEW b \in Seq(Nat)
  PROVE  /\ a \o b \in Seq(Nat) /\ Len(a) \in Nat /\ Len(b) \in Nat
         /\ Len(a \o b) = Len(a) + Len(b)
         /\ \A i \in 1..Len(a) : (a \o b)[i] = a[i]
         /\ \A i \in 1..Len(b) : (a \o b)[Len(a) + i] = b[i]
  OBVIOUS

LEMMA JoinedTwice ==
  ASSUME NEW a \in Seq(Nat), NEW b \in Seq(Nat), NEW c \in Seq(Nat)
  PROVE  (a \o b) \o c = a \o (b \o c)
  BY ConcatAssociative, SMTT(30)

\* A sequence of numbers up to p, told by its members.
LEMMA UpTo ==
  ASSUME NEW s \in Seq(Nat), NEW p \in Nat
  PROVE  s \in Seq(0..p) <=> \A i \in 1..Len(s) : s[i] =< p
<1>1. ASSUME s \in Seq(0..p)  PROVE \A i \in 1..Len(s) : s[i] =< p
  BY <1>1, ElementOfSeq
<1>2. ASSUME \A i \in 1..Len(s) : s[i] =< p  PROVE s \in Seq(0..p)
  <2>1. Len(s) \in Nat /\ \A i \in 1..Len(s) : s[i] \in 0..p
    BY <1>2, ElementOfSeq
  <2>2. s \in [1..Len(s) -> 0..p]
    BY <2>1, LenProperties
  <2> QED BY <2>1, <2>2
<1> QED BY <1>1, <1>2

\* What is in order stays so when its start or its end goes.
LEMMA SoundParts ==
  ASSUME NEW a \in Seq(Nat), NEW b \in Seq(Nat), NEW p \in Nat, Sound(a \o b, p)
  PROVE  Sound(a, p) /\ Sound(b, p)
<1> DEFINE s == a \o b
<1>1. /\ s \in Seq(Nat) /\ Len(a) \in Nat /\ Len(b) \in Nat /\ Len(s) = Len(a) + Len(b)
      /\ \A i \in 1..Len(a) : s[i] = a[i]
      /\ \A i \in 1..Len(b) : s[Len(a) + i] = b[i]
  BY JoinedPlaces
<1>2. /\ \A i \in 1..Len(s) : s[i] =< p
      /\ \A i, j \in 1..Len(s) : i =< j => s[i] =< s[j]
      /\ \A i \in 1..(Len(s) - 2) : s[i] = s[i + 2] => s[i] = 0
  BY <1>1, UpTo DEF Sound, Ordered, TwiceAtMost
<1> HIDE DEF s
<1>3. Sound(a, p)
  <2>1. \A i \in 1..Len(a) : i \in 1..Len(s)
    BY <1>1
  <2>2. \A i \in 1..(Len(a) - 2) : i \in 1..(Len(s) - 2) /\ i \in 1..Len(a) /\ i + 2 \in 1..Len(a)
    <3>1. PICK n, m \in Nat : n = Len(a) /\ m = Len(b) /\ Len(s) = n + m
      BY <1>1
    <3>2. \A i \in 1..(n - 2) : i \in 1..(n + m - 2) /\ i \in 1..n /\ i + 2 \in 1..n
      OBVIOUS
    <3>3. QED  BY <3>1, <3>2
  <2>3. a \in Seq(0..p)
    BY <1>1, <1>2, <2>1, UpTo
  <2>4. Ordered(a)
    BY <1>1, <1>2, <2>1 DEF Ordered
  <2>5. TwiceAtMost(a)
    BY <1>1, <1>2, <2>2 DEF TwiceAtMost
  <2> QED BY <2>3, <2>4, <2>5 DEF Sound
<1>4. Sound(b, p)
  <2>1. \A i \in 1..Len(b) : Len(a) + i \in 1..Len(s)
    BY <1>1
  <2>2. \A i, j \in 1..Len(b) : i =< j => Len(a) + i =< Len(a) + j
    BY <1>1
  <2>3. \A i \in 1..(Len(b) - 2) : /\ Len(a) + i \in 1..(Len(s) - 2) /\ i \in 1..Len(b) /\ i + 2 \in 1..Len(b)
                                   /\ (Len(a) + i) + 2 = Len(a) + (i + 2)
    BY <1>1
  <2>4. b \in Seq(0..p)
    BY <1>1, <1>2, <2>1, UpTo
  <2>5. Ordered(b)
    BY <1>1, <1>2, <2>1, <2>2 DEF Ordered
  <2>6. TwiceAtMost(b)
    <3> SUFFICES ASSUME NEW i \in 1..(Len(b) - 2), b[i] = b[i + 2]  PROVE b[i] = 0
      BY DEF TwiceAtMost
    <3>1. s[Len(a) + i] = b[i] /\ s[(Len(a) + i) + 2] = b[i + 2]
      BY <1>1, <2>3
    <3> QED BY <1>2, <2>3, <3>1
  <2> QED BY <2>4, <2>5, <2>6 DEF Sound
<1> QED BY <1>3, <1>4

\* The next record may be added once or twice, or be counted and not added.
LEMMA SoundNext ==
  ASSUME NEW s \in Seq(Nat), NEW p \in Nat, Sound(s, p)
  PROVE  /\ Sound(s, p + 1)
         /\ Sound(s \o <<p + 1>>, p + 1)
         /\ Sound((s \o <<p + 1>>) \o <<p + 1>>, p + 1)
<1> DEFINE n == Len(s)  t == s \o <<p + 1>>  u == t \o <<p + 1>>
<1>1. /\ n \in Nat
      /\ \A i \in 1..n : s[i] =< p /\ s[i] \in Nat
      /\ \A i, j \in 1..n : i =< j => s[i] =< s[j]
      /\ \A i \in 1..(n - 2) : s[i] = s[i + 2] => s[i] = 0
  BY UpTo DEF Sound, Ordered, TwiceAtMost
<1>2. <<p + 1>> \in Seq(Nat) /\ Len(<<p + 1>>) = 1 /\ <<p + 1>>[1] = p + 1
  OBVIOUS
<1>3. t \in Seq(Nat) /\ Len(t) = n + 1 /\ (\A i \in 1..n : t[i] = s[i]) /\ t[n + 1] = p + 1
  <2>1. /\ t \in Seq(Nat) /\ Len(t) = n + 1 /\ \A i \in 1..n : t[i] = s[i]
        /\ \A i \in 1..1 : t[n + i] = <<p + 1>>[i]
    BY <1>2, JoinedPlaces
  <2> QED BY <1>2, <2>1
<1>4. u \in Seq(Nat) /\ Len(u) = n + 2 /\ (\A i \in 1..n : u[i] = s[i]) /\ u[n + 1] = p + 1 /\ u[n + 2] = p + 1
  <2> HIDE DEF t
  <2>1. /\ u \in Seq(Nat) /\ Len(u) = (n + 1) + 1 /\ \A i \in 1..(n + 1) : u[i] = t[i]
        /\ \A i \in 1..1 : u[(n + 1) + i] = <<p + 1>>[i]
    BY <1>2, <1>3, JoinedPlaces
  <2>2. (n + 1) + 1 = n + 2 /\ n + 1 \in 1..(n + 1) /\ \A i \in 1..n : i \in 1..(n + 1)
    BY <1>1
  <2>3. u[n + 2] = p + 1
    BY <1>2, <2>1, <2>2
  <2> HIDE DEF u
  <2> QED BY <1>3, <2>1, <2>2, <2>3
<1> HIDE DEF n, t, u
<1>5. Sound(s, p + 1)
  BY UpTo, <1>1 DEF Sound, n
<1>6. Sound(t, p + 1)
  <2>1. \A i \in 1..Len(t) : i \in 1..n \/ i = n + 1
    BY <1>1, <1>3
  <2>2. t \in Seq(0..(p + 1))
    <3>1. \A i \in 1..Len(t) : t[i] =< p + 1
      BY <1>1, <1>3, <2>1
    <3> QED BY <1>3, <3>1, UpTo
  <2>3. Ordered(t)
    BY <1>1, <1>3, <2>1 DEF Ordered
  <2>4. TwiceAtMost(t)
    <3> SUFFICES ASSUME NEW i \in 1..(n - 1), t[i] = t[i + 2]  PROVE t[i] = 0
      BY <1>1, <1>3 DEF TwiceAtMost
    <3>1. i \in 1..n /\ ((i \in 1..(n - 2) /\ i + 2 \in 1..n) \/ i + 2 = n + 1)
      BY <1>1
    <3> QED BY <1>1, <1>3, <3>1
  <2> QED BY <2>2, <2>3, <2>4 DEF Sound
<1>7. Sound(u, p + 1)
  <2>1. \A i \in 1..Len(u) : i \in 1..n \/ i = n + 1 \/ i = n + 2
    BY <1>1, <1>4
  <2>2. u \in Seq(0..(p + 1))
    <3>1. \A i \in 1..Len(u) : u[i] =< p + 1
      BY <1>1, <1>4, <2>1
    <3> QED BY <1>4, <3>1, UpTo
  <2>3. Ordered(u)
    <3> SUFFICES ASSUME NEW i \in 1..Len(u), NEW j \in 1..Len(u), i =< j  PROVE u[i] =< u[j]
      BY DEF Ordered
    <3>1. CASE i \in 1..n /\ j \in 1..n
      BY <1>1, <1>4, <3>1
    <3>2. CASE i \in 1..n /\ j \notin 1..n
      <4>1. u[i] = s[i] /\ s[i] =< p /\ s[i] \in Nat /\ u[j] = p + 1
        BY <1>1, <1>4, <2>1, <3>2
      <4> QED BY <4>1
    <3>3. CASE i \notin 1..n
      <4>1. u[i] = p + 1 /\ u[j] = p + 1
        BY <1>1, <1>4, <2>1, <3>3
      <4> QED BY <4>1
    <3> QED BY <3>1, <3>2, <3>3
  <2>4. TwiceAtMost(u)
    <3> SUFFICES ASSUME NEW i \in 1..n, u[i] = u[i + 2]  PROVE u[i] = 0
      BY <1>1, <1>4 DEF TwiceAtMost
    <3>1. (i \in 1..(n - 2) /\ i + 2 \in 1..n) \/ i + 2 = n + 1 \/ i + 2 = n + 2
      BY <1>1
    <3>2. CASE i \in 1..(n - 2) /\ i + 2 \in 1..n
      BY <1>1, <1>4, <3>2
    <3>3. CASE i + 2 = n + 1 \/ i + 2 = n + 2
      <4>1. u[i] = s[i] /\ s[i] =< p /\ u[i + 2] = p + 1 /\ s[i] \in Nat
        BY <1>1, <1>4, <3>3
      <4>2. s[i] = p + 1
        BY <4>1
      <4> QED BY <4>1, <4>2
    <3> QED BY <3>1, <3>2, <3>3
  <2> QED BY <2>2, <2>3, <2>4 DEF Sound
<1> QED BY <1>5, <1>6, <1>7 DEF t, u

\* What is in the file and the one kept before it.
Chain(d) == d.bak \o d.file
DiskType == [file: Seq(Nat), size: Nat, bak: Seq(Nat)]

\* A write adds at the end, may drop the start, or does nothing: what may
\* follow the written and the unwritten may follow the outcome.
LEMMA OutcomeSound ==
  ASSUME NEW d \in DiskType, NEW r \in Seq(Nat), NEW bytes \in Nat, NEW t \in Seq(Nat),
         NEW p \in Nat, NEW x \in Outcomes(d, r, bytes),
         Sound((Chain(d) \o r) \o t, p), Sound(Chain(d) \o t, p)
  PROVE  x \in DiskType /\ Sound(Chain(x) \o t, p)
<1>1. d.bak \in Seq(Nat) /\ d.file \in Seq(Nat) /\ d.size \in Nat
  BY DEF DiskType
<1>2. Chain(d) \in Seq(Nat)
  BY <1>1, ConcatProperties DEF Chain
<1>3. CASE x = d
  BY <1>3
<1>4. CASE x # d /\ d.size > MaxFile
  <2>1. x = [file |-> <<>>, size |-> 0, bak |-> d.file \o r]
    BY <1>4 DEF Outcomes, Written
  <2>2. d.file \o r \in Seq(Nat) /\ <<>> \in Seq(Nat) /\ (d.file \o r) \o t \in Seq(Nat)
    BY <1>1, ConcatProperties
  <2>3. Chain(x) = d.file \o r
    <3>1. x.bak = d.file \o r /\ x.file = <<>>
      BY <2>1
    <3> QED BY <2>2, <3>1, ConcatEmptySeq DEF Chain
  <2>4. (Chain(d) \o r) \o t = d.bak \o ((d.file \o r) \o t)
    <3>1. (d.bak \o d.file) \o r = d.bak \o (d.file \o r)
      <4>1. d.bak \in Seq(Nat) /\ d.file \in Seq(Nat) /\ r \in Seq(Nat)
        BY <1>1
      <4> QED BY ONLY <4>1, JoinedTwice, ZenonT(40)
    <3>2. (d.bak \o (d.file \o r)) \o t = d.bak \o ((d.file \o r) \o t)
      <4>1. d.bak \in Seq(Nat) /\ d.file \o r \in Seq(Nat) /\ t \in Seq(Nat)
        BY <1>1, <2>2
      <4>2. (d.bak \o (d.file \o r)) \o t = d.bak \o ((d.file \o r) \o t)
        BY ONLY <4>1, JoinedTwice, ZenonT(40)
      <4> QED BY <4>2
    <3> QED BY <3>1, <3>2 DEF Chain
  <2>5. Sound((d.file \o r) \o t, p)
    BY <1>1, <2>2, <2>4, SoundParts
  <2>6. x \in DiskType
    BY <2>1, <2>2 DEF DiskType
  <2> QED BY <2>3, <2>5, <2>6
<1>5. CASE x # d /\ ~(d.size > MaxFile)
  <2>1. x = [d EXCEPT !.file = @ \o r, !.size = @ + bytes]
    BY <1>5 DEF Outcomes, Written
  <2>2. d.file \o r \in Seq(Nat)
    BY <1>1, ConcatProperties
  <2>3. x = [file |-> d.file \o r, size |-> d.size + bytes, bak |-> d.bak]
    BY <2>1 DEF DiskType
  <2>4. x.bak = d.bak /\ x.file = d.file \o r
    BY <2>3
  <2>5. Chain(x) = Chain(d) \o r
    <3>1. (d.bak \o d.file) \o r = d.bak \o (d.file \o r)
      <4>1. d.bak \in Seq(Nat) /\ d.file \in Seq(Nat) /\ r \in Seq(Nat)
        BY <1>1
      <4> QED BY ONLY <4>1, JoinedTwice, ZenonT(40)
    <3> QED BY <2>4, <3>1 DEF Chain
  <2>6. x \in DiskType
    BY <1>1, <2>2, <2>3 DEF DiskType
  <2> QED BY <2>5, <2>6
<1> QED BY <1>3, <1>4, <1>5

DiskInv == disk \in DiskType /\ Sound(Chain(disk) \o buffer.recs, printed)

LEMMA DiskInvInit == Init => DiskInv
<1> SUFFICES ASSUME Init  PROVE DiskInv
  OBVIOUS
<1>1. disk = [file |-> <<>>, size |-> 0, bak |-> <<>>] /\ buffer = Inherited /\ printed = 0
  BY DEF Init
<1>2. disk.file = <<>> /\ disk.bak = <<>> /\ buffer.recs \in Seq({0})
  BY <1>1, BufferAssumption
<1>3. <<>> \in Seq(Nat) /\ buffer.recs \in Seq(Nat)
  BY <1>2, SeqMonotonic
<1>4. Chain(disk) \o buffer.recs = buffer.recs
  BY <1>2, <1>3, ConcatEmptySeq DEF Chain
<1>5. \A i \in 1..Len(buffer.recs) : buffer.recs[i] = 0
  BY <1>2, ElementOfSeq
<1>6. Sound(buffer.recs, 0)
  <2>1. buffer.recs \in Seq(0..0)
    <3>1. 0 \in Nat /\ \A i \in 1..Len(buffer.recs) : buffer.recs[i] =< 0
      BY <1>5
    <3> QED BY <1>3, <3>1, UpTo
  <2>2. Len(buffer.recs) \in Nat
    BY <1>3, LenProperties
  <2> QED BY <1>5, <2>1, <2>2 DEF Sound, Ordered, TwiceAtMost
<1>7. disk \in DiskType
  BY <1>1, <1>3 DEF DiskType
<1> QED BY <1>1, <1>4, <1>6, <1>7 DEF DiskInv

\* A record that is logged, wherever it goes, comes after those before it.
LEMMA WriteSound ==
  ASSUME BufferOK, DiskInv, NEW len \in Lengths, WriteBuffer(len)
  PROVE  DiskInv'
<1> DEFINE n == printed  rec == <<n + 1>>  c == Chain(disk)
           need == (len % SizeMod) + Slack
           full == need > Capacity - buffer.used
           long == need > PageSize
<1>1. n \in Nat /\ buffer.recs \in Seq(Nat) /\ rec \in Seq(Nat) /\ <<>> \in Seq(Nat)
      /\ disk \in DiskType /\ len + Prefix \in Nat /\ printed' = n + 1
  BY SizeAssumption DEF BufferOK, DiskInv, WriteBuffer
<1>2. c \in Seq(Nat) /\ c \o rec \in Seq(Nat) /\ (c \o rec) \o rec \in Seq(Nat)
  <2>1. disk.bak \in Seq(Nat) /\ disk.file \in Seq(Nat)
    BY <1>1 DEF DiskType
  <2> HIDE DEF rec
  <2> QED BY <1>1, <2>1, ConcatProperties DEF Chain
<1>3. Sound(c \o buffer.recs, n)
  BY DEF DiskInv
<1>4. Sound(c, n)
  BY <1>1, <1>2, <1>3, SoundParts
<1>5. Sound(c, n + 1) /\ Sound(c \o rec, n + 1) /\ Sound((c \o rec) \o rec, n + 1)
  BY <1>1, <1>2, <1>4, SoundNext
<1>6. Sound((c \o buffer.recs) \o rec, n + 1)
  <2>1. c \o buffer.recs \in Seq(Nat)
    BY <1>1, <1>2, ConcatProperties
  <2> QED BY <1>1, <1>3, <2>1, SoundNext
<1>7. PICK d \in IF full THEN Outcomes(disk, rec, len + Prefix) ELSE {disk} :
        disk' \in IF long THEN Outcomes(d, rec, len + Prefix) ELSE {d}
  BY DEF WriteBuffer
<1>8. buffer' = IF long THEN [recs |-> <<>>, used |-> 0]
                ELSE [recs |-> (IF full THEN <<>> ELSE buffer.recs) \o rec,
                      used |-> (IF full THEN 0 ELSE buffer.used) + len + Prefix]
  BY DEF WriteBuffer
<1> HIDE DEF n, rec, c, need, full, long
\* After the first write the record may still follow; after the second it is
\* the end.
<1>9. d \in DiskType /\ Sound(Chain(d) \o rec, n + 1) /\ Chain(d) \in Seq(Nat)
  <2>1. d \in DiskType /\ Sound(Chain(d) \o rec, n + 1)
    <3>1. CASE full
      <4>1. d \in Outcomes(disk, rec, len + Prefix)
        BY <1>7, <3>1
      <4>2. n + 1 \in Nat
        BY <1>1
      <4> QED BY <1>1, <1>5, <4>1, <4>2, OutcomeSound DEF c
    <3>2. CASE ~full
      BY <1>1, <1>5, <1>7, <3>2 DEF c
    <3> QED BY <3>1, <3>2
  <2>2. d.bak \in Seq(Nat) /\ d.file \in Seq(Nat)
    BY <2>1 DEF DiskType
  <2> QED BY <2>1, <2>2, ConcatProperties DEF Chain
<1>10. CASE long
  <2>1. buffer'.recs = <<>> /\ disk' \in Outcomes(d, rec, len + Prefix)
    BY <1>7, <1>8, <1>10
  <2>2. n + 1 \in Nat /\ Chain(d) \o rec \in Seq(Nat)
    BY <1>1, <1>9, ConcatProperties
  <2>3. (Chain(d) \o rec) \o <<>> = Chain(d) \o rec /\ Chain(d) \o <<>> = Chain(d)
    BY <1>9, <2>2, ConcatEmptySeq
  <2>4. Sound(Chain(d), n + 1)
    BY <1>1, <1>9, <2>2, SoundParts
  <2>5. disk' \in DiskType /\ Sound(Chain(disk') \o <<>>, n + 1)
    <3>1. Sound((Chain(d) \o rec) \o <<>>, n + 1) /\ Sound(Chain(d) \o <<>>, n + 1)
      BY <1>9, <2>3, <2>4
    <3> QED BY <1>1, <1>9, <2>1, <2>2, <3>1, OutcomeSound
  <2> QED BY <1>1, <2>1, <2>5 DEF DiskInv, Chain
<1>11. CASE ~long
  <2>1. disk' = d
    BY <1>7, <1>11
  <2>2. CASE full
    <3>1. buffer'.recs = <<>> \o rec
      BY <1>8, <1>11, <2>2
    <3>2. buffer'.recs = rec
      BY <1>1, <3>1, ConcatEmptySeq
    <3> QED BY <1>1, <1>9, <2>1, <3>2 DEF DiskInv, Chain
  <2>3. CASE ~full
    <3>1. buffer'.recs = buffer.recs \o rec /\ disk' = disk
      BY <1>7, <1>8, <1>11, <2>1, <2>3
    <3>2. (c \o buffer.recs) \o rec = c \o (buffer.recs \o rec)
      <4>1. c \in Seq(Nat) /\ buffer.recs \in Seq(Nat) /\ rec \in Seq(Nat)
        BY <1>1, <1>2
      <4> HIDE DEF c, rec
      <4> QED BY ONLY <4>1, JoinedTwice, ZenonT(40)
    <3> QED BY <1>1, <1>6, <3>1, <3>2 DEF DiskInv, Chain, c
  <2> QED BY <2>2, <2>3
<1> QED BY <1>10, <1>11

\* A flush moves what is buffered behind what is on disk, or loses it.
LEMMA FlushSound ==
  ASSUME BufferOK, DiskInv, Flush
  PROVE  DiskInv'
<1> DEFINE c == Chain(disk)  r == buffer.recs
<1>1. printed \in Nat /\ r \in Seq(Nat) /\ buffer.used \in Nat /\ disk \in DiskType
      /\ Sound(c \o r, printed) /\ <<>> \in Seq(Nat)
  BY DEF BufferOK, DiskInv
<1>2. disk' \in Outcomes(disk, r, buffer.used) /\ buffer'.recs = <<>> /\ printed' = printed
  BY DEF Flush
<1>3. c \in Seq(Nat) /\ c \o r \in Seq(Nat)
  <2>1. disk.bak \in Seq(Nat) /\ disk.file \in Seq(Nat)
    BY <1>1 DEF DiskType
  <2> QED BY <1>1, <2>1, ConcatProperties DEF Chain
<1> HIDE DEF c, r
<1>4. Sound(c, printed) /\ (c \o r) \o <<>> = c \o r /\ c \o <<>> = c
  BY <1>1, <1>3, SoundParts, ConcatEmptySeq
<1>5. disk' \in DiskType /\ Sound(Chain(disk') \o <<>>, printed)
  <2>1. Sound((Chain(disk) \o r) \o <<>>, printed) /\ Sound(Chain(disk) \o <<>>, printed)
    BY <1>1, <1>4 DEF c
  <2> QED BY <1>1, <1>2, <2>1, OutcomeSound
<1> QED BY <1>2, <1>5 DEF DiskInv, Chain

LEMMA DiskInvStep == BufferOK /\ DiskInv /\ [Next]_vars => DiskInv'
<1> SUFFICES ASSUME BufferOK, DiskInv, [Next]_vars  PROVE DiskInv'
  OBVIOUS
<1>1. CASE PrintWrites \/ HandlerWrites
  BY <1>1, WriteSound DEF PrintWrites, HandlerWrites
<1>2. CASE Flush
  BY <1>2, FlushSound
<1>3. CASE UNCHANGED <<buffer, disk, printed>>
  BY <1>3 DEF DiskInv, Chain
<1>4. CASE PrintLocks \/ SignalArrives \/ RoundStarts \/ HandlerLocks \/ UNCHANGED logVars \/ UNCHANGED vars
  BY <1>3, <1>4 DEF PrintLocks, SignalArrives, RoundStarts, HandlerLocks, logVars, vars
<1> QED BY <1>1, <1>2, <1>4 DEF Next, Writer, Rounds

\* Whatever the lengths of the messages, the size of the buffer and of the file,
\* and whether it can be opened, the records come to disk in the order in which
\* they were logged, and none more than twice.
THEOREM RecordsInOrder == Spec => []DiskOrdered
<1>1. DiskInv => DiskOrdered
  BY DEF DiskInv, DiskOrdered, Sound, Chain
<1>2. Init => BufferOK
  BY BufferAssumption DEF Init, BufferOK, BufferFits, Capacity
<1> QED BY <1>1, <1>2, DiskInvInit, DiskInvStep, BufferStep, PTL DEF Spec

-----------------------------------------------------------------------------
\* A set of numbers has a least member.
LEMMA LeastMember ==
  ASSUME NEW T, T \subseteq Nat, T # {}
  PROVE  \E x \in T : \A y \in T : x <= y
<1>1. IsWellFoundedOn(OpToRel(<, Nat), Nat)
  BY NatLessThanWellFounded
<1>2. PICK x \in T : \A y \in T : ~ (<<y, x>> \in OpToRel(<, Nat))
  BY <1>1, WFMin
<1>3. \A y \in T : x <= y
  <2>1. ASSUME NEW y \in T  PROVE x <= y
    <3>1. ~ (y < x)
      BY <1>2 DEF OpToRel
    <3>2. QED  BY <3>1
  <2>2. QED  BY <2>1
<1>4. QED  BY <1>3

\* A set of numbers below one of them has a greatest member.
LEMMA GreatestMember ==
  ASSUME NEW n \in Nat, NEW T, T \subseteq 0 .. n, T # {}
  PROVE  \E x \in T : \A y \in T : y <= x
<1> DEFINE D == {n - x : x \in T}
<1>1. D \subseteq Nat /\ D # {}
  OBVIOUS
<1>2. PICK d \in D : \A e \in D : d <= e
  BY <1>1, LeastMember
<1>3. PICK x \in T : d = n - x
  BY <1>2
<1>4. ASSUME NEW y \in T  PROVE y <= x
  <2>1. n - x <= n - y
    BY <1>2, <1>3
  <2>2. QED  BY <2>1
<1>5. QED  BY <1>4

(*****************************************************************************)
(* ConfigLoad: the configuration file.                                       *)
(*****************************************************************************)

Blocks == {"events", "nodes"}

\* What the last events block of a file says.
EventsTold(f) ==
  [use |-> IF \E i \in Told(f, "use") : Value(f, i) = "select" THEN "select" ELSE "unset",
   connections |-> IF Told(f, "worker_connections") = {} THEN Unset
                   ELSE Number(Value(f, Min(Told(f, "worker_connections"))))]

\* The block the next line of a file is in.
Here(f) == BlockOf(f, Len(f) + 1)

\* The open block is the last of its name, a nodes block that is not open is closed.
WellNested(f) ==
  /\ Here(f) \in Contexts
  /\ Here(f) # "main" => Opener(f, Len(f) + 1) = LastOf(Opening(f, Here(f)))
  /\ Opening(f, "nodes") # {} /\ Here(f) # "nodes" => ClosedNodes(f, FALSE)

DaemonTold(f) ==
  LET lines == Told(f, "daemon")
  IN IF lines = {} THEN Unset ELSE IF Value(f, Max(lines)) = "on" THEN 1 ELSE 0

\* worker_processes may be told once, with a number that is not 0.
WorkersTold(f, n) ==
  LET lines == Told(f, "worker_processes")
  IN \/ lines = {} /\ n = Unset
     \/ \E i \in lines : lines = {i} /\ n = Processes(Value(f, i)) /\ n # 0

PathTold(f) ==
  LET lines == ValuesTold(f, "edge_path")
  IN IF Here(f) = "nodes" \/ Opening(f, "nodes") = {} \/ lines # <<>> THEN lines ELSE <<"default">>

EventsSet(f) ==
  IF Here(f) = "events" \/ Opening(f, "events") = {} THEN EventsTold(f)
  ELSE WithDefaults(EventsTold(f))

\* What a load l has made of the lines of f.
Reads(l, f) ==
  /\ WellNested(f)
  /\ l.at = Here(f)
  /\ l.args = <<>> \/ (l.at # "main" /\ l.args = <<l.at>>)
  /\ l.blocks = {b \in Blocks : Opening(f, b) # {}}
  /\ l.daemon = DaemonTold(f)
  /\ WorkersTold(f, l.workers)
  /\ l.events = EventsSet(f)
  /\ l.events.connections # 0
  /\ l.path = PathTold(f)
ReadSoFar == Reads(load, linesRead)

\* The logs a load linked, and those of the loads that ended.
LogsOf(k, paths) == [i \in DOMAIN paths |-> [load |-> k, path |-> paths[i]]]
Logged(p) == FlattenSeq([k \in DOMAIN p |-> LogsOf(k, p[k].logs)])

Failures(p) == {k \in DOMAIN p : ~ p[k].ok}
LastNodes(p) == LastOf({k \in DOMAIN p : p[k].nodes})

Accounts ==
  /\ destroyed = Failures(past)
  /\ root.load = LastOf(DOMAIN past \ Failures(past))
  /\ \A k \in DOMAIN past : past[k].ok => past[k].nodes
  /\ root.load > 0 => (root.connections = 0 <=> root.load < loads)
  /\ load = AtRest =>
       loads = Len(past) /\ logsRoot = Logged(past) /\ manager = LastNodes(past)
  /\ load # AtRest =>
       /\ loads = Len(past) + 1
       /\ logsRoot = Logged(past) \o LogsOf(loads, ValuesTold(linesRead, "error_log"))
       /\ manager = IF ClosedNodes(linesRead, FALSE) THEN loads ELSE LastNodes(past)

\* The provers do not know of a literal that it is a STRING.
Words == STRING \union {"events", "nodes", "default"}
EventsType == [use : {"unset", "select", "epoll"}, connections : Int]
LoadType == [at : Contexts \union {"rest"}, args : Seq(Words), daemon : {Unset, 0, 1},
             workers : Int, events : EventsType, path : Seq(Words), blocks : SUBSET Blocks]
RootType == [load : Nat \ {0}, daemon : {0, 1}, workers : Int, use : {"unset", "select", "epoll"},
             connections : Int, path : Seq(Words)]
LogType == [load : Nat, path : STRING]
EndType == [ok : BOOLEAN, logs : Seq(STRING), nodes : BOOLEAN]

ConfigTypes ==
  /\ load \in LoadType /\ (load.at = "rest" => load = AtRest)
  /\ root = [load |-> 0] \/ root \in RootType
  /\ loads \in Nat
  /\ linesRead \in Seq(Lines)
  /\ past \in Seq(EndType)

ConfigInv ==
  /\ ConfigTypes
  /\ load # AtRest => ReadSoFar
  /\ AsWritten
  /\ Accounts

LEMMA MinIs ==
  ASSUME NEW S, S \subseteq Nat, S # {}
  PROVE  \E x \in S : Min(S) = x /\ \A y \in S : x <= y
<1>1. \E x \in S : \A y \in S : x =< y
  BY LeastMember
<1>2. Min(S) \in S /\ \A y \in S : Min(S) =< y
  BY <1>1 DEF Min
<1>3. QED  BY <1>2

LEMMA MaxIs ==
  ASSUME NEW n \in Nat, NEW S, S \subseteq 0 .. n, S # {}
  PROVE  \E x \in S : Max(S) = x /\ \A y \in S : y <= x
<1>1. PICK x \in S : \A y \in S : y <= x
  BY GreatestMember
<1>2. \A y \in S : x >= y
  BY <1>1
<1>3. Max(S) \in S /\ \A y \in S : Max(S) >= y
  BY <1>2 DEF Max
<1>4. PICK z \in S : z = Max(S)
  BY <1>3
<1>5. \A y \in S : z >= y
  BY <1>3, <1>4
<1>6. \A y \in S : y <= z
  BY <1>5
<1>7. QED  BY <1>4, <1>6

\* The greatest of a set is the number beyond it when that is put in.
LEMMA MaxBeyond ==
  ASSUME NEW n \in Nat, NEW S, S \subseteq 0 .. n
  PROVE  Max(S \union {n + 1}) = n + 1
<1>1. S \union {n + 1} \subseteq 0 .. n + 1 /\ S \union {n + 1} # {} /\ n + 1 \in Nat
  OBVIOUS
<1>2. PICK x \in S \union {n + 1} :
        Max(S \union {n + 1}) = x /\ \A y \in S \union {n + 1} : y <= x
  BY <1>1, MaxIs
<1>3. x = n + 1
  BY <1>2
<1>4. QED  BY <1>2, <1>3

\* The least of a set stays the least when the number beyond it is put in.
LEMMA MinBeyond ==
  ASSUME NEW n \in Nat, NEW S, S \subseteq 1 .. n
  PROVE  Min(S \union {n + 1}) = IF S = {} THEN n + 1 ELSE Min(S)
<1>1. S \union {n + 1} \subseteq Nat /\ S \union {n + 1} # {} /\ S \subseteq Nat
  OBVIOUS
<1>2. PICK x \in S \union {n + 1} :
        Min(S \union {n + 1}) = x /\ \A y \in S \union {n + 1} : x <= y
  BY <1>1, MinIs
<1>3. CASE S = {}
  <2>1. x = n + 1
    BY <1>3
  <2>2. QED  BY <1>2, <1>3, <2>1
<1>4. CASE S # {}
  <2>1. PICK z \in S : Min(S) = z /\ \A y \in S : z <= y
    BY <1>1, <1>4, MinIs
  <2>2. x = z
    BY <1>2, <2>1
  <2>3. QED  BY <1>2, <1>4, <2>1, <2>2
<1>5. QED  BY <1>3, <1>4

-----------------------------------------------------------------------------
\* A line is ended by one mark at most.
LEMMA EndsOnce ==
  ASSUME NEW line \in Seq(STRING), NEW p \in DOMAIN line, NEW q \in DOMAIN line,
         Ends(line, p), Ends(line, q)
  PROVE  p = q
<1>1. p \in Nat /\ q \in Nat /\ DOMAIN line = 1 .. Len(line) /\ Len(line) \in Nat
  OBVIOUS
<1>2. ~ (p \in 1 .. q - 1) /\ ~ (q \in 1 .. p - 1)
  BY DEF Ends
<1>3. QED  BY <1>1, <1>2

\* What read_token makes of a line is what the mark that ends it says.
LEMMA TokenIs ==
  ASSUME NEW line \in Seq(STRING), line # <<>>, NEW args
  PROVE  /\ line[1] = "#" => /\ ReadToken(line, args) = [args |-> args, mark |-> ";"]
                             /\ \A p \in DOMAIN line : ~ Ends(line, p)
         /\ line[1] # "#" /\ (\A p \in DOMAIN line : ~ Ends(line, p)) =>
              ReadToken(line, args) = [args |-> <<>>, mark |-> ";"]
         /\ \A p \in DOMAIN line : Ends(line, p) =>
              ReadToken(line, args) = [args |-> SubSeq(line, 1, p - 1), mark |-> line[p]]
<1> DEFINE hash == {i \in DOMAIN line : line[i] \in {"#", "_#"}}
           s == Sentence(line)
           at == {i \in DOMAIN s : s[i] \in Marks}
<1>1. 1 \in DOMAIN line /\ Len(line) \in Nat
      /\ (\A i \in DOMAIN line : i \in Nat /\ 1 <= i /\ i <= Len(line))
      /\ (\A i \in Nat : 1 <= i /\ i <= Len(line) => i \in DOMAIN line)
  OBVIOUS
\* The line is cut at its first "#".
<1>2. PICK cut \in Int :
        /\ cut <= Len(line) /\ s = SubSeq(line, 1, cut)
        /\ \A p \in DOMAIN line :
             p <= cut <=> \A h \in DOMAIN line : /\ line[h] = "#" => p < h - 1
                                                 /\ line[h] = "_#" => p < h
  <2>1. CASE hash = {}
    <3>1. line = SubSeq(line, 1, Len(line))
      OBVIOUS
    <3>2. s = SubSeq(line, 1, Len(line))
      BY <2>1, <3>1 DEF Sentence
    <3>3. \A h \in DOMAIN line : line[h] # "#" /\ line[h] # "_#"
      BY <2>1
    <3>4. Len(line) \in Int /\ \A p \in DOMAIN line : p <= Len(line)
      BY <1>1
    <3>5. QED  BY <3>2, <3>3, <3>4
  <2>2. CASE hash # {}
    <3>1. PICK m \in hash : Min(hash) = m /\ \A h \in hash : m <= h
      <4>1. hash \subseteq Nat
        BY <1>1
      <4>2. QED  BY <2>2, <4>1, MinIs
    <3> HIDE DEF hash
    <3>2. m \in Nat /\ m <= Len(line) /\ line[m] \in {"#", "_#"}
          /\ \A h \in DOMAIN line : line[h] \in {"#", "_#"} => m <= h
      BY <1>1, <3>1 DEF hash
    <3>3. CASE line[m] = "#"
      <4>1. s = SubSeq(line, 1, m - 2)
        BY <2>2, <3>1, <3>3 DEF Sentence, hash
      <4>2. ASSUME NEW p \in DOMAIN line, p <= m - 2, NEW h \in DOMAIN line
            PROVE  (line[h] = "#" => p < h - 1) /\ (line[h] = "_#" => p < h)
        <5>1. CASE line[h] \notin {"#", "_#"}
          BY <5>1
        <5>2. CASE line[h] \in {"#", "_#"}
          <6>1. m <= h /\ h \in Nat /\ p \in Nat
            BY <5>2, <3>2, <1>1
          <6>2. p < h - 1 /\ p < h
            BY <6>1, <4>2, <3>2
          <6>3. QED  BY <6>2
        <5>3. QED  BY <5>1, <5>2
      <4>3. ASSUME NEW p \in DOMAIN line,
                   \A h \in DOMAIN line : (line[h] = "#" => p < h - 1) /\ (line[h] = "_#" => p < h)
            PROVE  p <= m - 2
        <5>1. p < m - 1
          BY <4>3, <3>1, <3>3 DEF hash
        <5>2. p \in Nat
          BY <1>1
        <5>3. QED  BY <5>1, <5>2, <3>2
      <4>4. m - 2 \in Int /\ m - 2 <= Len(line)
        BY <3>2, <1>1
      <4>5. QED  BY <4>1, <4>2, <4>3, <4>4
    <3>4. CASE line[m] # "#"
      <4>1. s = SubSeq(line, 1, m - 1)
        BY <2>2, <3>1, <3>4 DEF Sentence, hash
      <4>2. ASSUME NEW p \in DOMAIN line, p <= m - 1, NEW h \in DOMAIN line
            PROVE  (line[h] = "#" => p < h - 1) /\ (line[h] = "_#" => p < h)
        <5>1. p \in Nat /\ h \in Nat
          BY <1>1
        <5>2. line[h] \in {"#", "_#"} => p < h
          BY <5>1, <4>2, <3>2
        <5>3. ASSUME line[h] = "#"  PROVE p < h - 1
          <6>1. m <= h /\ h # m
            BY <5>3, <3>2, <3>4
          <6>2. QED  BY <6>1, <5>1, <4>2, <3>2
        <5>4. QED  BY <5>2, <5>3
      <4>3. ASSUME NEW p \in DOMAIN line,
                   \A h \in DOMAIN line : (line[h] = "#" => p < h - 1) /\ (line[h] = "_#" => p < h)
            PROVE  p <= m - 1
        <5>1. m \in DOMAIN line /\ line[m] = "_#"
          BY <3>1, <3>4, <3>2 DEF hash
        <5>2. p < m
          BY <4>3, <5>1
        <5>3. p \in Nat
          BY <1>1
        <5>4. QED  BY <5>2, <5>3, <3>2
      <4>4. m - 1 \in Int /\ m - 1 <= Len(line)
        BY <3>2, <1>1
      <4>5. QED  BY <4>1, <4>2, <4>3, <4>4
    <3>5. QED  BY <3>3, <3>4
  <2>3. QED  BY <2>1, <2>2
<1> HIDE DEF s, hash
<1>3. /\ s \in Seq(STRING) /\ Len(s) \in Nat /\ Len(s) <= Len(line)
      /\ \A i \in DOMAIN s : i \in DOMAIN line /\ i <= cut /\ s[i] = line[i]
      /\ \A i \in DOMAIN line : i <= cut => i \in DOMAIN s
  <2>1. CASE cut < 1
    <3>1. s = <<>>
      BY <1>2, <2>1
    <3>2. \A i \in DOMAIN line : ~ (i <= cut)
      BY <1>1, <1>2, <2>1
    <3>3. QED  BY <3>1, <3>2, <1>1
  <2>2. CASE cut >= 1
    <3>1. s \in Seq(STRING) /\ Len(s) = cut /\ \A i \in 1 .. cut : s[i] = line[i]
      BY <1>1, <1>2, <2>2
    <3>2. DOMAIN s = 1 .. cut /\ cut \in Nat
      BY <3>1, <2>2, <1>2
    <3>3. \A i \in 1 .. cut : i \in DOMAIN line /\ i <= cut
      BY <1>1, <1>2
    <3>4. \A i \in DOMAIN line : i <= cut => i \in 1 .. cut
      BY <1>1, <1>2
    <3>5. QED  BY <3>1, <3>2, <3>3, <3>4, <1>2
  <2>3. QED  BY <2>1, <2>2, <1>2
<1>4. at \subseteq Nat /\ at \subseteq DOMAIN line /\ \A i \in at : line[i] \in Marks
  BY <1>1, <1>3
<1>5. \A i \in DOMAIN line : i \in at <=> i <= cut /\ line[i] \in Marks
  BY <1>1, <1>3
<1> HIDE DEF at
<1>6. ASSUME NEW p \in DOMAIN line
      PROVE  Ends(line, p) <=> p \in at /\ \A q \in at : p <= q
  <2>1. ASSUME Ends(line, p)  PROVE p \in at /\ \A q \in at : p <= q
    <3>1. p <= cut
      BY <1>2, <2>1 DEF Ends
    <3>2. line[p] \in Marks
      BY <2>1 DEF Ends
    <3>3. ASSUME NEW q \in at, q < p  PROVE FALSE
      <4>1. q \in DOMAIN line /\ line[q] \in Marks /\ q \in 1 .. p - 1
        BY <1>1, <1>4, <3>3
      <4>2. QED  BY <2>1, <4>1 DEF Ends
    <3>4. p \in Nat
      BY <1>1
    <3>5. \A q \in at : p <= q
      BY <3>3, <3>4, <1>4
    <3>6. QED  BY <3>1, <3>2, <3>5, <1>5
  <2>2. ASSUME p \in at, \A q \in at : p <= q  PROVE Ends(line, p)
    <3>1. line[p] \in Marks /\ p <= cut
      BY <2>2, <1>5
    <3>2. ASSUME NEW q \in 1 .. p - 1, line[q] \in Marks  PROVE FALSE
      <4>1. q \in DOMAIN line /\ q <= cut /\ q < p
        BY <3>1, <1>1, <1>2
      <4>2. q \in at
        BY <4>1, <1>5, <3>2
      <4>3. q \in Nat /\ p \in Nat
        BY <1>4, <4>2, <2>2
      <4>4. QED  BY <4>1, <4>2, <4>3, <2>2
    <3>3. QED  BY <1>2, <3>1, <3>2 DEF Ends
  <2>3. QED  BY <2>1, <2>2
<1>7. line[1] = "#" => \A p \in DOMAIN line : ~ Ends(line, p)
  <2>1. ASSUME line[1] = "#", NEW p \in DOMAIN line, Ends(line, p)  PROVE FALSE
    <3>1. p < 1 - 1
      BY <2>1, <1>1 DEF Ends
    <3>2. QED  BY <3>1, <1>1
  <2>2. QED  BY <2>1
<1>8. line[1] = "#" => ReadToken(line, args) = [args |-> args, mark |-> ";"]
  BY DEF ReadToken
<1>9. ASSUME line[1] # "#", \A p \in DOMAIN line : ~ Ends(line, p)
      PROVE  ReadToken(line, args) = [args |-> <<>>, mark |-> ";"]
  <2>1. at = {}
    <3>1. SUFFICES ASSUME at # {}  PROVE FALSE
      OBVIOUS
    <3>2. PICK p \in at : \A q \in at : p <= q
      BY <3>1, <1>4, LeastMember
    <3>3. QED  BY <3>2, <1>4, <1>6, <1>9
  <2>2. QED  BY <2>1, <1>9 DEF ReadToken, at, s
<1>10. ASSUME NEW p \in DOMAIN line, Ends(line, p)
       PROVE  ReadToken(line, args) = [args |-> SubSeq(line, 1, p - 1), mark |-> line[p]]
  <2>1. p \in at /\ \A q \in at : p <= q
    BY <1>6, <1>10
  <2>2. Min(at) = p
    <3>1. PICK x \in at : Min(at) = x /\ \A q \in at : x <= q
      BY <1>4, <2>1, MinIs
    <3>2. x = p
      BY <3>1, <2>1, <1>4
    <3>3. QED  BY <3>1, <3>2
  <2>3. line[1] # "#"
    BY <1>7, <1>10
  <2>4. SubSeq(s, 1, p - 1) = SubSeq(line, 1, p - 1)
    <3>1. p \in 1 .. Len(s) /\ p \in 1 .. Len(line)
      BY <2>1, <1>1, <1>3 DEF at
    <3>2. \A i \in 1 .. p - 1 : s[i] = line[i]
      BY <3>1, <1>3
    <3>3. QED  BY <3>1, <3>2, <1>3
  <2>5. s[p] = line[p]
    BY <2>1, <1>3 DEF at
  <2>6. at # {}
    BY <2>1
  <2>7. QED  BY <2>2, <2>3, <2>4, <2>5, <2>6 DEF ReadToken, at, s
<1>11. QED  BY <1>7, <1>8, <1>9, <1>10
-----------------------------------------------------------------------------
\* A line that opens a block closes none and tells nothing.
LEMMA OneKind ==
  ASSUME NEW f \in Seq(Lines), NEW i \in DOMAIN f
  PROVE  /\ Opens(f, i) => ~ Closes(f, i) /\ f[i][1] \in Blocks
         /\ \A name : Tells(f, i, name) => ~ Opens(f, i) /\ ~ Closes(f, i)
<1>1. f[i] \in Seq(STRING)
  BY LinesAssumption
<1>2. Len(f[i]) >= 2 => 2 \in DOMAIN f[i]
  BY <1>1
<1>3. ASSUME NEW p \in DOMAIN f[i], NEW q \in DOMAIN f[i], Ends(f[i], p), Ends(f[i], q)
      PROVE  p = q
  BY <1>1, <1>3, EndsOnce
<1>4. Opens(f, i) => ~ Closes(f, i) /\ f[i][1] \in Blocks
  BY <1>2, <1>3 DEF Opens, Closes, Blocks
<1>5. ASSUME NEW name, Tells(f, i, name)  PROVE ~ Opens(f, i) /\ ~ Closes(f, i)
  BY <1>2, <1>3, <1>5 DEF Opens, Closes, Tells
<1>6. QED  BY <1>4, <1>5

\* The opener of a line is before it and opens a block.
LEMMA OpenerIs ==
  ASSUME NEW f \in Seq(Lines), NEW i \in 1 .. Len(f) + 1
  PROVE  /\ Opener(f, i) \in 0 .. i - 1
         /\ Opener(f, i) = 0 <=> Unclosed(f, i) = {}
         /\ Opener(f, i) # 0 => /\ Opener(f, i) \in DOMAIN f /\ Opens(f, Opener(f, i))
                                /\ f[Opener(f, i)][1] \in Blocks
         /\ BlockOf(f, i) \in Contexts
         /\ BlockOf(f, i) = "main" <=> Opener(f, i) = 0
<1>1. Unclosed(f, i) \subseteq 1 .. i - 1 /\ \A j \in Unclosed(f, i) : Opens(f, j)
  BY DEF Unclosed
<1>2. CASE Unclosed(f, i) = {}
  BY <1>2 DEF Opener, BlockOf, Contexts
<1>3. CASE Unclosed(f, i) # {}
  <2>1. PICK x \in Unclosed(f, i) : Min(Unclosed(f, i)) = x
    <3>1. Unclosed(f, i) \subseteq Nat
      BY <1>1
    <3>2. QED  BY <3>1, <1>3, MinIs
  <2>2. Opener(f, i) = x
    BY <1>3, <2>1 DEF Opener
  <2>3. x \in 1 .. i - 1 /\ x \in DOMAIN f /\ Opens(f, x)
    BY <1>1
  <2>4. f[x][1] \in Blocks
    BY <2>3, OneKind
  <2>5. BlockOf(f, i) = f[x][1]
    BY <2>2, <2>3 DEF BlockOf
  <2>6. x # 0 /\ x \in 0 .. i - 1
    BY <2>3
  <2>7. QED  BY <2>2, <2>3, <2>4, <2>5, <2>6, <1>3 DEF Blocks, Contexts
<1>4. QED  BY <1>2, <1>3

\* A file that is read one line further: what is said of g, when it is one
\* line longer than f.
Longer(f, g) ==
  /\ f \in Seq(Lines) /\ g \in Seq(Lines) /\ Len(g) = Len(f) + 1
  /\ \A i \in 1 .. Len(f) : g[i] = f[i]

LEMMA AppendedLonger ==
  ASSUME NEW f \in Seq(Lines), NEW line \in Lines
  PROVE  /\ Longer(f, Append(f, line)) /\ Append(f, line)[Len(f) + 1] = line
         /\ Len(Append(f, line)) = Len(f) + 1 /\ Append(f, line) \in Seq(Lines)
BY DEF Longer

\* The lines before say what they said.
LEMMA SaidBefore ==
  ASSUME NEW f, NEW g, Longer(f, g), NEW i \in 1 .. Len(f)
  PROVE  /\ Opens(g, i) <=> Opens(f, i)
         /\ Closes(g, i) <=> Closes(f, i)
         /\ \A name : Tells(g, i, name) <=> Tells(f, i, name)
         /\ Value(g, i) = Value(f, i)
<1>1. g[i] = f[i]
  BY DEF Longer
<1>2. QED  BY <1>1 DEF Opens, Closes, Tells, Value

LEMMA OpenersBefore ==
  ASSUME NEW f, NEW g, Longer(f, g), NEW i \in 1 .. Len(f) + 1
  PROVE  Opener(g, i) = Opener(f, i) /\ BlockOf(g, i) = BlockOf(f, i)
<1>1. Len(f) \in Nat /\ f \in Seq(Lines) /\ i \in Nat
  BY DEF Longer
<1>2. \A j \in 1 .. i - 1 : /\ Opens(g, j) <=> Opens(f, j)
                            /\ (\E k \in j .. i - 1 : Closes(g, k)) <=> (\E k \in j .. i - 1 : Closes(f, k))
  <2>1. ASSUME NEW j \in 1 .. i - 1
        PROVE  j \in 1 .. Len(f) /\ \A k \in j .. i - 1 : k \in 1 .. Len(f)
    BY <1>1
  <2>2. \A j \in 1 .. Len(f) : (Opens(g, j) <=> Opens(f, j)) /\ (Closes(g, j) <=> Closes(f, j))
    BY SaidBefore
  <2>3. QED  BY <2>1, <2>2
<1>3. Unclosed(g, i) = Unclosed(f, i)
  BY <1>2 DEF Unclosed
<1>4. Opener(g, i) = Opener(f, i)
  BY <1>3 DEF Opener
<1>5. Opener(f, i) \in 0 .. i - 1
  BY <1>1, OpenerIs
<1>6. Opener(f, i) # 0 => Opener(f, i) \in 1 .. Len(f)
  BY <1>1, <1>5
<1>7. Opener(f, i) # 0 => g[Opener(f, i)] = f[Opener(f, i)]
  BY <1>6 DEF Longer
<1>8. QED  BY <1>4, <1>7 DEF BlockOf

LEMMA UnclosedIs ==
  ASSUME NEW f, NEW i, NEW j
  PROVE  j \in Unclosed(f, i) <=> /\ j \in 1 .. i - 1 /\ Opens(f, j)
                                 /\ ~ \E k \in j .. i - 1 : Closes(f, k)
BY DEF Unclosed

\* Where the next line is: a "}" closes all, a line opens a block outside of
\* the others only.
LEMMA NextOpener ==
  ASSUME NEW f, NEW g, Longer(f, g)
  PROVE  Opener(g, Len(g) + 1) =
           IF Closes(g, Len(g)) THEN 0
           ELSE IF Opener(g, Len(g)) = 0 /\ Opens(g, Len(g)) THEN Len(g)
           ELSE Opener(g, Len(g))
<1>1. PICK n : n \in Nat /\ n = Len(f) /\ f \in Seq(Lines) /\ g \in Seq(Lines) /\ Len(g) = n + 1 /\ n + 1 \in DOMAIN g
  BY DEF Longer
<1> DEFINE U == Unclosed(g, n + 1)
           V == Unclosed(g, n + 2)
<1>2. U \subseteq 1 .. n
  BY <1>1 DEF Unclosed
<1>3. CASE Closes(g, n + 1)
  <2>1. V = {}
    BY <1>3, <1>1 DEF Unclosed
  <2>2. QED  BY <2>1, <1>1, <1>3 DEF Opener
<1>4. CASE ~ Closes(g, n + 1)
  <2>1. \A j \in 1 .. n : (\E k \in j .. n + 2 - 1 : Closes(g, k)) <=> (\E k \in j .. n + 1 - 1 : Closes(g, k))
    <3>1. \A j \in 1 .. n : \A k \in j .. n + 2 - 1 : k = n + 1 \/ k \in j .. n + 1 - 1
      BY <1>1
    <3>2. \A j \in 1 .. n : \A k \in j .. n + 1 - 1 : k \in j .. n + 2 - 1
      BY <1>1
    <3>3. QED  BY <3>1, <3>2, <1>4
  <2>2. ~ \E k \in n + 1 .. n + 2 - 1 : Closes(g, k)
    <3>1. \A k \in n + 1 .. n + 2 - 1 : k = n + 1
      BY <1>1
    <3>2. QED  BY <3>1, <1>4
  <2>3. V = U \union (IF Opens(g, n + 1) THEN {n + 1} ELSE {})
    <3>1. \A j : j \in 1 .. n + 2 - 1 <=> j \in 1 .. n + 1 - 1 \/ j = n + 1
      BY <1>1
    <3>2. \A j : j \in 1 .. n + 1 - 1 => j \in 1 .. n /\ j # n + 1
      BY <1>1
    <3>3. \A j : j \in V <=> j \in 1 .. n + 2 - 1 /\ Opens(g, j)
                            /\ ~ \E k \in j .. n + 2 - 1 : Closes(g, k)
      BY <1>1, UnclosedIs
    <3>4. \A j : j \in U <=> j \in 1 .. n + 1 - 1 /\ Opens(g, j)
                            /\ ~ \E k \in j .. n + 1 - 1 : Closes(g, k)
      BY <1>1, UnclosedIs
    <3>5. ASSUME NEW j \in 1 .. n  PROVE j \in V <=> j \in U
      <4>1. j \in 1 .. n + 1 - 1 /\ j \in 1 .. n + 2 - 1
        BY <1>1
      <4>2. QED  BY <4>1, <3>3, <3>4, <3>5, <2>1
    <3>6. n + 1 \in V <=> Opens(g, n + 1)
      BY <3>1, <3>3, <2>2
    <3>7. \A j \in V : j \in 1 .. n \/ j = n + 1
      BY <3>1, <3>3, <1>1
    <3> HIDE DEF U, V
    <3>8. QED  BY <3>5, <3>6, <3>7, <1>2, <1>1
  <2>4. CASE ~ Opens(g, n + 1)
    <3>1. V = U
      BY <2>3, <2>4
    <3>2. QED  BY <3>1, <1>1, <1>4, <2>4 DEF Opener
  <2>5. CASE Opens(g, n + 1)
    <3>1. V = U \union {n + 1}
      BY <2>3, <2>5
    <3>2. Min(V) = IF U = {} THEN n + 1 ELSE Min(U)
      <4>1. n \in Nat /\ U \subseteq 1 .. n
        BY <1>1, <1>2
      <4> HIDE DEF U, V
      <4>2. Min(U \union {n + 1}) = IF U = {} THEN n + 1 ELSE Min(U)
        BY <4>1, MinBeyond
      <4>3. QED  BY <4>2, <3>1
    <3>3. Opener(g, n + 1) = 0 <=> U = {}
      <4>1. n + 1 \in 1 .. Len(g) + 1
        BY <1>1
      <4>2. QED  BY <4>1, <1>1, OpenerIs
    <3>4. V # {}
      BY <3>1
    <3>5. Opener(g, n + 2) = IF U = {} THEN n + 1 ELSE Min(U)
      BY <3>2, <3>4 DEF Opener
    <3>6. QED  BY <3>5, <3>3, <1>1, <1>4, <2>5 DEF Opener
  <2>6. QED  BY <2>4, <2>5
<1>5. QED  BY <1>3, <1>4, <1>1

-----------------------------------------------------------------------------
\* What the last line of a file does where it is.
OpensLast(g) == Opens(g, Len(g)) /\ BlockOf(g, Len(g)) = "main"
ClosesLast(g) == Closes(g, Len(g))
TellsLast(g, name) == Tells(g, Len(g), name) /\ BlockOf(g, Len(g)) = Commands[name].at

LEMMA LastIs ==
  ASSUME NEW f, NEW g, Longer(f, g)
  PROVE  /\ Len(f) \in Nat /\ Len(g) = Len(f) + 1 /\ f \in Seq(Lines) /\ g \in Seq(Lines)
         /\ DOMAIN f = 1 .. Len(f) /\ DOMAIN g = 1 .. Len(g)
         /\ Len(g) \in DOMAIN g /\ Len(g) \notin DOMAIN f
         /\ \A i : i \in DOMAIN g <=> i \in DOMAIN f \/ i = Len(g)
<1>1. Len(f) \in Nat /\ Len(g) = Len(f) + 1 /\ f \in Seq(Lines) /\ g \in Seq(Lines)
  BY DEF Longer
<1>2. DOMAIN f = 1 .. Len(f) /\ DOMAIN g = 1 .. Len(g)
  BY <1>1
<1>3. PICK n : n = Len(f) /\ n \in Nat /\ n + 1 = Len(g)
  BY <1>1
<1>4. n + 1 \in 1 .. n + 1 /\ n + 1 \notin 1 .. n /\ \A i : i \in 1 .. n + 1 <=> i \in 1 .. n \/ i = n + 1
  BY <1>3
<1>5. QED  BY <1>1, <1>2, <1>3, <1>4

LEMMA HereNext ==
  ASSUME NEW f, NEW g, Longer(f, g)
  PROVE  /\ BlockOf(g, Len(g)) = Here(f) /\ Opener(g, Len(g)) = Opener(f, Len(f) + 1)
         /\ Opener(g, Len(g) + 1) = IF ClosesLast(g) THEN 0
                                    ELSE IF OpensLast(g) THEN Len(g) ELSE Opener(f, Len(f) + 1)
         /\ Here(g) = IF ClosesLast(g) THEN "main"
                      ELSE IF OpensLast(g) THEN g[Len(g)][1] ELSE Here(f)
         /\ Here(f) \in Contexts /\ Here(g) \in Contexts
         /\ Here(f) = "main" <=> Opener(f, Len(f) + 1) = 0
<1>1. Len(f) \in Nat /\ Len(g) = Len(f) + 1 /\ f \in Seq(Lines) /\ g \in Seq(Lines)
  BY LastIs
<1>2. Len(f) + 1 \in 1 .. Len(f) + 1 /\ Len(g) \in 1 .. Len(g) + 1 /\ Len(g) + 1 \in 1 .. Len(g) + 1
      /\ Len(g) # 0 /\ Len(g) \in Nat
  BY <1>1
<1>3. BlockOf(g, Len(g)) = Here(f) /\ Opener(g, Len(g)) = Opener(f, Len(f) + 1)
  BY <1>1, <1>2, OpenersBefore DEF Here
<1>4. /\ BlockOf(g, Len(g)) = "main" <=> Opener(g, Len(g)) = 0
      /\ Here(g) \in Contexts /\ BlockOf(g, Len(g)) \in Contexts
  BY <1>1, <1>2, OpenerIs DEF Here
<1>5. Opener(g, Len(g) + 1) = IF ClosesLast(g) THEN 0
                              ELSE IF OpensLast(g) THEN Len(g) ELSE Opener(g, Len(g))
  BY <1>4, NextOpener DEF ClosesLast, OpensLast
<1>6. Here(g) = IF Opener(g, Len(g) + 1) = 0 THEN "main" ELSE g[Opener(g, Len(g) + 1)][1]
  BY DEF Here, BlockOf
<1>7. BlockOf(g, Len(g)) = IF Opener(g, Len(g)) = 0 THEN "main" ELSE g[Opener(g, Len(g))][1]
  BY DEF BlockOf
<1>8. Here(g) = IF ClosesLast(g) THEN "main"
                ELSE IF OpensLast(g) THEN g[Len(g)][1] ELSE BlockOf(g, Len(g))
  BY <1>2, <1>5, <1>6, <1>7
<1>9. QED  BY <1>3, <1>4, <1>5, <1>8

LEMMA OpeningNext ==
  ASSUME NEW f, NEW g, Longer(f, g), NEW b
  PROVE  /\ Opening(g, b) = IF OpensLast(g) /\ g[Len(g)][1] = b THEN Opening(f, b) \union {Len(g)}
                            ELSE Opening(f, b)
         /\ Opening(f, b) \subseteq 1 .. Len(f)
<1>1. \A i \in DOMAIN f : i \in Opening(g, b) <=> i \in Opening(f, b)
  <2>1. ASSUME NEW i \in DOMAIN f  PROVE i \in Opening(g, b) <=> i \in Opening(f, b)
    <3>1. i \in DOMAIN g /\ i \in 1 .. Len(f) /\ i \in 1 .. Len(f) + 1
      BY LastIs
    <3>2. BlockOf(g, i) = BlockOf(f, i)
      BY <3>1, OpenersBefore
    <3>3. g[i] = f[i] /\ (Opens(g, i) <=> Opens(f, i))
      BY <3>1, SaidBefore DEF Longer
    <3>4. QED  BY <3>1, <3>2, <3>3 DEF Opening
  <2>2. QED  BY <2>1
<1>2. Len(g) \in Opening(g, b) <=> OpensLast(g) /\ g[Len(g)][1] = b
  BY LastIs DEF Opening, OpensLast
<1>3. Opening(f, b) \subseteq DOMAIN f /\ Opening(g, b) \subseteq DOMAIN g
  BY DEF Opening
<1>4. DOMAIN f = 1 .. Len(f) /\ \A i : i \in DOMAIN g <=> i \in DOMAIN f \/ i = Len(g)
  BY LastIs
<1>5. \A i : i \in Opening(g, b) <=> i \in Opening(f, b) \/ (i = Len(g) /\ OpensLast(g) /\ g[Len(g)][1] = b)
  <2>1. Len(g) \notin Opening(f, b)
    BY <1>3, LastIs
  <2>2. QED  BY <2>1, <1>1, <1>2, <1>3, <1>4
<1>6. Opening(g, b) = IF OpensLast(g) /\ g[Len(g)][1] = b THEN Opening(f, b) \union {Len(g)}
                      ELSE Opening(f, b)
  BY <1>5
<1>7. QED  BY <1>3, <1>4, <1>6

LEMMA LastOpening ==
  ASSUME NEW f, NEW g, Longer(f, g), NEW b
  PROVE  LastOf(Opening(g, b)) = IF OpensLast(g) /\ g[Len(g)][1] = b THEN Len(g)
                                 ELSE LastOf(Opening(f, b))
<1>1. CASE OpensLast(g) /\ g[Len(g)][1] = b
  <2>1. Opening(g, b) = Opening(f, b) \union {Len(f) + 1} /\ Opening(f, b) \subseteq 0 .. Len(f)
    BY <1>1, OpeningNext, LastIs
  <2>2. Max(Opening(f, b) \union {Len(f) + 1}) = Len(f) + 1
    BY <2>1, LastIs, MaxBeyond
  <2>3. QED  BY <1>1, <2>1, <2>2, LastIs DEF LastOf
<1>2. CASE ~ (OpensLast(g) /\ g[Len(g)][1] = b)
  BY <1>2, OpeningNext
<1>3. QED  BY <1>1, <1>2

LEMMA ClosedNext ==
  ASSUME NEW f, NEW g, Longer(f, g)
  PROVE  ClosedNodes(g, FALSE) <=> ClosedNodes(f, FALSE) \/ (ClosesLast(g) /\ Here(f) = "nodes")
<1>1. \A i \in DOMAIN f : /\ Closes(g, i) <=> Closes(f, i)
                          /\ BlockOf(g, i) = BlockOf(f, i)
  <2>1. ASSUME NEW i \in DOMAIN f
        PROVE  (Closes(g, i) <=> Closes(f, i)) /\ BlockOf(g, i) = BlockOf(f, i)
    <3>1. i \in 1 .. Len(f) /\ i \in 1 .. Len(f) + 1
      BY LastIs
    <3>2. QED  BY <3>1, SaidBefore, OpenersBefore
  <2>2. QED  BY <2>1
<1>2. BlockOf(g, Len(g)) = Here(f)
  BY HereNext
<1>3. \A i : i \in DOMAIN g <=> i \in DOMAIN f \/ i = Len(g)
  BY LastIs
<1>4. QED  BY <1>1, <1>2, <1>3 DEF ClosedNodes, ClosesLast

LEMMA WellNestedNext ==
  ASSUME NEW f, NEW g, Longer(f, g), WellNested(f)
  PROVE  WellNested(g)
<1>1. OpensLast(g) => g[Len(g)][1] \in Blocks /\ ~ ClosesLast(g)
  BY LastIs, OneKind DEF OpensLast, ClosesLast
<1>2. Here(g) # "main" => Opener(g, Len(g) + 1) = LastOf(Opening(g, Here(g)))
  <2>1. CASE ClosesLast(g)
    BY <2>1, HereNext
  <2>2. CASE ~ ClosesLast(g) /\ OpensLast(g)
    BY <2>2, HereNext, LastOpening
  <2>3. CASE ~ ClosesLast(g) /\ ~ OpensLast(g)
    <3>1. Here(g) = Here(f) /\ Opener(g, Len(g) + 1) = Opener(f, Len(f) + 1)
      BY <2>3, HereNext
    <3>2. LastOf(Opening(g, Here(f))) = LastOf(Opening(f, Here(f)))
      BY <2>3, LastOpening
    <3>3. QED  BY <3>1, <3>2 DEF WellNested
  <2>4. QED  BY <2>1, <2>2, <2>3
<1>3. ASSUME Opening(g, "nodes") # {}, Here(g) # "nodes"  PROVE ClosedNodes(g, FALSE)
  <2>1. CASE OpensLast(g) /\ g[Len(g)][1] = "nodes"
    BY <2>1, <1>1, <1>3, HereNext
  <2>2. CASE ~ (OpensLast(g) /\ g[Len(g)][1] = "nodes")
    <3>1. Opening(f, "nodes") # {}
      BY <2>2, <1>3, OpeningNext
    <3>2. CASE Here(f) = "nodes"
      <4>1. ~ OpensLast(g)
        BY <3>2, HereNext DEF OpensLast
      <4>2. ClosesLast(g)
        BY <3>2, <4>1, <1>3, HereNext
      <4>3. QED  BY <3>2, <4>2, ClosedNext
    <3>3. CASE Here(f) # "nodes"
      BY <3>1, <3>3, ClosedNext DEF WellNested
    <3>4. QED  BY <3>2, <3>3
  <2>3. QED  BY <2>1, <2>2
<1>4. Here(g) \in Contexts
  BY HereNext
<1>5. QED  BY <1>2, <1>3, <1>4 DEF WellNested

\* What is told of a name: a line more if the last one tells it there, and
\* nothing of the blocks before when the last one opens its block again.
LEMMA ToldNext ==
  ASSUME NEW f, NEW g, Longer(f, g), WellNested(f), NEW name \in DOMAIN Commands
  PROVE  /\ Told(g, name) = (IF OpensLast(g) /\ g[Len(g)][1] = Commands[name].at THEN {}
                             ELSE Told(f, name))
                            \union (IF TellsLast(g, name) THEN {Len(g)} ELSE {})
         /\ Told(f, name) \subseteq 1 .. Len(f)
<1> DEFINE b == Commands[name].at
<1> HIDE DEF b
<1>1. \A i : i \in Told(f, name) <=> /\ i \in DOMAIN f /\ Tells(f, i, name) /\ BlockOf(f, i) = b
                                     /\ b # "main" => Opener(f, i) = LastOf(Opening(f, b))
  BY DEF Told, b
<1>2. \A i : i \in Told(g, name) <=> /\ i \in DOMAIN g /\ Tells(g, i, name) /\ BlockOf(g, i) = b
                                     /\ b # "main" => Opener(g, i) = LastOf(Opening(g, b))
  BY DEF Told, b
<1>3. ASSUME NEW i \in DOMAIN f
      PROVE  /\ i \in 1 .. Len(f) /\ Opener(g, i) # Len(g)
             /\ Tells(g, i, name) <=> Tells(f, i, name)
             /\ BlockOf(g, i) = BlockOf(f, i) /\ Opener(g, i) = Opener(f, i)
  <2>1. i \in 1 .. Len(f) /\ i \in 1 .. Len(f) + 1 /\ f \in Seq(Lines)
    BY LastIs
  <2>2. Opener(f, i) \in 0 .. i - 1
    BY <2>1, OpenerIs
  <2>3. Opener(f, i) # Len(g)
    BY <2>1, <2>2, LastIs
  <2>4. QED  BY <2>1, <2>3, SaidBefore, OpenersBefore
<1>4. LastOf(Opening(g, b)) = IF OpensLast(g) /\ g[Len(g)][1] = b THEN Len(g)
                              ELSE LastOf(Opening(f, b))
  BY LastOpening
<1>5. ASSUME NEW i \in DOMAIN f
      PROVE  i \in Told(g, name) <=> ~ (OpensLast(g) /\ g[Len(g)][1] = b) /\ i \in Told(f, name)
  <2>1. CASE OpensLast(g) /\ g[Len(g)][1] = b
    <3>1. b \in Blocks
      BY <2>1, LastIs, OneKind DEF OpensLast
    <3>2. QED  BY <2>1, <3>1, <1>2, <1>3, <1>4, <1>5 DEF Blocks
  <2>2. CASE ~ (OpensLast(g) /\ g[Len(g)][1] = b)
    <3>1. i \in DOMAIN g
      BY LastIs
    <3>2. QED  BY <2>2, <3>1, <1>1, <1>2, <1>3, <1>4
  <2>3. QED  BY <2>1, <2>2
<1>6. Len(g) \in Told(g, name) <=> TellsLast(g, name)
  <2>1. ASSUME TellsLast(g, name), b # "main"
        PROVE  Opener(g, Len(g)) = LastOf(Opening(g, b))
    <3>1. Here(f) = b
      BY <2>1, HereNext DEF TellsLast, b
    <3>2. ~ OpensLast(g)
      BY <2>1 DEF TellsLast, OpensLast, b
    <3>3. LastOf(Opening(g, b)) = LastOf(Opening(f, b))
      BY <3>2, <1>4
    <3>4. Opener(f, Len(f) + 1) = LastOf(Opening(f, b))
      BY <2>1, <3>1 DEF WellNested
    <3>5. QED  BY <3>3, <3>4, HereNext
  <2>2. Len(g) \in DOMAIN g
    BY LastIs
  <2>3. QED  BY <2>1, <2>2, <1>2 DEF TellsLast, b
<1>7. DOMAIN f = 1 .. Len(f) /\ \A i : i \in DOMAIN g <=> i \in DOMAIN f \/ i = Len(g)
  BY LastIs
<1>8. Told(f, name) \subseteq DOMAIN f /\ Told(g, name) \subseteq DOMAIN g /\ Len(g) \notin DOMAIN f
  BY <1>1, <1>2, LastIs
<1>9. QED  BY <1>5, <1>6, <1>7, <1>8 DEF b

-----------------------------------------------------------------------------
LEMMA SomeOf ==
  ASSUME NEW n \in Nat, NEW S, S \subseteq 1 .. n
  PROVE  /\ IsFiniteSet(S) /\ Cardinality(S) \in Nat
         /\ \A T : T \subseteq S => /\ IsFiniteSet(T) /\ Cardinality(T) \in Nat
                                    /\ Cardinality(T) <= Cardinality(S)
                                    /\ Cardinality(T) = Cardinality(S) => T = S
<1>1. IsFiniteSet(1 .. n)
  BY FS_Interval
<1>2. IsFiniteSet(S)
  BY <1>1, FS_Subset
<1>3. \A T : T \subseteq S => /\ IsFiniteSet(T) /\ Cardinality(T) <= Cardinality(S)
                              /\ Cardinality(T) = Cardinality(S) => T = S
  BY <1>2, FS_Subset
<1>4. \A T : IsFiniteSet(T) => Cardinality(T) \in Nat
  BY FS_CardinalityType
<1>5. QED  BY <1>2, <1>3, <1>4

\* Every rank below the number of its members is that of a member.
LEMMA InOrderIn ==
  ASSUME NEW n \in Nat, NEW S, S \subseteq 1 .. n, NEW k \in 1 .. Cardinality(S)
  PROVE  InOrder(S)[k] \in S
<1> DEFINE Rank(i) == Cardinality({j \in S : j < i})
           T == {i \in S : Rank(i) = k - 1}
<1>1. PICK c \in Nat : c = Cardinality(S)
  BY SomeOf
<1>2. ASSUME NEW i \in S, NEW h \in S, i < h
      PROVE  Rank(i) \in Nat /\ Rank(h) \in Nat /\ Rank(i) < Rank(h)
  <2> DEFINE A == {j \in S : j < i}
             B == {j \in S : j < h}
  <2>1. A \subseteq B /\ B \subseteq S /\ i \in B /\ i \notin A
    <3>1. \A j \in S : j \in Nat
      OBVIOUS
    <3>2. \A j \in S : j < i => j < h
      BY <3>1, <1>2
    <3>3. ~ (i < i)
      BY <3>1
    <3>4. QED  BY <3>2, <3>3, <1>2
  <2>2. B \subseteq 1 .. n
    BY <2>1
  <2> HIDE DEF A, B
  <2>3. /\ Cardinality(A) \in Nat /\ Cardinality(B) \in Nat /\ Cardinality(A) <= Cardinality(B)
        /\ Cardinality(A) = Cardinality(B) => A = B
    BY <2>1, <2>2, SomeOf
  <2>4. Cardinality(A) # Cardinality(B)
    BY <2>1, <2>3
  <2>5. Cardinality(A) < Cardinality(B)
    BY <2>3, <2>4
  <2>6. QED  BY <2>3, <2>5 DEF A, B
<1>3. ASSUME NEW i \in S  PROVE Rank(i) \in 0 .. c - 1
  <2> DEFINE A == {j \in S : j < i}
  <2>1. A \subseteq S /\ i \notin A
    OBVIOUS
  <2> HIDE DEF A
  <2>2. Cardinality(A) \in Nat /\ Cardinality(A) <= c /\ Cardinality(A) # c
    BY <2>1, <1>1, SomeOf
  <2>3. Cardinality(A) \in 0 .. c - 1
    BY <2>2
  <2>4. QED  BY <2>3 DEF A
<1> DEFINE r == [i \in S |-> Rank(i)]
<1> HIDE DEF Rank
<1>4. r \in Injection(S, 0 .. c - 1)
  <2>1. r \in [S -> 0 .. c - 1]
    BY <1>3
  <2>2. ASSUME NEW i \in S, NEW h \in S, r[i] = r[h]  PROVE i = h
    <3>1. Rank(i) = Rank(h)
      BY <2>2
    <3>2. ~ (i < h) /\ ~ (h < i)
      BY <3>1, <1>2
    <3>3. QED  BY <3>2
  <2> HIDE DEF r
  <2>3. QED  BY <2>1, <2>2 DEF Injection, IsInjective
<1>5. IsFiniteSet(0 .. c - 1) /\ Cardinality(0 .. c - 1) = c
  <2>1. IsFiniteSet(0 .. c - 1) /\ Cardinality(0 .. c - 1) = IF 0 > c - 1 THEN 0 ELSE c - 1 - 0 + 1
    BY FS_Interval, 0 \in Int, c - 1 \in Int
  <2>2. (IF 0 > c - 1 THEN 0 ELSE c - 1 - 0 + 1) = c
    OBVIOUS
  <2>3. QED  BY <2>1, <2>2
<1> HIDE DEF r
<1>6. r \in Surjection(S, 0 .. c - 1)
  BY <1>1, <1>4, <1>5, FS_Injection
<1>7. PICK i \in S : r[i] = k - 1
  <2>1. k - 1 \in 0 .. c - 1
    BY <1>1
  <2>2. QED  BY <1>6, <2>1 DEF Surjection
<1>8. i \in T
  <2>1. r[i] = Rank(i)
    BY DEF r
  <2>2. QED  BY <2>1, <1>7
<1>9. T \subseteq Nat /\ T # {} /\ T \subseteq S
  <2>1. S \subseteq Nat
    OBVIOUS
  <2>2. T \subseteq S
    OBVIOUS
  <2>3. QED  BY <1>8, <2>1, <2>2
<1> HIDE DEF T
<1>10. Min(T) \in S
  <2>1. PICK x \in T : Min(T) = x
    BY <1>9, MinIs
  <2>2. QED  BY <2>1, <1>9
<1>11. InOrder(S)[k] = Min(T)
  BY DEF InOrder, T, Rank
<1>12. QED  BY <1>10, <1>11

\* A number beyond a set comes last in its order.
LEMMA InOrderNext ==
  ASSUME NEW n \in Nat, NEW S, S \subseteq 1 .. n
  PROVE  InOrder(S \union {n + 1}) = Append(InOrder(S), n + 1) /\ InOrder(S) \in Seq(S)
<1> DEFINE R == S \union {n + 1}
           Rank(i) == Cardinality({j \in S : j < i})
           RankR(i) == Cardinality({j \in R : j < i})
           Placed(k) == {i \in S : Rank(i) = k - 1}
           PlacedR(k) == {i \in R : RankR(i) = k - 1}
<1>1. PICK c \in Nat : c = Cardinality(S)
  BY SomeOf
<1>2. Cardinality(R) = c + 1
  <2>1. n + 1 \notin S
    OBVIOUS
  <2>2. IsFiniteSet(S)
    BY SomeOf
  <2>3. QED  BY <2>1, <2>2, <1>1, FS_AddElement
<1>3. ASSUME NEW i \in S
      PROVE  RankR(i) = Rank(i) /\ Rank(i) \in Nat /\ Rank(i) < c
  <2> DEFINE A == {j \in S : j < i}
  <2>1. {j \in R : j < i} = A
    OBVIOUS
  <2>2. A \subseteq S /\ i \notin A
    OBVIOUS
  <2>3. RankR(i) = Cardinality(A) /\ Rank(i) = Cardinality(A)
    BY <2>1
  <2> HIDE DEF A, RankR, Rank
  <2>4. Cardinality(A) \in Nat /\ Cardinality(A) <= c /\ Cardinality(A) # c
    BY <2>2, <1>1, SomeOf
  <2>5. Cardinality(A) < c
    BY <2>4
  <2>6. QED  BY <2>3, <2>4, <2>5
<1>4. RankR(n + 1) = c
  <2>1. \A j \in R : j < n + 1 <=> j \in S
    OBVIOUS
  <2>2. {j \in R : j < n + 1} = S
    BY <2>1
  <2>3. QED  BY <2>2, <1>1
<1> HIDE DEF Rank, RankR
<1>5. ASSUME NEW k \in 1 .. c  PROVE PlacedR(k) = Placed(k)
  <2>1. RankR(n + 1) # k - 1
    BY <1>4
  <2>2. \A i \in S : RankR(i) = Rank(i)
    BY <1>3
  <2>3. QED  BY <2>1, <2>2
<1>6. PlacedR(c + 1) = {n + 1}
  <2>1. ASSUME NEW i \in S  PROVE RankR(i) # c + 1 - 1
    <3>1. PICK m : m = Rank(i) /\ m = RankR(i) /\ m \in Nat /\ m < c
      BY <1>3
    <3>2. m # c + 1 - 1
      BY <3>1
    <3>3. QED  BY <3>1, <3>2
  <2>2. RankR(n + 1) = c + 1 - 1
    BY <1>4
  <2>3. \A i : i \in PlacedR(c + 1) <=> i \in R /\ RankR(i) = c + 1 - 1
    OBVIOUS
  <2>4. \A i : i \in R <=> i \in S \/ i = n + 1
    OBVIOUS
  <2> HIDE DEF PlacedR, R
  <2>5. QED  BY <2>1, <2>2, <2>3, <2>4
<1>7. Min({n + 1}) = n + 1
  <2>1. PICK x \in {n + 1} : Min({n + 1}) = x
    <3>1. {n + 1} \subseteq Nat /\ {n + 1} # {}
      OBVIOUS
    <3>2. QED  BY <3>1, MinIs
  <2>2. QED  BY <2>1
<1>8. InOrder(R) = [k \in 1 .. c + 1 |-> Min(PlacedR(k))]
  BY <1>2 DEF InOrder, RankR
<1>9. InOrder(S) = [k \in 1 .. c |-> Min(Placed(k))]
  BY <1>1 DEF InOrder, Rank
<1>10. InOrder(S) \in Seq(S) /\ Len(InOrder(S)) = c
  <2>1. \A k \in 1 .. c : InOrder(S)[k] \in S
    BY <1>1, InOrderIn
  <2> HIDE DEF Placed
  <2>2. InOrder(S) \in [1 .. c -> S]
    BY <1>9, <2>1
  <2>3. QED  BY <2>2
<1> HIDE DEF Placed, PlacedR, R
<1>11. \A k \in 1 .. c : InOrder(R)[k] = InOrder(S)[k]
  BY <1>5, <1>8, <1>9
<1>12. InOrder(R)[c + 1] = n + 1
  <2>1. c + 1 \in 1 .. c + 1
    OBVIOUS
  <2>2. InOrder(R)[c + 1] = Min(PlacedR(c + 1))
    BY <1>8, <2>1
  <2>3. QED  BY <2>2, <1>6, <1>7
<1>13. PICK s : s = InOrder(S) /\ s \in Seq(S) /\ Len(s) = c
  BY <1>10
<1>14. PICK t : t = InOrder(R) /\ DOMAIN t = 1 .. c + 1 /\ t = [k \in 1 .. c + 1 |-> t[k]]
  BY <1>8
<1>15. Append(s, n + 1) = [k \in 1 .. c + 1 |-> IF k = c + 1 THEN n + 1 ELSE s[k]]
  BY <1>13
<1>16. \A k \in 1 .. c + 1 : t[k] = IF k = c + 1 THEN n + 1 ELSE s[k]
  <2>1. \A k \in 1 .. c + 1 : k = c + 1 \/ k \in 1 .. c
    OBVIOUS
  <2>2. t[c + 1] = n + 1 /\ \A k \in 1 .. c : t[k] = s[k]
    BY <1>11, <1>12, <1>13, <1>14
  <2>3. QED  BY <2>1, <2>2
<1>17. t = Append(s, n + 1)
  BY <1>14, <1>15, <1>16
<1>18. QED  BY <1>13, <1>14, <1>17 DEF R

\* The values told of a name: the last line adds its own, or what it opens
\* forgets them.
LEMMA ValuesNext ==
  ASSUME NEW f, NEW g, Longer(f, g), WellNested(f), NEW name \in DOMAIN Commands
  PROVE  /\ TellsLast(g, name) => ValuesTold(g, name) = Append(ValuesTold(f, name), Value(g, Len(g)))
         /\ ~ TellsLast(g, name) /\ OpensLast(g) /\ g[Len(g)][1] = Commands[name].at =>
              ValuesTold(g, name) = <<>>
         /\ ~ TellsLast(g, name) /\ ~ (OpensLast(g) /\ g[Len(g)][1] = Commands[name].at) =>
              ValuesTold(g, name) = ValuesTold(f, name)
<1> DEFINE S == Told(f, name)
           n == Len(f)
           Vals(h, s) == [k \in DOMAIN s |-> Value(h, s[k])]
<1>1. n \in Nat /\ Len(g) = n + 1 /\ S \subseteq 1 .. n
  BY LastIs, ToldNext
<1>2. PICK s : s = InOrder(S) /\ s \in Seq(S) /\ InOrder(S \union {n + 1}) = Append(s, n + 1)
  BY <1>1, InOrderNext
<1>3. \A i \in 1 .. n : Value(g, i) = Value(f, i)
  BY SaidBefore
<1>4. ValuesTold(f, name) = Vals(f, s)
  BY <1>2 DEF ValuesTold
<1> HIDE DEF S, n
<1>5. Vals(g, s) = Vals(f, s)
  <2>1. \A k \in DOMAIN s : s[k] \in 1 .. n
    <3>1. \A k \in DOMAIN s : s[k] \in S
      BY <1>2
    <3>2. QED  BY <1>1, <3>1
  <2>2. QED  BY <2>1, <1>3
<1>6. ASSUME TellsLast(g, name)
      PROVE  ValuesTold(g, name) = Append(ValuesTold(f, name), Value(g, Len(g)))
  <2>1. ~ OpensLast(g)
    BY <1>6, LastIs, OneKind DEF TellsLast, OpensLast
  <2>2. Told(g, name) = S \union {n + 1}
    BY <1>1, <1>6, <2>1, ToldNext DEF S
  <2>3. PICK t : t = Append(s, n + 1) /\ InOrder(Told(g, name)) = t
    BY <1>2, <2>2
  <2>4. PICK c \in Nat : c = Len(s) /\ DOMAIN s = 1 .. c
    BY <1>2
  <2>5. DOMAIN t = 1 .. c + 1 /\ t[c + 1] = n + 1 /\ \A k \in 1 .. c : t[k] = s[k]
    BY <1>2, <2>3, <2>4
  <2>6. Vals(g, t) = Append(Vals(g, s), Value(g, n + 1))
    <3>1. PICK v : /\ v = Vals(g, s) /\ v = [k \in 1 .. c |-> v[k]]
                   /\ \A k \in 1 .. c : v[k] = Value(g, s[k])
      <4>1. Vals(g, s) = [k \in 1 .. c |-> Value(g, s[k])]
        BY <2>4
      <4>2. PICK v : v = [k \in 1 .. c |-> Value(g, s[k])]
        OBVIOUS
      <4>3. \A k \in 1 .. c : v[k] = Value(g, s[k])
        BY <4>2
      <4>4. v = [k \in 1 .. c |-> v[k]]
        BY <4>2
      <4>5. QED  BY <4>1, <4>2, <4>3, <4>4
    <3>2. v \in Seq({v[k] : k \in 1 .. c}) /\ Len(v) = c
      BY <3>1
    <3>3. Append(v, Value(g, n + 1)) = [k \in 1 .. c + 1 |-> IF k = c + 1 THEN Value(g, n + 1) ELSE v[k]]
      BY <3>2
    <3>4. \A k \in 1 .. c + 1 : Value(g, t[k]) = IF k = c + 1 THEN Value(g, n + 1) ELSE v[k]
      <4>1. \A k \in 1 .. c + 1 : k = c + 1 \/ k \in 1 .. c
        OBVIOUS
      <4>2. QED  BY <4>1, <3>1, <2>5
    <3>5. Vals(g, t) = [k \in 1 .. c + 1 |-> Value(g, t[k])]
      BY <2>5
    <3>6. QED  BY <3>1, <3>3, <3>4, <3>5
  <2>7. ValuesTold(g, name) = Vals(g, t)
    BY <2>3 DEF ValuesTold
  <2>8. QED  BY <2>6, <2>7, <1>4, <1>5, <1>1
<1>7. ASSUME ~ TellsLast(g, name), OpensLast(g), g[Len(g)][1] = Commands[name].at
      PROVE  ValuesTold(g, name) = <<>>
  <2>1. Told(g, name) = {}
    BY <1>7, ToldNext
  <2>2. InOrder({}) = <<>>
    <3>1. 1 .. Cardinality({}) = {}
      BY FS_EmptySet
    <3>2. InOrder({}) = [k \in {} |-> Min({i \in {} : Cardinality({j \in {} : j < i}) = k - 1})]
      BY <3>1 DEF InOrder
    <3>3. QED  BY <3>2
  <2>3. QED  BY <2>1, <2>2 DEF ValuesTold
<1>8. ASSUME ~ TellsLast(g, name), ~ (OpensLast(g) /\ g[Len(g)][1] = Commands[name].at)
      PROVE  ValuesTold(g, name) = ValuesTold(f, name)
  <2>1. Told(g, name) = S
    <3>1. Told(g, name) = S \union {}
      BY <1>8, ToldNext DEF S
    <3>2. QED  BY <3>1
  <2>2. ValuesTold(g, name) = Vals(g, s)
    BY <2>1, <1>2 DEF ValuesTold
  <2>3. QED  BY <2>2, <1>4, <1>5
<1>9. QED  BY <1>6, <1>7, <1>8

-----------------------------------------------------------------------------
LEMMA CommandsAre ==
  /\ DOMAIN Commands = {"daemon", "worker_processes", "error_log", "events", "nodes", "use",
                        "worker_connections", "accept_mutex_delay", "edge_path"}
  /\ \A name \in {"daemon", "worker_processes", "error_log", "events", "nodes"} :
       Commands[name].at = "main"
  /\ \A name \in {"use", "worker_connections", "accept_mutex_delay"} : Commands[name].at = "events"
  /\ Commands["edge_path"].at = "nodes"
  /\ \A name \in DOMAIN Commands : Commands[name].block <=> name \in {"events", "nodes"}
  /\ \A name \in {"events", "nodes"} : Commands[name].words = {1}
  /\ \A name \in {"daemon", "worker_processes", "use", "worker_connections", "edge_path"} :
       Commands[name].words = {2}
  /\ Commands["error_log"].words = {2, 3, 4}
BY DEF Commands

LEMMA NumbersAre ==
  ASSUME NEW word
  PROVE  /\ Number(word) \in Nat /\ Processes(word) \in Nat
         /\ Number(word) # Unset /\ Processes(word) # Unset
<1>1. Number(word) \in {0, 1, 2, 60, 2000}
  BY DEF Number
<1>2. Processes(word) \in {0, 1, 2, 60, 2000}
  BY <1>1 DEF Processes
<1>3. QED  BY <1>1, <1>2 DEF Unset

\* The last line opens a block of one of two names, or none.
LEMMA LastOpens ==
  ASSUME NEW f, NEW g, Longer(f, g)
  PROVE  /\ OpensLast(g) => /\ g[Len(g)][1] \in Blocks /\ ~ ClosesLast(g)
                            /\ \A name : ~ TellsLast(g, name)
                            /\ Here(f) = "main"
         /\ ClosesLast(g) => \A name : ~ TellsLast(g, name)
         /\ \A name : TellsLast(g, name) => Here(f) = Commands[name].at
         /\ \A i \in 1 .. Len(f) : Value(g, i) = Value(f, i)
<1>1. BlockOf(g, Len(g)) = Here(f)
  BY HereNext
<1>2. g \in Seq(Lines) /\ Len(g) \in DOMAIN g
  BY LastIs
<1>3. \A i \in 1 .. Len(f) : Value(g, i) = Value(f, i)
  BY SaidBefore
<1>4. QED  BY <1>1, <1>2, <1>3, OneKind DEF OpensLast, ClosesLast, TellsLast

LEMMA DaemonNext ==
  ASSUME NEW f, NEW g, Longer(f, g), WellNested(f)
  PROVE  DaemonTold(g) = IF TellsLast(g, "daemon") THEN (IF Value(g, Len(g)) = "on" THEN 1 ELSE 0)
                         ELSE DaemonTold(f)
<1> DEFINE S == Told(f, "daemon")
<1>1. /\ Told(g, "daemon") = S \union (IF TellsLast(g, "daemon") THEN {Len(g)} ELSE {})
      /\ S \subseteq 1 .. Len(f)
  <2>1. ~ (OpensLast(g) /\ g[Len(g)][1] = Commands["daemon"].at)
    BY LastOpens, CommandsAre DEF Blocks
  <2>2. "daemon" \in DOMAIN Commands
    BY CommandsAre
  <2>3. QED  BY <2>1, <2>2, ToldNext
<1> HIDE DEF S
<1>2. PICK n \in Nat : n = Len(f) /\ Len(g) = n + 1 /\ S \subseteq 0 .. n /\ S \subseteq 1 .. n
  BY <1>1, LastIs
<1>3. CASE TellsLast(g, "daemon")
  <2>1. Told(g, "daemon") = S \union {n + 1}
    BY <1>1, <1>2, <1>3
  <2>2. Max(S \union {n + 1}) = n + 1
    BY <1>2, MaxBeyond
  <2>3. QED  BY <1>2, <1>3, <2>1, <2>2 DEF DaemonTold
<1>4. CASE ~ TellsLast(g, "daemon")
  <2>1. Told(g, "daemon") = S
    BY <1>1, <1>4
  <2>2. CASE S = {}
    BY <1>4, <2>1, <2>2 DEF DaemonTold, S
  <2>3. CASE S # {}
    <3>1. PICK x \in S : Max(S) = x
      BY <1>2, <2>3, MaxIs
    <3>2. Value(g, x) = Value(f, x)
      BY <3>1, <1>1, LastOpens
    <3>3. QED  BY <1>4, <2>1, <2>3, <3>1, <3>2 DEF DaemonTold, S
  <2>4. QED  BY <2>2, <2>3
<1>5. QED  BY <1>3, <1>4

LEMMA WorkersNext ==
  ASSUME NEW f, NEW g, Longer(f, g), WellNested(f), NEW m, WorkersTold(f, m)
  PROVE  /\ ~ TellsLast(g, "worker_processes") => WorkersTold(g, m)
         /\ TellsLast(g, "worker_processes") /\ m = Unset /\ Processes(Value(g, Len(g))) # 0 =>
              WorkersTold(g, Processes(Value(g, Len(g))))
<1> DEFINE S == Told(f, "worker_processes")
<1>1. /\ Told(g, "worker_processes")
           = S \union (IF TellsLast(g, "worker_processes") THEN {Len(g)} ELSE {})
      /\ S \subseteq 1 .. Len(f)
  <2>1. ~ (OpensLast(g) /\ g[Len(g)][1] = Commands["worker_processes"].at)
    BY LastOpens, CommandsAre DEF Blocks
  <2>2. "worker_processes" \in DOMAIN Commands
    BY CommandsAre
  <2>3. QED  BY <2>1, <2>2, ToldNext
<1>2. \A i \in S : Value(g, i) = Value(f, i)
  BY <1>1, LastOpens
<1>3. ASSUME ~ TellsLast(g, "worker_processes")  PROVE WorkersTold(g, m)
  <2>1. Told(g, "worker_processes") = S
    BY <1>1, <1>3
  <2>2. QED  BY <2>1, <1>2 DEF WorkersTold
<1>4. ASSUME TellsLast(g, "worker_processes"), m = Unset, Processes(Value(g, Len(g))) # 0
      PROVE  WorkersTold(g, Processes(Value(g, Len(g))))
  <2>1. S = {}
    BY <1>4, NumbersAre DEF WorkersTold
  <2>2. Told(g, "worker_processes") = {Len(g)}
    BY <1>1, <1>4, <2>1
  <2>3. QED  BY <2>2, <1>4 DEF WorkersTold
<1>5. QED  BY <1>3, <1>4

LEMMA EventsNext ==
  ASSUME NEW f, NEW g, Longer(f, g), WellNested(f)
  PROVE  /\ OpensLast(g) /\ g[Len(g)][1] = "events" => EventsTold(g) = NoEvents
         /\ ~ (OpensLast(g) /\ g[Len(g)][1] = "events") =>
              EventsTold(g) =
                [use |-> IF TellsLast(g, "use") /\ Value(g, Len(g)) = "select" THEN "select"
                         ELSE EventsTold(f).use,
                 connections |-> IF TellsLast(g, "worker_connections") /\ EventsTold(f).connections = Unset
                                 THEN Number(Value(g, Len(g))) ELSE EventsTold(f).connections]
<1> DEFINE U == Told(f, "use")
           C == Told(f, "worker_connections")
           again == OpensLast(g) /\ g[Len(g)][1] = "events"
<1>1. /\ Told(g, "use") = (IF again THEN {} ELSE U) \union (IF TellsLast(g, "use") THEN {Len(g)} ELSE {})
      /\ Told(g, "worker_connections") =
           (IF again THEN {} ELSE C) \union (IF TellsLast(g, "worker_connections") THEN {Len(g)} ELSE {})
      /\ U \subseteq 1 .. Len(f) /\ C \subseteq 1 .. Len(f)
  <2>1. /\ "use" \in DOMAIN Commands /\ "worker_connections" \in DOMAIN Commands
        /\ Commands["use"].at = "events" /\ Commands["worker_connections"].at = "events"
    BY CommandsAre
  <2>2. QED  BY <2>1, ToldNext
<1> HIDE DEF U, C, again
<1>2. ASSUME again  PROVE EventsTold(g) = NoEvents
  <2>1. Told(g, "use") = {} /\ Told(g, "worker_connections") = {}
    BY <1>1, <1>2, LastOpens DEF again
  <2>2. QED  BY <2>1 DEF EventsTold, NoEvents
<1>3. ASSUME ~ again
      PROVE  (\E i \in Told(g, "use") : Value(g, i) = "select")
             <=> (\E i \in U : Value(f, i) = "select")
                 \/ (TellsLast(g, "use") /\ Value(g, Len(g)) = "select")
  <2>1. \A i \in U : Value(g, i) = Value(f, i)
    BY <1>1, LastOpens
  <2>2. QED  BY <2>1, <1>1, <1>3
<1>4. PICK n \in Nat : n = Len(f) /\ Len(g) = n + 1 /\ C \subseteq 1 .. n
  BY <1>1, LastIs
<1>5. C # {} => \E x \in C : Min(C) = x /\ Value(g, x) = Value(f, x)
  <2>1. ASSUME C # {}  PROVE \E x \in C : Min(C) = x /\ Value(g, x) = Value(f, x)
    <3>1. C \subseteq Nat
      BY <1>4
    <3>2. PICK x \in C : Min(C) = x
      BY <2>1, <3>1, MinIs
    <3>3. Value(g, x) = Value(f, x)
      BY <3>2, <1>1, LastOpens
    <3>4. QED  BY <3>2, <3>3
  <2>2. QED  BY <2>1
<1>6. Min(C \union {n + 1}) = IF C = {} THEN n + 1 ELSE Min(C)
  BY <1>4, MinBeyond
<1>7. EventsTold(f).connections = IF C = {} THEN Unset ELSE Number(Value(f, Min(C)))
  BY DEF EventsTold, C
<1>8. EventsTold(f).connections = Unset <=> C = {}
  BY <1>7, NumbersAre
<1>9. ASSUME ~ again
      PROVE  (IF Told(g, "worker_connections") = {} THEN Unset
              ELSE Number(Value(g, Min(Told(g, "worker_connections")))))
             = IF TellsLast(g, "worker_connections") /\ EventsTold(f).connections = Unset
               THEN Number(Value(g, Len(g))) ELSE EventsTold(f).connections
  <2>1. CASE TellsLast(g, "worker_connections")
    <3>1. Told(g, "worker_connections") = C \union {n + 1} /\ C \union {n + 1} # {}
      BY <1>1, <1>4, <1>9, <2>1
    <3>2. CASE C = {}
      BY <2>1, <3>1, <3>2, <1>4, <1>6, <1>8
    <3>3. CASE C # {}
      BY <2>1, <3>1, <3>3, <1>5, <1>6, <1>7, <1>8
    <3>4. QED  BY <3>2, <3>3
  <2>2. CASE ~ TellsLast(g, "worker_connections")
    <3>1. Told(g, "worker_connections") = C
      BY <1>1, <1>9, <2>2
    <3>2. QED  BY <2>2, <3>1, <1>5, <1>7
  <2>3. QED  BY <2>1, <2>2
<1>10. EventsTold(f).use = IF \E i \in U : Value(f, i) = "select" THEN "select" ELSE "unset"
  BY DEF EventsTold, U
<1>11. ASSUME ~ again
       PROVE  EventsTold(g) =
                [use |-> IF TellsLast(g, "use") /\ Value(g, Len(g)) = "select" THEN "select"
                         ELSE EventsTold(f).use,
                 connections |-> IF TellsLast(g, "worker_connections") /\ EventsTold(f).connections = Unset
                                 THEN Number(Value(g, Len(g))) ELSE EventsTold(f).connections]
  <2>1. (IF \E i \in Told(g, "use") : Value(g, i) = "select" THEN "select" ELSE "unset")
        = IF TellsLast(g, "use") /\ Value(g, Len(g)) = "select" THEN "select" ELSE EventsTold(f).use
    BY <1>3, <1>10, <1>11
  <2>2. EventsTold(g) =
          [use |-> IF \E i \in Told(g, "use") : Value(g, i) = "select" THEN "select" ELSE "unset",
           connections |-> IF Told(g, "worker_connections") = {} THEN Unset
                           ELSE Number(Value(g, Min(Told(g, "worker_connections"))))]
    BY DEF EventsTold
  <2>3. QED  BY <2>1, <2>2, <1>9, <1>11
<1>12. QED  BY <1>2, <1>11 DEF again

\* A block that is open was opened.
LEMMA OpenOpened ==
  ASSUME NEW f \in Seq(Lines), WellNested(f), Here(f) # "main"
  PROVE  Here(f) \in Blocks /\ Opening(f, Here(f)) # {}
<1>1. Len(f) + 1 \in 1 .. Len(f) + 1
  OBVIOUS
<1>2. Opener(f, Len(f) + 1) # 0
  BY <1>1, OpenerIs DEF Here
<1>3. Opener(f, Len(f) + 1) = LastOf(Opening(f, Here(f)))
  BY DEF WellNested
<1>4. QED  BY <1>2, <1>3 DEF LastOf, WellNested, Contexts, Blocks

LEMMA EventsSetNext ==
  ASSUME NEW f, NEW g, Longer(f, g), WellNested(f)
  PROVE  /\ OpensLast(g) => EventsSet(g) = IF g[Len(g)][1] = "events" THEN NoEvents ELSE EventsSet(f)
         /\ ClosesLast(g) /\ Here(f) # "main" =>
              EventsSet(g) = IF Here(f) = "events" THEN WithDefaults(EventsSet(f)) ELSE EventsSet(f)
         /\ ~ OpensLast(g) /\ ~ ClosesLast(g) =>
              EventsSet(g) = IF Here(f) = "events" THEN EventsTold(g) ELSE EventsSet(f)
<1>1. Opening(g, "events") = IF OpensLast(g) /\ g[Len(g)][1] = "events"
                             THEN Opening(f, "events") \union {Len(g)} ELSE Opening(f, "events")
  BY OpeningNext
<1>2. Here(g) = IF ClosesLast(g) THEN "main" ELSE IF OpensLast(g) THEN g[Len(g)][1] ELSE Here(f)
  BY HereNext
<1>3. ASSUME ~ (OpensLast(g) /\ g[Len(g)][1] = "events"),
             ~ TellsLast(g, "use"), ~ TellsLast(g, "worker_connections")
      PROVE  EventsTold(g) = EventsTold(f)
  <2>1. EventsTold(g) = [use |-> EventsTold(f).use, connections |-> EventsTold(f).connections]
    BY <1>3, EventsNext
  <2>2. QED  BY <2>1 DEF EventsTold
<1>4. Commands["use"].at = "events" /\ Commands["worker_connections"].at = "events"
  BY CommandsAre
<1>5. ASSUME OpensLast(g)
      PROVE  EventsSet(g) = IF g[Len(g)][1] = "events" THEN NoEvents ELSE EventsSet(f)
  <2>1. Here(f) = "main" /\ Here(g) = g[Len(g)][1] /\ \A name : ~ TellsLast(g, name)
    BY <1>2, <1>5, LastOpens
  <2>2. CASE g[Len(g)][1] = "events"
    BY <2>1, <2>2, <1>5, EventsNext DEF EventsSet
  <2>3. CASE g[Len(g)][1] # "events"
    <3>1. EventsTold(g) = EventsTold(f) /\ Opening(g, "events") = Opening(f, "events")
      BY <2>1, <2>3, <1>1, <1>3
    <3>2. QED  BY <2>1, <2>3, <3>1 DEF EventsSet
  <2>4. QED  BY <2>2, <2>3
<1>6. ASSUME ClosesLast(g), Here(f) # "main"
      PROVE  EventsSet(g) = IF Here(f) = "events" THEN WithDefaults(EventsSet(f)) ELSE EventsSet(f)
  <2>1. Here(g) = "main" /\ ~ OpensLast(g) /\ \A name : ~ TellsLast(g, name)
    BY <1>2, <1>6, LastOpens
  <2>2. EventsTold(g) = EventsTold(f) /\ Opening(g, "events") = Opening(f, "events")
    BY <2>1, <1>1, <1>3
  <2>3. Here(f) = "events" => Opening(f, "events") # {}
    BY <1>6, LastIs, OpenOpened
  <2>4. QED  BY <2>1, <2>2, <2>3 DEF EventsSet
<1>7. ASSUME ~ OpensLast(g), ~ ClosesLast(g)
      PROVE  EventsSet(g) = IF Here(f) = "events" THEN EventsTold(g) ELSE EventsSet(f)
  <2>1. Here(g) = Here(f) /\ Opening(g, "events") = Opening(f, "events")
    BY <1>1, <1>2, <1>7
  <2>2. Here(f) # "events" => EventsTold(g) = EventsTold(f)
    BY <1>3, <1>4, <1>7, LastOpens
  <2>3. QED  BY <2>1, <2>2 DEF EventsSet
<1>8. QED  BY <1>5, <1>6, <1>7

LEMMA PathNext ==
  ASSUME NEW f, NEW g, Longer(f, g), WellNested(f)
  PROVE  /\ OpensLast(g) => PathTold(g) = IF g[Len(g)][1] = "nodes" THEN <<>> ELSE PathTold(f)
         /\ ClosesLast(g) /\ Here(f) # "main" =>
              PathTold(g) = IF Here(f) = "nodes" /\ PathTold(f) = <<>> THEN <<"default">> ELSE PathTold(f)
         /\ ~ OpensLast(g) /\ ~ ClosesLast(g) =>
              PathTold(g) = IF TellsLast(g, "edge_path") THEN Append(PathTold(f), Value(g, Len(g)))
                            ELSE PathTold(f)
<1>1. Opening(g, "nodes") = IF OpensLast(g) /\ g[Len(g)][1] = "nodes"
                            THEN Opening(f, "nodes") \union {Len(g)} ELSE Opening(f, "nodes")
  BY OpeningNext
<1>2. Here(g) = IF ClosesLast(g) THEN "main" ELSE IF OpensLast(g) THEN g[Len(g)][1] ELSE Here(f)
  BY HereNext
<1>3. Commands["edge_path"].at = "nodes" /\ "edge_path" \in DOMAIN Commands
  BY CommandsAre
<1> DEFINE v == ValuesTold(f, "edge_path")
           w == ValuesTold(g, "edge_path")
<1>4. /\ TellsLast(g, "edge_path") => w = Append(v, Value(g, Len(g)))
      /\ ~ TellsLast(g, "edge_path") /\ OpensLast(g) /\ g[Len(g)][1] = "nodes" => w = <<>>
      /\ ~ TellsLast(g, "edge_path") /\ ~ (OpensLast(g) /\ g[Len(g)][1] = "nodes") => w = v
  BY <1>3, ValuesNext
<1> HIDE DEF v, w
<1>5. /\ PathTold(f) = IF Here(f) = "nodes" \/ Opening(f, "nodes") = {} \/ v # <<>> THEN v ELSE <<"default">>
      /\ PathTold(g) = IF Here(g) = "nodes" \/ Opening(g, "nodes") = {} \/ w # <<>> THEN w ELSE <<"default">>
  BY DEF PathTold, v, w
<1>6. ASSUME OpensLast(g)
      PROVE  PathTold(g) = IF g[Len(g)][1] = "nodes" THEN <<>> ELSE PathTold(f)
  <2>1. Here(f) = "main" /\ Here(g) = g[Len(g)][1] /\ \A name : ~ TellsLast(g, name)
    BY <1>2, <1>6, LastOpens
  <2>2. QED  BY <2>1, <1>1, <1>4, <1>5, <1>6
<1>7. ASSUME ClosesLast(g), Here(f) # "main"
      PROVE  PathTold(g) = IF Here(f) = "nodes" /\ PathTold(f) = <<>> THEN <<"default">> ELSE PathTold(f)
  <2>1. Here(g) = "main" /\ ~ OpensLast(g) /\ \A name : ~ TellsLast(g, name)
    BY <1>2, <1>7, LastOpens
  <2>2. w = v /\ Opening(g, "nodes") = Opening(f, "nodes")
    BY <2>1, <1>1, <1>4
  <2>3. Here(f) = "nodes" => Opening(f, "nodes") # {}
    BY <1>7, LastIs, OpenOpened
  <2>4. QED  BY <2>1, <2>2, <2>3, <1>5
<1>8. ASSUME ~ OpensLast(g), ~ ClosesLast(g)
      PROVE  PathTold(g) = IF TellsLast(g, "edge_path") THEN Append(PathTold(f), Value(g, Len(g)))
                           ELSE PathTold(f)
  <2>1. Here(g) = Here(f) /\ Opening(g, "nodes") = Opening(f, "nodes")
    BY <1>1, <1>2, <1>8
  <2>2. TellsLast(g, "edge_path") => Here(f) = "nodes"
    BY <1>3, LastOpens
  <2>3. QED  BY <2>1, <2>2, <1>4, <1>5, <1>8
<1>9. QED  BY <1>6, <1>7, <1>8

-----------------------------------------------------------------------------
\* What the words and the mark of the last line say of it.
TokenSays(g, token) ==
  LET n == Len(g) IN
  /\ token.args \in Seq(STRING) /\ token.mark \in Marks
  /\ Closes(g, n) <=> token.mark = "}"
  /\ Opens(g, n) <=> token.mark = "{" /\ Len(token.args) = 1 /\ token.args[1] \in Blocks
  /\ \A name \in DOMAIN Commands :
       Tells(g, n, name) <=> /\ token.mark = ";" /\ token.args # <<>> /\ token.args[1] = name
                             /\ Len(token.args) \in Commands[name].words
  /\ Len(token.args) >= 2 => token.args[2] = Value(g, n)
  /\ token.args # <<>> => token.args[1] = g[n][1]
TokenSaysNothing(g, token, args) ==
  /\ token.mark = ";" /\ token.args \in {<<>>, args}
  /\ ~ Closes(g, Len(g)) /\ ~ Opens(g, Len(g)) /\ \A name : ~ Tells(g, Len(g), name)

LEMMA LastToken ==
  ASSUME NEW f, NEW g, Longer(f, g), NEW args
  PROVE  \/ TokenSays(g, ReadToken(g[Len(g)], args))
         \/ TokenSaysNothing(g, ReadToken(g[Len(g)], args), args)
<1>1. PICK line : line = g[Len(g)] /\ line \in Seq(STRING) /\ line # <<>>
  BY LastIs, LinesAssumption
<1>2. PICK token : token = ReadToken(line, args)
  OBVIOUS
<1>3. CASE \A p \in DOMAIN line : ~ Ends(line, p)
  <2>1. token.mark = ";" /\ token.args \in {<<>>, args}
    <3>1. CASE line[1] = "#"
      <4>1. token = [args |-> args, mark |-> ";"]
        BY <1>1, <1>2, <3>1, TokenIs, Zenon
      <4>2. QED  BY <4>1
    <3>2. CASE line[1] # "#"
      <4>1. token = [args |-> <<>>, mark |-> ";"]
        BY <1>1, <1>2, <1>3, <3>2, TokenIs, Zenon
      <4>2. QED  BY <4>1
    <3>3. QED  BY <3>1, <3>2
  <2>2. Len(line) >= 2 => 2 \in DOMAIN line
    BY <1>1
  <2>3. ~ Closes(g, Len(g)) /\ ~ Opens(g, Len(g)) /\ \A name : ~ Tells(g, Len(g), name)
    BY <1>1, <1>3, <2>2 DEF Closes, Opens, Tells
  <2>4. QED  BY <1>1, <1>2, <2>1, <2>3 DEF TokenSaysNothing
<1>4. ASSUME NEW p \in DOMAIN line, Ends(line, p)
      PROVE  TokenSays(g, token)
  <2>1. token.args = SubSeq(line, 1, p - 1) /\ token.mark = line[p]
    <3>1. token = [args |-> SubSeq(line, 1, p - 1), mark |-> line[p]]
      BY <1>1, <1>2, <1>4, TokenIs, Zenon
    <3>2. QED  BY <3>1
  <2>2. PICK a : a = token.args /\ a \in Seq(STRING) /\ Len(a) = p - 1
                 /\ \A i \in 1 .. p - 1 : a[i] = line[i]
    <3>1. p \in 1 .. Len(line)
      BY <1>1
    <3>2. /\ SubSeq(line, 1, p - 1) \in Seq(STRING) /\ Len(SubSeq(line, 1, p - 1)) = p - 1
          /\ \A i \in 1 .. p - 1 : SubSeq(line, 1, p - 1)[i] = line[i]
      BY <1>1, <3>1
    <3>3. QED  BY <2>1, <3>2
  <2>3. p \in Nat /\ p >= 1 /\ (Len(line) >= 2 => 2 \in DOMAIN line)
    BY <1>1
  <2>4. \A q \in DOMAIN line : Ends(line, q) => q = p
    BY <1>1, <1>4, EndsOnce
  <2>5. line[p] \in Marks
    BY <1>4 DEF Ends
  <2>6. Closes(g, Len(g)) <=> line[p] = "}"
    BY <1>1, <1>4, <2>4 DEF Closes
  <2>7. Opens(g, Len(g)) <=> line[p] = "{" /\ Len(a) = 1 /\ a[1] \in Blocks
    <3>1. p = 2 => a[1] = line[1] /\ Len(line) >= 2
      BY <1>1, <2>2
    <3>2. Len(a) = 1 <=> p = 2
      BY <2>2, <2>3
    <3>3. ASSUME Opens(g, Len(g))  PROVE p = 2 /\ line[2] = "{" /\ line[1] \in Blocks
      BY <1>1, <2>3, <2>4, <3>3 DEF Opens, Blocks
    <3>4. ASSUME p = 2, line[2] = "{", line[1] \in Blocks  PROVE Opens(g, Len(g))
      BY <1>1, <1>4, <3>1, <3>4 DEF Opens, Blocks
    <3>5. QED  BY <3>1, <3>2, <3>3, <3>4
  <2>8. ASSUME NEW name \in DOMAIN Commands
        PROVE  Tells(g, Len(g), name) <=> /\ line[p] = ";" /\ a # <<>> /\ a[1] = name
                                          /\ Len(a) \in Commands[name].words
    <3>1. Tells(g, Len(g), name) <=> line[1] = name /\ line[p] = ";" /\ p - 1 \in Commands[name].words
      BY <1>1, <1>4, <2>4 DEF Tells
    <3>2. a # <<>> <=> p >= 2
      BY <2>2, <2>3
    <3>3. p >= 2 => a[1] = line[1]
      BY <2>2, <2>3
    <3>4. CASE p >= 2
      BY <3>1, <3>2, <3>3, <3>4, <2>2
    <3>5. CASE ~ (p >= 2)
      <4>1. p - 1 = 0 /\ a = <<>> /\ p = 1
        BY <3>5, <2>2, <2>3
      <4>2. line[1] # name
        BY <4>1, <2>5, <2>8, CommandsAre DEF Marks
      <4>3. QED  BY <4>1, <4>2, <3>1
    <3>6. QED  BY <3>4, <3>5
  <2>9. Len(a) >= 2 => a[2] = Value(g, Len(g))
    BY <1>1, <2>2, <2>3 DEF Value
  <2>10. a # <<>> => a[1] = line[1]
    BY <2>2, <2>3
  <2>11. QED  BY <1>1, <2>1, <2>2, <2>5, <2>6, <2>7, <2>8, <2>9, <2>10 DEF TokenSays
<1>5. QED  BY <1>1, <1>2, <1>3, <1>4

-----------------------------------------------------------------------------
(* What a line does to the load that reads it.                             *)

Setting == {"daemon", "worker_processes", "error_log", "use", "worker_connections", "edge_path"}

Keeps == UNCHANGED <<root, destroyed, past>>

LineStops ==
  /\ Fail(FALSE) /\ UNCHANGED <<manager, logsRoot>>
  /\ ~ TellsLast(linesRead', "error_log")
  /\ ~ (ClosesLast(linesRead') /\ Here(linesRead) = "nodes")

LinePasses ==
  /\ load' = [load EXCEPT !.args = <<>>]
  /\ Keeps /\ UNCHANGED <<manager, logsRoot>>
  /\ ~ OpensLast(linesRead') /\ ~ ClosesLast(linesRead')
  /\ \A name \in DOMAIN Commands : ~ TellsLast(linesRead', name)

LineCloses ==
  /\ ClosesLast(linesRead') /\ Keeps /\ UNCHANGED logsRoot
  /\ \/ load.at = "events" /\ load' = EventsClosed(load) /\ UNCHANGED manager
     \/ load.at = "nodes" /\ load' = NodesClosed(load) /\ manager' = loads

LineOpens(b) ==
  /\ OpensLast(linesRead') /\ linesRead'[Len(linesRead')][1] = b
  /\ load.at = "main" /\ load' = Opened([load EXCEPT !.args = <<b>>], b)
  /\ Keeps /\ UNCHANGED <<manager, logsRoot>>

Settled(l, name, word) ==
  [at |-> l.at, args |-> <<>>, blocks |-> l.blocks,
   daemon |-> IF name = "daemon" THEN (IF word = "on" THEN 1 ELSE 0) ELSE l.daemon,
   workers |-> IF name = "worker_processes" THEN Processes(word) ELSE l.workers,
   events |-> [use |-> IF name = "use" /\ word = "select" THEN "select" ELSE l.events.use,
               connections |-> IF name = "worker_connections" /\ l.events.connections = Unset
                               THEN Number(word) ELSE l.events.connections],
   path |-> IF name = "edge_path" THEN Append(l.path, word) ELSE l.path]

LineSets(name) ==
  LET word == Value(linesRead', Len(linesRead')) IN
  /\ TellsLast(linesRead', name) /\ ~ OpensLast(linesRead') /\ ~ ClosesLast(linesRead')
  /\ \A other \in DOMAIN Commands \ {name} : ~ TellsLast(linesRead', other)
  /\ load' = Settled(load, name, word)
  /\ name = "worker_processes" => load.workers = Unset /\ Processes(word) # 0
  /\ name = "worker_connections" /\ load.events.connections = Unset => Number(word) # 0
  /\ IF name = "error_log" THEN ErrorLogLinked(word) ELSE UNCHANGED logsRoot
  /\ Keeps /\ UNCHANGED manager

\* The words of a command that is no block change its own setting only.
LEMMA SetIs ==
  ASSUME NEW l \in LoadType, NEW args \in Seq(STRING), l = [load EXCEPT !.args = args],
         load \in LoadType, args[1] \in DOMAIN Commands, args[1] \notin Blocks, NEW s \in Set(l, args),
         args[1] = "use" => load.events.use \in {"unset", "select"}
  PROVE  /\ args[1] \in Setting /\ [s EXCEPT !.args = <<>>] = Settled(load, args[1], args[2])
         /\ s.at = load.at
         /\ args[1] = "worker_processes" => load.workers = Unset /\ Processes(args[2]) # 0
         /\ args[1] = "worker_connections" /\ load.events.connections = Unset => Number(args[2]) # 0
<1>1. PICK at, old, daemon, workers, use, connections, path, blocks :
        load = [at |-> at, args |-> old, daemon |-> daemon, workers |-> workers,
                events |-> [use |-> use, connections |-> connections], path |-> path,
                blocks |-> blocks]
  <2>1. load.events = [use |-> load.events.use, connections |-> load.events.connections]
    BY DEF LoadType, EventsType
  <2>2. load = [at |-> load.at, args |-> load.args, daemon |-> load.daemon, workers |-> load.workers,
                events |-> load.events, path |-> load.path, blocks |-> load.blocks]
    BY DEF LoadType, EventsType
  <2>3. QED  BY <2>1, <2>2
<1> DEFINE E(r, d, w, e, p) ==
      [at |-> at, args |-> r, daemon |-> d, workers |-> w, events |-> e, path |-> p, blocks |-> blocks]
           R(r, d, w, u, c, p) == E(r, d, w, [use |-> u, connections |-> c], p)
<1>2. load = R(old, daemon, workers, use, connections, path)
      /\ l = R(args, daemon, workers, use, connections, path)
  BY <1>1
<1>3. args[1] \in {"daemon", "worker_processes", "error_log", "use", "worker_connections",
                   "accept_mutex_delay", "edge_path"}
  BY CommandsAre DEF Blocks
<1>4. PICK word : word = args[2]
  OBVIOUS
<1>5. Settled(load, args[1], word) =
        R(<<>>,
          IF args[1] = "daemon" THEN (IF word = "on" THEN 1 ELSE 0) ELSE daemon,
          IF args[1] = "worker_processes" THEN Processes(word) ELSE workers,
          IF args[1] = "use" /\ word = "select" THEN "select" ELSE use,
          IF args[1] = "worker_connections" /\ connections = Unset THEN Number(word) ELSE connections,
          IF args[1] = "edge_path" THEN Append(path, word) ELSE path)
  BY <1>1 DEF Settled
<1>6. \A r, d, w, u, c, p : [R(r, d, w, u, c, p) EXCEPT !.args = <<>>] = R(<<>>, d, w, u, c, p)
                            /\ R(r, d, w, u, c, p).at = at
  OBVIOUS
<1>7. load.at = at /\ load.workers = workers /\ load.events.connections = connections
      /\ load.events.use = use
  BY <1>1
<1>8. CASE args[1] = "daemon"
  <2>1. s = [l EXCEPT !.daemon = IF word = "on" THEN 1 ELSE 0]
    BY <1>4, <1>8 DEF Set
  <2>2. s = R(args, IF word = "on" THEN 1 ELSE 0, workers, use, connections, path)
    BY <2>1, <1>2
  <2> HIDE DEF R
  <2>3. QED  BY <2>2, <1>4, <1>5, <1>6, <1>7, <1>8 DEF Setting
<1>9. CASE args[1] = "worker_processes"
  <2>1. s \in SetWorkers(l, word)
    BY <1>4, <1>9 DEF Set
  <2>2. s = [l EXCEPT !.workers = Processes(word)] /\ l.workers = Unset /\ Processes(word) # 0
    BY <2>1 DEF SetWorkers
  <2>3. s = R(args, daemon, Processes(word), use, connections, path) /\ l.workers = workers
    BY <2>2, <1>2
  <2> HIDE DEF R
  <2>4. Settled(load, args[1], word) = R(<<>>, daemon, Processes(word), use, connections, path)
    BY <1>5, <1>9
  <2>5. [s EXCEPT !.args = <<>>] = Settled(load, args[1], word) /\ s.at = at
    BY <2>3, <2>4, <1>6
  <2>6. QED  BY <2>2, <2>3, <2>5, <1>4, <1>7, <1>9 DEF Setting
<1>10. CASE args[1] = "error_log"
  <2>1. s = R(args, daemon, workers, use, connections, path)
    BY <1>2, <1>10 DEF Set
  <2> HIDE DEF R
  <2>2. Settled(load, args[1], word) = R(<<>>, daemon, workers, use, connections, path)
    BY <1>5, <1>10
  <2>3. [s EXCEPT !.args = <<>>] = Settled(load, args[1], word) /\ s.at = at
    BY <2>1, <2>2, <1>6
  <2>4. QED  BY <2>3, <1>4, <1>7, <1>10 DEF Setting
<1>11. CASE args[1] = "use"
  <2>1. s = IF l.events.use = "unset" /\ word = "select" THEN [l EXCEPT !.events.use = word] ELSE l
    BY <1>4, <1>11 DEF Set, EventUse
  <2>2. l.events.use = use
    BY <1>2
  <2>3. [l EXCEPT !.events.use = word] = R(args, daemon, workers, word, connections, path)
    <3>1. l.events = [use |-> use, connections |-> connections]
      BY <1>2
    <3>2. [l EXCEPT !.events.use = word] = [l EXCEPT !.events = [l.events EXCEPT !.use = word]]
      OBVIOUS
    <3>3. [l.events EXCEPT !.use = word] = [use |-> word, connections |-> connections]
      BY <3>1
    <3>4. \A e, h : [E(args, daemon, workers, h, path) EXCEPT !.events = e] = E(args, daemon, workers, e, path)
      OBVIOUS
    <3>5. PICK e, h : e = [use |-> word, connections |-> connections] /\ h = [use |-> use, connections |-> connections]
      OBVIOUS
    <3>6. l = E(args, daemon, workers, h, path) /\ R(args, daemon, workers, word, connections, path) = E(args, daemon, workers, e, path)
      BY <1>2, <3>5
    <3> HIDE DEF E, R
    <3>7. [l EXCEPT !.events = e] = E(args, daemon, workers, e, path)
      BY <3>4, <3>6
    <3>8. [l EXCEPT !.events.use = word] = [l EXCEPT !.events = e]
      BY <3>2, <3>3, <3>5
    <3>9. QED  BY <3>6, <3>7, <3>8
  <2> HIDE DEF R
  <2>4. s = R(args, daemon, workers, IF word = "select" THEN "select" ELSE use, connections, path)
    BY <2>1, <2>2, <2>3, <1>2, <1>7, <1>11
  <2>5. QED  BY <2>4, <1>4, <1>5, <1>6, <1>7, <1>11 DEF Setting
<1>12. CASE args[1] = "worker_connections"
  <2>1. s \in EventConnections(l, word)
    BY <1>4, <1>12 DEF Set
  <2>2. l.events.connections = connections
    BY <1>2
  <2>3. [l EXCEPT !.events.connections = Number(word)] = R(args, daemon, workers, use, Number(word), path)
    <3>1. l.events = [use |-> use, connections |-> connections]
      BY <1>2
    <3>2. [l EXCEPT !.events.connections = Number(word)]
            = [l EXCEPT !.events = [l.events EXCEPT !.connections = Number(word)]]
      OBVIOUS
    <3>3. [l.events EXCEPT !.connections = Number(word)] = [use |-> use, connections |-> Number(word)]
      BY <3>1
    <3>4. \A e, h : [E(args, daemon, workers, h, path) EXCEPT !.events = e] = E(args, daemon, workers, e, path)
      OBVIOUS
    <3>5. PICK e, h : e = [use |-> use, connections |-> Number(word)] /\ h = [use |-> use, connections |-> connections]
      OBVIOUS
    <3>6. l = E(args, daemon, workers, h, path) /\ R(args, daemon, workers, use, Number(word), path) = E(args, daemon, workers, e, path)
      BY <1>2, <3>5
    <3> HIDE DEF E, R
    <3>7. [l EXCEPT !.events = e] = E(args, daemon, workers, e, path)
      BY <3>4, <3>6
    <3>8. [l EXCEPT !.events.connections = Number(word)] = [l EXCEPT !.events = e]
      BY <3>2, <3>3, <3>5
    <3>9. QED  BY <3>6, <3>7, <3>8
  <2> HIDE DEF R
  <2>4. CASE connections # Unset
    <3>1. s = R(args, daemon, workers, use, connections, path)
      BY <2>1, <2>2, <2>4, <1>2 DEF EventConnections
    <3>2. Settled(load, args[1], word) = R(<<>>, daemon, workers, use, connections, path)
      BY <2>4, <1>5, <1>12
    <3>3. [s EXCEPT !.args = <<>>] = Settled(load, args[1], word) /\ s.at = at
      BY <3>1, <3>2, <1>6
    <3>4. QED  BY <3>3, <2>4, <1>4, <1>7, <1>12 DEF Setting
  <2>5. CASE connections = Unset
    <3>1. s = R(args, daemon, workers, use, Number(word), path) /\ Number(word) # 0
      BY <2>1, <2>2, <2>3, <2>5 DEF EventConnections
    <3>2. QED  BY <3>1, <2>5, <1>4, <1>5, <1>6, <1>7, <1>12 DEF Setting
  <2>6. QED  BY <2>4, <2>5
<1>13. CASE args[1] = "accept_mutex_delay"
  BY <1>13 DEF Set
<1>14. CASE args[1] = "edge_path"
  <2>1. s = [l EXCEPT !.path = Append(l.path, word)]
    BY <1>4, <1>14 DEF Set
  <2>2. s = R(args, daemon, workers, use, connections, Append(path, word))
    BY <2>1, <1>2
  <2> HIDE DEF R
  <2>3. QED  BY <2>2, <1>4, <1>5, <1>6, <1>7, <1>14 DEF Setting
<1>15. QED  BY <1>3, <1>8, <1>9, <1>10, <1>11, <1>12, <1>13, <1>14

LEMMA KeptIs ==
  ASSUME load \in LoadType, NEW args
  PROVE  Kept([load EXCEPT !.args = args]) = [load EXCEPT !.args = <<>>]
<1>1. PICK at, old, daemon, workers, events, path, blocks :
        load = [at |-> at, args |-> old, daemon |-> daemon, workers |-> workers,
                events |-> events, path |-> path, blocks |-> blocks]
  <2>1. load = [at |-> load.at, args |-> load.args, daemon |-> load.daemon, workers |-> load.workers,
                events |-> load.events, path |-> load.path, blocks |-> load.blocks]
    BY DEF LoadType, EventsType
  <2>2. QED  BY <2>1
<1>2. PICK l : l = [load EXCEPT !.args = args]
  OBVIOUS
<1>3. l = [at |-> at, args |-> args, daemon |-> daemon, workers |-> workers,
           events |-> events, path |-> path, blocks |-> blocks]
  BY <1>1, <1>2
<1>4. Kept(l) = [l EXCEPT !.args = <<>>]
  BY <1>1, <1>3 DEF Kept
<1>5. [l EXCEPT !.args = <<>>] = [load EXCEPT !.args = <<>>]
  BY <1>1, <1>3
<1>6. QED  BY <1>2, <1>4, <1>5

LEMMA LineRead ==
  ASSUME load \in LoadType, load.at \in Contexts, ReadSoFar, linesRead \in Seq(Lines),
         NEW line \in Lines, ReadLine(line)
  PROVE  /\ Longer(linesRead, linesRead') /\ UNCHANGED loads
         /\ \/ LineStops \/ LinePasses \/ LineCloses
            \/ \E b \in Blocks : LineOpens(b)
            \/ \E name \in Setting : LineSets(name)
<1> DEFINE f == linesRead
           g == linesRead'
           n == Len(linesRead')
<1>1. /\ Longer(f, g) /\ UNCHANGED loads /\ g[n] = line
  <2>1. g = Append(f, line)
    BY DEF ReadLine
  <2>2. loads' = loads
    BY DEF ReadLine
  <2>3. g = Append(linesRead, line) => Longer(linesRead, g) /\ g[Len(g)] = line
    BY AppendedLonger
  <2>4. QED  BY <2>1, <2>2, <2>3
<1>2. BlockOf(g, n) = load.at /\ Here(f) = load.at
  BY <1>1, HereNext DEF ReadSoFar, Reads
<1>3. PICK token : token = ReadToken(line, load.args)
  OBVIOUS
<1>4. \/ token.mark = "}" /\ CloseBlock
      \/ /\ token.mark # "}" /\ token.args = <<>>
         /\ GoesOn([load EXCEPT !.args = <<>>]) /\ UNCHANGED <<manager, logsRoot>>
      \/ token.mark # "}" /\ token.args # <<>> /\ Handler(token.args, token.mark)
  BY <1>3 DEF ReadLine
<1>5. TokenSays(g, token) \/ TokenSaysNothing(g, token, load.args)
  BY <1>1, <1>3, LastToken
<1>6. load.args = <<>> \/ (load.at # "main" /\ load.args = <<load.at>>)
  BY DEF ReadSoFar, Reads
<1> DEFINE args == token.args
<1>7. \A a : Kept([load EXCEPT !.args = a]) = [load EXCEPT !.args = <<>>]
  BY KeptIs
<1> HIDE DEF f, g, n, args
\* A "}".
<1>8. CASE token.mark = "}"
  <2>1. TokenSays(g, token) /\ CloseBlock
    BY <1>4, <1>5, <1>8 DEF TokenSaysNothing
  <2>2. ClosesLast(g) /\ ~ TellsLast(g, "error_log")
    BY <2>1, <1>8, CommandsAre DEF TokenSays, ClosesLast, TellsLast, n, g
  <2>3. CASE load.at = "main"
    <3>1. Fail(FALSE) /\ UNCHANGED <<manager, logsRoot>>
      BY <2>1, <2>3 DEF CloseBlock
    <3>2. QED  BY <3>1, <2>2, <2>3, <1>1, <1>2 DEF LineStops, f, g
  <2>4. CASE load.at = "events"
    <3>1. CASE TooMany(WithDefaults(load.events))
      <4>1. Fail(FALSE) /\ UNCHANGED <<manager, logsRoot>>
        BY <2>1, <2>4, <3>1 DEF CloseBlock
      <4>2. QED  BY <4>1, <2>2, <2>4, <1>1, <1>2 DEF LineStops, f, g
    <3>2. CASE ~ TooMany(WithDefaults(load.events))
      <4>1. GoesOn(EventsClosed(load)) /\ UNCHANGED <<manager, logsRoot>>
        BY <2>1, <2>4, <3>2 DEF CloseBlock
      <4>2. QED  BY <4>1, <2>2, <2>4, <1>1 DEF LineCloses, GoesOn, Keeps, f, g
    <3>3. QED  BY <3>1, <3>2
  <2>5. CASE load.at = "nodes"
    <3>1. GoesOn(NodesClosed(load)) /\ ManagerMade /\ UNCHANGED logsRoot
      BY <2>1, <2>5 DEF CloseBlock
    <3>2. QED  BY <3>1, <2>2, <2>5, <1>1 DEF LineCloses, GoesOn, ManagerMade, Keeps, f, g
  <2>6. QED  BY <2>3, <2>4, <2>5 DEF Contexts
\* No words.
<1>9. CASE token.mark # "}" /\ args = <<>>
  <2>1. GoesOn([load EXCEPT !.args = <<>>]) /\ UNCHANGED <<manager, logsRoot>>
    BY <1>4, <1>9 DEF args
  <2>2. ~ Closes(g, n) /\ ~ Opens(g, n) /\ \A name \in DOMAIN Commands : ~ Tells(g, n, name)
    <3>1. CASE TokenSays(g, token)
      <4>1. Len(args) = 0
        BY <1>9
      <4>2. ~ (Len(args) = 1)
        BY <4>1
      <4>3. QED  BY <4>2, <3>1, <1>9 DEF TokenSays, args, n, g
    <3>2. CASE TokenSaysNothing(g, token, load.args)
      BY <3>2 DEF TokenSaysNothing, n, g
    <3>3. QED  BY <3>1, <3>2, <1>5
  <2>3. LinePasses
    BY <2>1, <2>2 DEF LinePasses, GoesOn, Keeps, OpensLast, ClosesLast, TellsLast, n, g
  <2>4. QED  BY <2>3, <1>1 DEF f, g
\* A comment right after the line that opened the block.
<1>10. CASE token.mark # "}" /\ args # <<>> /\ TokenSaysNothing(g, token, load.args)
  <2>1. args = <<load.at>> /\ load.at # "main" /\ Handler(args, token.mark)
    BY <1>4, <1>6, <1>10 DEF TokenSaysNothing, args
  <2>2. args[1] = load.at /\ load.at \in Blocks
    BY <2>1 DEF Contexts, Blocks
  <2>3. args[1] \in DOMAIN Commands /\ Commands[args[1]].at # load.at
    BY <2>1, <2>2, CommandsAre DEF Blocks
  <2>4. GoesOn([load EXCEPT !.args = <<>>]) /\ UNCHANGED <<manager, logsRoot>>
    BY <2>1, <2>3, <1>7 DEF Handler
  <2>5. LinePasses
    BY <2>4, <1>10 DEF LinePasses, GoesOn, Keeps, OpensLast, ClosesLast, TellsLast, TokenSaysNothing, g
  <2>6. QED  BY <2>5, <1>1 DEF f, g
\* Words that name a command, or none.
<1>11. CASE token.mark # "}" /\ args # <<>> /\ TokenSays(g, token)
  <2> DEFINE known == args[1] \in DOMAIN Commands
             cmd == Commands[args[1]]
             fits == cmd.block = (token.mark = "{") /\ Len(args) \in cmd.words
             l == [load EXCEPT !.args = args]
  <2>1. Handler(args, token.mark)
    BY <1>4, <1>11 DEF args
  <2>2. /\ UNCHANGED manager
        /\ \/ ~ known /\ Fail(FALSE) /\ UNCHANGED logsRoot
           \/ known /\ cmd.at # load.at /\ GoesOn(Kept(l)) /\ UNCHANGED logsRoot
           \/ known /\ cmd.at = load.at /\ (~fits \/ Set(l, args) = {}) /\ Fail(FALSE) /\ UNCHANGED logsRoot
           \/ /\ known /\ cmd.at = load.at /\ fits
              /\ \E s \in Set(l, args) : GoesOn(Kept(s))
              /\ IF args[1] = "error_log" THEN ErrorLogLinked(args[2]) ELSE UNCHANGED logsRoot
    BY <2>1 DEF Handler
  <2>3. /\ args \in Seq(STRING) /\ token.mark \in {";", "{"} /\ args[1] = g[n][1]
        /\ ~ Closes(g, n)
        /\ Opens(g, n) <=> token.mark = "{" /\ Len(args) = 1 /\ args[1] \in Blocks
        /\ \A name \in DOMAIN Commands :
             Tells(g, n, name) <=> token.mark = ";" /\ args[1] = name /\ Len(args) \in Commands[name].words
        /\ Len(args) >= 2 => args[2] = Value(g, n)
    BY <1>11 DEF TokenSays, args, n, g, Marks
  <2> HIDE DEF known, cmd, fits, l
  <2>4. CASE ~ known
    <3>1. Fail(FALSE) /\ UNCHANGED <<manager, logsRoot>>
      BY <2>2, <2>4
    <3>2. ~ TellsLast(g, "error_log") /\ ~ ClosesLast(g)
      <4>1. "error_log" \in DOMAIN Commands
        BY CommandsAre
      <4>2. QED  BY <2>3, <2>4, <4>1 DEF TellsLast, ClosesLast, known, n, g
    <3>3. QED  BY <3>1, <3>2, <1>1 DEF LineStops, f, g
  <2>5. CASE known /\ cmd.at # load.at
    <3>1. GoesOn([load EXCEPT !.args = <<>>]) /\ UNCHANGED <<manager, logsRoot>>
      BY <2>2, <2>5, <1>7 DEF l
    <3>2. ~ OpensLast(g)
      <4>1. SUFFICES ASSUME OpensLast(g)  PROVE FALSE
        OBVIOUS
      <4>2. args[1] \in Blocks /\ load.at = "main"
        BY <4>1, <2>3, <1>2 DEF OpensLast, n, g
      <4>3. Commands[args[1]].at = "main"
        BY <4>2, CommandsAre DEF Blocks
      <4>4. QED  BY <4>2, <4>3, <2>5 DEF cmd
    <3>3. \A name \in DOMAIN Commands : ~ TellsLast(g, name)
      BY <2>3, <2>5, <1>2 DEF TellsLast, cmd, n, g
    <3>4. LinePasses
      BY <3>1, <3>2, <3>3, <2>3 DEF LinePasses, GoesOn, Keeps, ClosesLast, n, g
    <3>5. QED  BY <3>4, <1>1 DEF f, g
  <2>6. CASE known /\ cmd.at = load.at /\ (~fits \/ Set(l, args) = {})
    <3>1. Fail(FALSE) /\ UNCHANGED <<manager, logsRoot>>
      <4>1. SUFFICES ASSUME fits, \E s \in Set(l, args) : GoesOn(Kept(s))  PROVE FALSE
        BY <2>2, <2>6
      <4>2. QED  BY <4>1, <2>6
    <3>2. ~ TellsLast(g, "error_log")
      <4>1. SUFFICES ASSUME TellsLast(g, "error_log")  PROVE FALSE
        OBVIOUS
      <4>2. token.mark = ";" /\ args[1] = "error_log" /\ Len(args) \in Commands["error_log"].words
        BY <4>1, <2>3, CommandsAre DEF TellsLast, n, g
      <4>3. fits
        <5>1. ~ Commands["error_log"].block /\ Commands["error_log"].block \in BOOLEAN
          BY DEF Commands
        <5>2. Commands["error_log"].block = (token.mark = "{")
          BY <5>1, <4>2, Zenon
        <5>3. QED  BY <5>2, <4>2 DEF fits, cmd
      <4>4. Set(l, args) = {l}
        BY <4>2 DEF Set
      <4>5. QED  BY <4>3, <4>4, <2>6
    <3>3. QED  BY <3>1, <3>2, <2>3, <1>1 DEF LineStops, ClosesLast, f, g, n
  <2>7. CASE known /\ cmd.at = load.at /\ fits /\ Set(l, args) # {}
    <3>1. PICK s \in Set(l, args) : GoesOn(Kept(s))
      BY <2>2, <2>7
    <3>2. IF args[1] = "error_log" THEN ErrorLogLinked(args[2]) ELSE UNCHANGED logsRoot
      BY <2>2, <2>7
    <3>3. CASE args[1] \in Blocks
      <4>1. load.at = "main"
        BY <2>7, <3>3, CommandsAre DEF cmd, Blocks
      <4>2. token.mark = "{" /\ Len(args) = 1
        <5>1. cmd.block /\ cmd.words = {1}
          BY <3>3, <2>7, CommandsAre DEF cmd, known, Blocks
        <5>2. cmd.block = (token.mark = "{") /\ Len(args) \in cmd.words
          BY <2>7 DEF fits
        <5>3. token.mark = "{"
          BY <5>1, <5>2, Zenon
        <5>4. QED  BY <5>1, <5>2, <5>3
      <4>3. OpensLast(g)
        BY <4>1, <4>2, <2>3, <3>3, <1>2 DEF OpensLast, n, g
      <4>4. PICK b \in Blocks : b = args[1]
        BY <3>3
      <4>5. args = <<b>>
        <5>1. \A x : x \in Seq(STRING) /\ Len(x) = 1 => x = <<x[1]>>
          OBVIOUS
        <5>2. QED  BY <5>1, <4>2, <4>4, <2>3, Zenon
      <4>6. s = Opened([load EXCEPT !.args = <<b>>], b)
        BY <4>4, <4>5 DEF Set, l, Blocks
      <4>7. s.at = b
        BY <4>6 DEF Opened, LoadType, EventsType
      <4>8. Kept(s) = s
        BY <4>1, <4>7 DEF Kept, Blocks
      <4>9. LineOpens(b)
        BY <3>1, <3>2, <4>1, <4>3, <4>4, <4>6, <4>8, <2>2, <2>3 DEF LineOpens, GoesOn, Keeps, g, n, Blocks
      <4>10. QED  BY <4>9, <1>1 DEF f, g
    <3>4. CASE args[1] \notin Blocks
      <4>1. token.mark = ";" /\ Len(args) \in Commands[args[1]].words
        <5>1. ~ cmd.block
          BY <3>4, <2>7, CommandsAre DEF cmd, known, Blocks
        <5>2. cmd.block = (token.mark = "{") /\ Len(args) \in cmd.words
          BY <2>7 DEF fits
        <5>3. token.mark # "{"
          BY <5>1, <5>2, Zenon
        <5>4. QED  BY <5>2, <5>3, <2>3 DEF cmd
      <4>2. TellsLast(g, args[1]) /\ \A other \in DOMAIN Commands \ {args[1]} : ~ TellsLast(g, other)
        BY <4>1, <2>3, <2>7, <1>2 DEF TellsLast, known, cmd, n, g
      <4>3. ~ OpensLast(g) /\ ~ ClosesLast(g)
        BY <3>4, <2>3 DEF OpensLast, ClosesLast, n, g
      <4>4. args[1] = "use" => load.events.use \in {"unset", "select"}
        <5>1. args[1] = "use" => Here(linesRead) = "events"
          BY <2>7, <1>2, CommandsAre DEF cmd, f
        <5>2. Here(linesRead) = "events" => load.events = EventsTold(linesRead)
          BY DEF ReadSoFar, Reads, EventsSet
        <5>3. EventsTold(linesRead).use \in {"unset", "select"}
          BY DEF EventsTold
        <5>4. QED  BY <5>1, <5>2, <5>3
      <4>5. l \in LoadType
        <5>1. Seq(STRING) \subseteq Seq(Words)
          BY DEF Words
        <5>2. \A a \in Seq(Words) : [load EXCEPT !.args = a] \in LoadType
          BY DEF LoadType
        <5>3. QED  BY <5>1, <5>2, <2>3 DEF l
      <4>6. PICK name \in DOMAIN Commands : name = args[1]
        BY <2>7 DEF known
      <4>7. /\ name \in Setting /\ [s EXCEPT !.args = <<>>] = Settled(load, name, args[2]) /\ s.at = load.at
            /\ name = "worker_processes" => load.workers = Unset /\ Processes(args[2]) # 0
            /\ name = "worker_connections" /\ load.events.connections = Unset => Number(args[2]) # 0
        BY <2>3, <2>7, <3>4, <4>4, <4>5, <4>6, SetIs DEF l, known
      <4>8. args[2] = Value(g, n)
        <5>1. Len(args) >= 2
          <6>1. Commands[name].words = {2} \/ Commands[name].words = {2, 3, 4}
            BY <4>7, CommandsAre DEF Setting
          <6>2. Len(args) \in {2} \/ Len(args) \in {2, 3, 4}
            BY <4>1, <4>6, <6>1
          <6>3. PICK k : k = Len(args) /\ (k = 2 \/ k = 3 \/ k = 4)
            BY <6>2
          <6>4. QED  BY <6>3
        <5>2. QED  BY <5>1, <2>3
      <4>9. Kept(s) = Settled(load, name, args[2])
        BY <4>7 DEF Kept
      <4>10. LineSets(name)
        BY <3>1, <3>2, <4>2, <4>3, <4>6, <4>7, <4>8, <4>9, <2>2 DEF LineSets, GoesOn, Keeps, g, n
      <4>11. QED  BY <4>7, <4>10, <1>1 DEF f, g
    <3>5. QED  BY <3>3, <3>4
  <2>8. QED  BY <2>4, <2>5, <2>6, <2>7
<1>12. QED  BY <1>5, <1>8, <1>9, <1>10, <1>11

\* A line that opens and closes nothing sets what it tells, and no more.
LEMMA StaysNext ==
  ASSUME NEW f, NEW g, Longer(f, g), NEW l \in LoadType, Reads(l, f), ~ OpensLast(g), ~ ClosesLast(g)
  PROVE  /\ WellNested(g) /\ l.at = Here(g) /\ l.blocks = {b \in Blocks : Opening(g, b) # {}}
         /\ DaemonTold(g) = IF TellsLast(g, "daemon") THEN (IF Value(g, Len(g)) = "on" THEN 1 ELSE 0)
                            ELSE l.daemon
         /\ EventsSet(g) =
              [use |-> IF TellsLast(g, "use") /\ Value(g, Len(g)) = "select" THEN "select"
                       ELSE l.events.use,
               connections |-> IF TellsLast(g, "worker_connections") /\ l.events.connections = Unset
                               THEN Number(Value(g, Len(g))) ELSE l.events.connections]
         /\ PathTold(g) = IF TellsLast(g, "edge_path") THEN Append(l.path, Value(g, Len(g))) ELSE l.path
<1>1. WellNested(f) /\ l.at = Here(f) /\ l.daemon = DaemonTold(f) /\ l.path = PathTold(f)
      /\ l.events = EventsSet(f) /\ l.blocks = {b \in Blocks : Opening(f, b) # {}}
  BY DEF Reads
<1>2. WellNested(g)
  BY <1>1, WellNestedNext
<1>3. Here(g) = Here(f)
  BY HereNext
<1>4. \A b : Opening(g, b) = Opening(f, b)
  BY OpeningNext
<1>5. {b \in Blocks : Opening(g, b) # {}} = {b \in Blocks : Opening(f, b) # {}}
  BY <1>4
<1>6. DaemonTold(g) = IF TellsLast(g, "daemon") THEN (IF Value(g, Len(g)) = "on" THEN 1 ELSE 0)
                      ELSE l.daemon
  BY <1>1, DaemonNext
<1>7. PathTold(g) = IF TellsLast(g, "edge_path") THEN Append(l.path, Value(g, Len(g))) ELSE l.path
  BY <1>1, PathNext
<1>8. EventsSet(g) =
        [use |-> IF TellsLast(g, "use") /\ Value(g, Len(g)) = "select" THEN "select"
                 ELSE l.events.use,
         connections |-> IF TellsLast(g, "worker_connections") /\ l.events.connections = Unset
                         THEN Number(Value(g, Len(g))) ELSE l.events.connections]
  <2>1. EventsSet(g) = IF Here(f) = "events" THEN EventsTold(g) ELSE EventsSet(f)
    BY <1>1, EventsSetNext
  <2>2. CASE Here(f) = "events"
    <3>1. EventsTold(f) = l.events
      BY <2>2, <1>1 DEF EventsSet
    <3>2. EventsTold(g) =
            [use |-> IF TellsLast(g, "use") /\ Value(g, Len(g)) = "select" THEN "select"
                     ELSE EventsTold(f).use,
             connections |-> IF TellsLast(g, "worker_connections") /\ EventsTold(f).connections = Unset
                             THEN Number(Value(g, Len(g))) ELSE EventsTold(f).connections]
      BY <1>1, EventsNext
    <3>3. QED  BY <3>1, <3>2, <2>1, <2>2, Zenon
  <2>3. CASE Here(f) # "events"
    <3>1. ~ TellsLast(g, "use") /\ ~ TellsLast(g, "worker_connections")
      <4>1. Commands["use"].at = "events" /\ Commands["worker_connections"].at = "events"
        BY CommandsAre
      <4>2. QED  BY <4>1, <2>3, LastOpens
    <3>2. EventsSet(g) = l.events
      BY <2>1, <2>3, <1>1
    <3>3. l.events = [use |-> l.events.use, connections |-> l.events.connections]
      BY DEF LoadType, EventsType
    <3>4. QED  BY <3>1, <3>2, <3>3
  <2>4. QED  BY <2>2, <2>3
<1>9. QED  BY <1>1, <1>2, <1>3, <1>5, <1>6, <1>7, <1>8

LEMMA PassNext ==
  ASSUME NEW f, NEW g, Longer(f, g), NEW l \in LoadType, Reads(l, f), ~ OpensLast(g), ~ ClosesLast(g),
         \A name \in DOMAIN Commands : ~ TellsLast(g, name)
  PROVE  Reads([l EXCEPT !.args = <<>>], g) /\ [l EXCEPT !.args = <<>>] \in LoadType
<1>1. ~ TellsLast(g, "daemon") /\ ~ TellsLast(g, "worker_processes") /\ ~ TellsLast(g, "use")
      /\ ~ TellsLast(g, "worker_connections") /\ ~ TellsLast(g, "edge_path")
  BY CommandsAre
<1>2. /\ WellNested(g) /\ l.at = Here(g) /\ l.blocks = {b \in Blocks : Opening(g, b) # {}}
      /\ DaemonTold(g) = l.daemon /\ PathTold(g) = l.path
      /\ EventsSet(g) = [use |-> l.events.use, connections |-> l.events.connections]
  BY <1>1, StaysNext
<1>3. WorkersTold(g, l.workers)
  <2>1. WellNested(f) /\ WorkersTold(f, l.workers)
    BY DEF Reads
  <2>2. QED  BY <2>1, <1>1, WorkersNext
<1>4. l.events = EventsSet(g) /\ l.events.connections # 0
  BY <1>2 DEF LoadType, EventsType, Reads
<1>5. PICK m : m = [l EXCEPT !.args = <<>>]
  OBVIOUS
<1>6. /\ m.at = l.at /\ m.args = <<>> /\ m.blocks = l.blocks /\ m.daemon = l.daemon
      /\ m.workers = l.workers /\ m.events = l.events /\ m.path = l.path /\ m \in LoadType
  <2>1. m = [at |-> l.at, args |-> <<>>, daemon |-> l.daemon, workers |-> l.workers,
             events |-> l.events, path |-> l.path, blocks |-> l.blocks]
    BY <1>5 DEF LoadType, EventsType
  <2>2. <<>> \in Seq(Words)
    OBVIOUS
  <2>3. QED  BY <2>1, <2>2 DEF LoadType, EventsType
<1>7. Reads(m, g)
  BY <1>2, <1>3, <1>4, <1>6 DEF Reads
<1>8. QED  BY <1>5, <1>6, <1>7

LEMMA SetNext ==
  ASSUME NEW f, NEW g, Longer(f, g), NEW l \in LoadType, Reads(l, f), ~ OpensLast(g), ~ ClosesLast(g),
         NEW name \in Setting, TellsLast(g, name),
         \A other \in DOMAIN Commands \ {name} : ~ TellsLast(g, other),
         NEW word \in STRING, word = Value(g, Len(g)),
         name = "worker_processes" => l.workers = Unset /\ Processes(word) # 0,
         name = "worker_connections" /\ l.events.connections = Unset => Number(word) # 0
  PROVE  Reads(Settled(l, name, word), g) /\ Settled(l, name, word) \in LoadType
<1>1. \A other \in Setting : TellsLast(g, other) <=> other = name
  BY CommandsAre DEF Setting
<1>2. /\ WellNested(g) /\ l.at = Here(g) /\ l.blocks = {b \in Blocks : Opening(g, b) # {}}
      /\ DaemonTold(g) = (IF name = "daemon" THEN (IF word = "on" THEN 1 ELSE 0) ELSE l.daemon)
      /\ EventsSet(g) =
           [use |-> IF name = "use" /\ word = "select" THEN "select" ELSE l.events.use,
            connections |-> IF name = "worker_connections" /\ l.events.connections = Unset
                            THEN Number(word) ELSE l.events.connections]
      /\ PathTold(g) = (IF name = "edge_path" THEN Append(l.path, word) ELSE l.path)
  <2>1. /\ TellsLast(g, "daemon") <=> name = "daemon"
        /\ TellsLast(g, "use") <=> name = "use"
        /\ TellsLast(g, "worker_connections") <=> name = "worker_connections"
        /\ TellsLast(g, "edge_path") <=> name = "edge_path"
    BY <1>1 DEF Setting
  <2>2. QED  BY <2>1, StaysNext
<1>3. WorkersTold(g, IF name = "worker_processes" THEN Processes(word) ELSE l.workers)
  <2>1. WellNested(f) /\ WorkersTold(f, l.workers)
    BY DEF Reads
  <2>2. TellsLast(g, "worker_processes") <=> name = "worker_processes"
    BY <1>1 DEF Setting
  <2>3. QED  BY <2>1, <2>2, WorkersNext
<1>4. Number(word) \in Nat /\ Processes(word) \in Nat
  BY NumbersAre
<1>5. PICK m : m = Settled(l, name, word)
  OBVIOUS
<1>6. /\ m.at = l.at /\ m.args = <<>> /\ m.blocks = l.blocks /\ m.daemon = DaemonTold(g)
      /\ m.workers = (IF name = "worker_processes" THEN Processes(word) ELSE l.workers)
      /\ m.events = EventsSet(g) /\ m.path = PathTold(g)
  BY <1>2, <1>5 DEF Settled
<1>7. m.events.connections # 0
  <2>1. l.events.connections # 0
    BY DEF Reads
  <2>2. QED  BY <2>1, <1>2, <1>6
<1>8. Reads(m, g)
  BY <1>2, <1>3, <1>6, <1>7 DEF Reads
<1>9. m \in LoadType
  <2>1. m = [at |-> m.at, args |-> m.args, daemon |-> m.daemon, workers |-> m.workers,
             events |-> m.events, path |-> m.path, blocks |-> m.blocks]
    BY <1>5 DEF Settled
  <2>2. m.at \in Contexts \union {"rest"} /\ m.args \in Seq(Words) /\ m.blocks \in SUBSET Blocks
    BY <1>6 DEF LoadType, EventsType
  <2>3. m.daemon \in {Unset, 0, 1} /\ m.workers \in Int
    BY <1>2, <1>4, <1>6 DEF LoadType, EventsType
  <2>4. m.events \in EventsType
    BY <1>2, <1>4, <1>6 DEF LoadType, EventsType
  <2>5. m.path \in Seq(Words)
    <3>1. l.path \in Seq(Words) /\ word \in Words
      BY DEF LoadType, Words
    <3>2. Append(l.path, word) \in Seq(Words)
      BY <3>1
    <3>3. QED  BY <3>1, <3>2, <1>2, <1>6
  <2>6. QED  BY <2>1, <2>2, <2>3, <2>4, <2>5 DEF LoadType, EventsType
<1>10. QED  BY <1>5, <1>8, <1>9

LEMMA ClosedIs ==
  ASSUME NEW l \in LoadType
  PROVE  /\ EventsClosed(l) = [at |-> "main", args |-> <<>>, daemon |-> l.daemon, workers |-> l.workers,
                               events |-> WithDefaults(l.events), path |-> l.path, blocks |-> l.blocks]
         /\ NodesClosed(l) = [at |-> "main", args |-> <<>>, daemon |-> l.daemon, workers |-> l.workers,
                              events |-> l.events, path |-> IF l.path = <<>> THEN <<"default">> ELSE l.path,
                              blocks |-> l.blocks]
<1>1. PICK at, args, daemon, workers, events, path, blocks :
         l = [at |-> at, args |-> args, daemon |-> daemon, workers |-> workers,
              events |-> events, path |-> path, blocks |-> blocks]
  BY DEF LoadType
<1>2. EventsClosed(l) = [at |-> "main", args |-> <<>>, daemon |-> l.daemon, workers |-> l.workers,
                         events |-> WithDefaults(l.events), path |-> l.path, blocks |-> l.blocks]
  <2>1. PICK v : v = WithDefaults(l.events)
    OBVIOUS
  <2>2. PICK m : m = [l EXCEPT !.events = v]
    OBVIOUS
  <2>3. PICK o : o = [m EXCEPT !.at = "main"]
    OBVIOUS
  <2>4. m = [at |-> at, args |-> args, daemon |-> daemon, workers |-> workers,
             events |-> v, path |-> path, blocks |-> blocks]
    BY <1>1, <2>2
  <2>5. o = [at |-> "main", args |-> args, daemon |-> daemon, workers |-> workers,
             events |-> v, path |-> path, blocks |-> blocks]
    BY <2>3, <2>4
  <2>6. [o EXCEPT !.args = <<>>] = [at |-> "main", args |-> <<>>, daemon |-> daemon, workers |-> workers,
                                    events |-> v, path |-> path, blocks |-> blocks]
    BY <2>5
  <2>7. EventsClosed(l) = [l EXCEPT !.events = v, !.at = "main", !.args = <<>>]
    BY <2>1 DEF EventsClosed
  <2>8. [l EXCEPT !.events = v, !.at = "main", !.args = <<>>] = [o EXCEPT !.args = <<>>]
    BY <2>2, <2>3
  <2>9. QED  BY <2>1, <2>6, <2>7, <2>8, <1>1
<1>3. NodesClosed(l) = [at |-> "main", args |-> <<>>, daemon |-> l.daemon, workers |-> l.workers,
                        events |-> l.events, path |-> IF l.path = <<>> THEN <<"default">> ELSE l.path,
                        blocks |-> l.blocks]
  <2>1. PICK v : v = IF l.path = <<>> THEN <<"default">> ELSE l.path
    OBVIOUS
  <2>2. PICK m : m = [l EXCEPT !.path = v]
    OBVIOUS
  <2>3. PICK o : o = [m EXCEPT !.at = "main"]
    OBVIOUS
  <2>4. m = [at |-> at, args |-> args, daemon |-> daemon, workers |-> workers,
             events |-> events, path |-> v, blocks |-> blocks]
    BY <1>1, <2>2
  <2>5. o = [at |-> "main", args |-> args, daemon |-> daemon, workers |-> workers,
             events |-> events, path |-> v, blocks |-> blocks]
    BY <2>3, <2>4
  <2>6. [o EXCEPT !.args = <<>>] = [at |-> "main", args |-> <<>>, daemon |-> daemon, workers |-> workers,
                                    events |-> events, path |-> v, blocks |-> blocks]
    BY <2>5
  <2>7. NodesClosed(l) = [l EXCEPT !.path = v, !.at = "main", !.args = <<>>]
    BY <2>1 DEF NodesClosed
  <2>8. [l EXCEPT !.path = v, !.at = "main", !.args = <<>>] = [o EXCEPT !.args = <<>>]
    BY <2>2, <2>3
  <2>9. QED  BY <2>1, <2>6, <2>7, <2>8, <1>1
<1>4. QED  BY <1>2, <1>3

LEMMA CloseNext ==
  ASSUME NEW f, NEW g, Longer(f, g), NEW l \in LoadType, Reads(l, f), ClosesLast(g)
  PROVE  /\ l.at = "events" => Reads(EventsClosed(l), g) /\ EventsClosed(l) \in LoadType
         /\ l.at = "nodes" => Reads(NodesClosed(l), g) /\ NodesClosed(l) \in LoadType
<1>1. WellNested(f) /\ l.at = Here(f) /\ l.daemon = DaemonTold(f) /\ l.path = PathTold(f)
      /\ l.events = EventsSet(f) /\ l.blocks = {b \in Blocks : Opening(f, b) # {}}
      /\ WorkersTold(f, l.workers) /\ l.events.connections # 0
  BY DEF Reads
<1>2. ~ OpensLast(g) /\ \A name : ~ TellsLast(g, name)
  BY LastOpens
<1>3. WellNested(g) /\ Here(g) = "main"
  BY <1>1, WellNestedNext, HereNext
<1>4. \A b : Opening(g, b) = Opening(f, b)
  BY <1>2, OpeningNext
<1>5. {b \in Blocks : Opening(g, b) # {}} = l.blocks
  BY <1>1, <1>4
<1>6. DaemonTold(g) = l.daemon /\ WorkersTold(g, l.workers)
  BY <1>1, <1>2, DaemonNext, WorkersNext
<1>7. Here(f) # "main" =>
        /\ EventsSet(g) = IF Here(f) = "events" THEN WithDefaults(l.events) ELSE l.events
        /\ PathTold(g) = IF Here(f) = "nodes" /\ l.path = <<>> THEN <<"default">> ELSE l.path
  BY <1>1, EventsSetNext, PathNext
<1>8. ASSUME NEW m, NEW e, NEW path,
             m = [at |-> "main", args |-> <<>>, daemon |-> l.daemon, workers |-> l.workers,
                  events |-> e, path |-> path, blocks |-> l.blocks],
             e = EventsSet(g), path = PathTold(g), e \in EventsType,
             e.connections # 0, path \in Seq(Words)
      PROVE  Reads(m, g) /\ m \in LoadType
  <2>1. Reads(m, g)
    BY <1>3, <1>5, <1>6, <1>8 DEF Reads
  <2>2. <<>> \in Seq(Words)
    OBVIOUS
  <2>3. m \in LoadType
    BY <1>8, <2>2 DEF LoadType, EventsType, Contexts
  <2>4. QED  BY <2>1, <2>3
<1>9. l.events \in EventsType /\ l.path \in Seq(Words) /\ <<"default">> \in Seq(Words)
  <2>1. "default" \in Words
    BY DEF Words
  <2>2. QED  BY <2>1 DEF LoadType
<1>10. CASE l.at = "events"
  <2>1. EventsClosed(l) = [at |-> "main", args |-> <<>>, daemon |-> l.daemon, workers |-> l.workers,
                           events |-> WithDefaults(l.events), path |-> l.path, blocks |-> l.blocks]
    BY ClosedIs
  <2>2. WithDefaults(l.events) \in EventsType /\ WithDefaults(l.events).connections # 0
    BY <1>1, <1>9 DEF WithDefaults, EventsType, Unset
  <2>3. WithDefaults(l.events) = EventsSet(g) /\ l.path = PathTold(g)
    BY <1>1, <1>7, <1>10
  <2>4. Reads(EventsClosed(l), g) /\ EventsClosed(l) \in LoadType
    BY <1>8, <1>9, <2>1, <2>2, <2>3
  <2>5. QED  BY <1>10, <2>4
<1>11. CASE l.at = "nodes"
  <2>1. NodesClosed(l) = [at |-> "main", args |-> <<>>, daemon |-> l.daemon, workers |-> l.workers,
                          events |-> l.events, path |-> IF l.path = <<>> THEN <<"default">> ELSE l.path,
                          blocks |-> l.blocks]
    BY ClosedIs
  <2>2. (IF l.path = <<>> THEN <<"default">> ELSE l.path) \in Seq(Words)
    BY <1>9
  <2>3. l.events = EventsSet(g) /\ (IF l.path = <<>> THEN <<"default">> ELSE l.path) = PathTold(g)
    BY <1>1, <1>7, <1>11
  <2>4. Reads(NodesClosed(l), g) /\ NodesClosed(l) \in LoadType
    BY <1>1, <1>8, <1>9, <2>1, <2>2, <2>3
  <2>5. QED  BY <1>11, <2>4
<1>12. QED  BY <1>10, <1>11

LEMMA OpenNext ==
  ASSUME NEW f, NEW g, Longer(f, g), NEW l \in LoadType, Reads(l, f), OpensLast(g),
         NEW b \in Blocks, b = g[Len(g)][1]
  PROVE  LET m == Opened([l EXCEPT !.args = <<b>>], b) IN Reads(m, g) /\ m \in LoadType
<1>1. WellNested(f) /\ l.at = Here(f) /\ l.daemon = DaemonTold(f) /\ l.path = PathTold(f)
      /\ l.events = EventsSet(f) /\ l.blocks = {c \in Blocks : Opening(f, c) # {}}
      /\ WorkersTold(f, l.workers) /\ l.events.connections # 0
  BY DEF Reads
<1>2. ~ ClosesLast(g) /\ \A name : ~ TellsLast(g, name)
  BY LastOpens
<1>3. WellNested(g) /\ Here(g) = b
  BY <1>1, <1>2, WellNestedNext, HereNext
<1>4. \A c : Opening(g, c) = IF c = b THEN Opening(f, c) \union {Len(g)} ELSE Opening(f, c)
  BY OpeningNext
<1>5. {c \in Blocks : Opening(g, c) # {}} = l.blocks \union {b}
  <2>1. \A c \in Blocks : Opening(g, c) # {} <=> c \in l.blocks \union {b}
    BY <1>1, <1>4
  <2>2. l.blocks \union {b} \subseteq Blocks
    BY DEF LoadType, EventsType
  <2>3. QED  BY <2>1, <2>2
<1>6. DaemonTold(g) = l.daemon /\ WorkersTold(g, l.workers)
  BY <1>1, <1>2, DaemonNext, WorkersNext
<1>7. /\ EventsSet(g) = IF b = "events" THEN NoEvents ELSE l.events
      /\ PathTold(g) = IF b = "nodes" THEN <<>> ELSE l.path
  BY <1>1, EventsSetNext, PathNext
<1>8. b \in {"events", "nodes"} /\ b \in Words
  BY DEF Blocks, Words
<1>9. Opened([l EXCEPT !.args = <<b>>], b) =
        [at |-> b, args |-> <<b>>, daemon |-> l.daemon, workers |-> l.workers,
         events |-> IF b = "events" THEN NoEvents ELSE l.events,
         path |-> IF b = "nodes" THEN <<>> ELSE l.path, blocks |-> l.blocks \union {b}]
  <2>1. PICK at, args, daemon, workers, events, path, blocks :
          l = [at |-> at, args |-> args, daemon |-> daemon, workers |-> workers,
               events |-> events, path |-> path, blocks |-> blocks]
    BY DEF LoadType, EventsType
  <2>2. PICK m : m = [l EXCEPT !.args = <<b>>]
    OBVIOUS
  <2>3. m = [at |-> at, args |-> <<b>>, daemon |-> daemon, workers |-> workers,
             events |-> events, path |-> path, blocks |-> blocks]
    BY <2>1, <2>2
  <2>4. CASE b = "events"
    <3>1. Opened(m, b) = [at |-> b, args |-> <<b>>, daemon |-> daemon, workers |-> workers,
                          events |-> NoEvents, path |-> path, blocks |-> blocks \union {b}]
      BY <2>3, <2>4 DEF Opened
    <3>2. QED  BY <3>1, <2>1, <2>2, <2>4
  <2>5. CASE b = "nodes"
    <3>1. Opened(m, b) = [at |-> b, args |-> <<b>>, daemon |-> daemon, workers |-> workers,
                          events |-> events, path |-> <<>>, blocks |-> blocks \union {b}]
      BY <2>3, <2>5 DEF Opened
    <3>2. QED  BY <3>1, <2>1, <2>2, <2>5
  <2>6. QED  BY <2>4, <2>5, <1>8
<1>10. PICK m : m = Opened([l EXCEPT !.args = <<b>>], b)
  OBVIOUS
<1>11. /\ m.at = b /\ m.args = <<b>> /\ m.daemon = l.daemon /\ m.workers = l.workers
       /\ m.events = EventsSet(g) /\ m.path = PathTold(g) /\ m.blocks = l.blocks \union {b}
  BY <1>7, <1>9, <1>10
<1>12. NoEvents.connections # 0 /\ NoEvents \in EventsType
  BY DEF NoEvents, Unset, EventsType
<1>13. m.events.connections # 0
  BY <1>1, <1>7, <1>11, <1>12
<1>14. Reads(m, g)
  BY <1>3, <1>5, <1>6, <1>8, <1>11, <1>13 DEF Reads
<1>15. m \in LoadType
  <2>1. m = [at |-> m.at, args |-> m.args, daemon |-> m.daemon, workers |-> m.workers,
             events |-> m.events, path |-> m.path, blocks |-> m.blocks]
    BY <1>9, <1>10
  <2>2. m.at \in Contexts \union {"rest"} /\ m.args \in Seq(Words) /\ m.blocks \in SUBSET Blocks
    BY <1>8, <1>11 DEF LoadType, EventsType, Contexts
  <2>3. m.daemon \in {Unset, 0, 1} /\ m.workers \in Int
    BY <1>11 DEF LoadType, EventsType
  <2>4. m.events \in EventsType
    BY <1>7, <1>11, <1>12 DEF LoadType, EventsType
  <2>5. m.path \in Seq(Words)
    <3>1. l.path \in Seq(Words) /\ <<>> \in Seq(Words)
      BY DEF LoadType, EventsType
    <3>2. QED  BY <3>1, <1>7, <1>11
  <2>6. QED  BY <2>1, <2>2, <2>3, <2>4, <2>5 DEF LoadType, EventsType
<1>16. QED  BY <1>10, <1>14, <1>15

\* A load that has read nothing.
LEMMA NothingRead ==
  /\ Reads(Fresh, <<>>) /\ Fresh \in LoadType /\ Fresh # AtRest
  /\ ValuesTold(<<>>, "error_log") = <<>> /\ ~ ClosedNodes(<<>>, FALSE)
<1> DEFINE f == <<>>
<1>1. \A b : Opening(f, b) = {}
  BY DEF Opening
<1>2. \A name : Told(f, name) = {}
  BY DEF Told
<1>3. Unclosed(f, 1) = {}
  BY DEF Unclosed
<1>4. Here(f) = "main" /\ Opener(f, Len(f) + 1) = 0
  BY <1>3 DEF Here, BlockOf, Opener
<1>5. InOrder({}) = <<>>
  <2>1. Cardinality({}) = 0
    BY FS_EmptySet
  <2>2. QED  BY <2>1 DEF InOrder
<1>6. \A name : ValuesTold(f, name) = <<>>
  <2>1. DOMAIN InOrder({}) = {}
    BY <1>5
  <2>2. \A name : ValuesTold(f, name) = [k \in {} |-> Value(f, InOrder({})[k])]
    BY <1>2, <2>1 DEF ValuesTold
  <2>3. \A name : ValuesTold(f, name) = [k \in {} |-> 0]
    BY <2>2
  <2>4. QED  BY <2>3
<1>7. ~ ClosedNodes(f, FALSE)
  BY DEF ClosedNodes
<1>8. EventsTold(f) = NoEvents
  BY <1>2 DEF EventsTold, NoEvents
<1> HIDE DEF f
<1>9. WellNested(f)
  BY <1>1, <1>4 DEF WellNested, Contexts
<1>10. DaemonTold(f) = Unset /\ WorkersTold(f, Unset) /\ EventsSet(f) = NoEvents /\ PathTold(f) = <<>>
  BY <1>1, <1>2, <1>4, <1>6, <1>8 DEF DaemonTold, WorkersTold, EventsSet, PathTold
<1>11. {b \in Blocks : Opening(f, b) # {}} = {}
  BY <1>1
<1>12. Reads(Fresh, f)
  BY <1>4, <1>9, <1>10, <1>11 DEF Reads, Fresh, NoEvents, Unset
<1>13. Fresh \in LoadType
  <2>1. <<>> \in Seq(Words)
    OBVIOUS
  <2>2. QED  BY <2>1 DEF Fresh, LoadType, EventsType, Contexts, NoEvents, Unset
<1>14. Fresh # AtRest
  BY DEF Fresh, AtRest
<1>15. QED  BY <1>6, <1>7, <1>12, <1>13, <1>14 DEF f
-----------------------------------------------------------------------------
\* h joins the first n sequences of s, one after another.
Flattening(h, s, n) == h = [i \in 1 .. n |-> IF i = 1 THEN s[i] ELSE h[i - 1] \o s[i]]

LEMMA FlatteningIs ==
  ASSUME NEW s, NEW n \in Nat
  PROVE  \E h : Flattening(h, s, n)
<1> DEFINE T == {m \in Nat : ~ \E h : Flattening(h, s, m)}
<1> SUFFICES ASSUME T # {}  PROVE FALSE
  OBVIOUS
<1>1. PICK m \in T : \A y \in T : m <= y
  <2>1. T \subseteq Nat
    OBVIOUS
  <2> HIDE DEF T
  <2>2. QED  BY <2>1, LeastMember
<1>2. m # 0
  <2>1. Flattening(<<>>, s, 0)
    BY DEF Flattening
  <2>2. QED  BY <2>1
<1>3. m \in Nat \ {0} /\ m - 1 \in Nat /\ m - 1 \notin T
  BY <1>1, <1>2
<1>4. PICK g : Flattening(g, s, m - 1)
  BY <1>3
<1> DEFINE h == [i \in 1 .. m |-> IF i < m THEN g[i] ELSE IF m = 1 THEN s[m] ELSE g[m - 1] \o s[m]]
           k == [i \in 1 .. m |-> IF i = 1 THEN s[i] ELSE h[i - 1] \o s[i]]
<1>5. g = [i \in 1 .. m - 1 |-> IF i = 1 THEN s[i] ELSE g[i - 1] \o s[i]]
  BY <1>4 DEF Flattening
<1>6. ASSUME NEW i \in 1 .. m  PROVE h[i] = IF i = 1 THEN s[i] ELSE h[i - 1] \o s[i]
  <2>1. CASE i < m
    <3>1. i \in 1 .. m - 1 /\ h[i] = g[i]
      BY <1>3, <2>1
    <3>2. g[i] = IF i = 1 THEN s[i] ELSE g[i - 1] \o s[i]
      BY <1>5, <3>1
    <3>3. i # 1 => i - 1 \in 1 .. m /\ i - 1 < m
      BY <1>3
    <3>4. i # 1 => h[i - 1] = g[i - 1]
      BY <3>3
    <3>5. QED  BY <3>1, <3>2, <3>4
  <2>2. CASE i = m
    <3>1. h[i] = IF m = 1 THEN s[m] ELSE g[m - 1] \o s[m]
      BY <1>3, <2>2
    <3>2. m # 1 => m - 1 \in 1 .. m /\ m - 1 < m
      BY <1>3
    <3>3. m # 1 => h[m - 1] = g[m - 1]
      BY <3>2
    <3>4. QED  BY <3>1, <3>3, <2>2
  <2>3. QED  BY <2>1, <2>2, <1>3
<1>7. h = k
  <2>1. h = [i \in 1 .. m |-> h[i]]
    OBVIOUS
  <2>2. \A i \in 1 .. m : h[i] = k[i]
    <3> HIDE DEF h
    <3>1. QED  BY <1>6
  <2> HIDE DEF h, k
  <2>3. k = [i \in 1 .. m |-> k[i]]
    BY DEF k
  <2>4. QED  BY <2>1, <2>2, <2>3
<1>8. Flattening(h, s, m)
  BY <1>7 DEF Flattening
<1> HIDE DEF h
<1>9. QED  BY <1>1, <1>8

LEMMA Flattened ==
  ASSUME NEW n \in Nat, NEW s, NEW h, Flattening(h, s, n), NEW i \in 1 .. n
  PROVE  h[i] = IF i = 1 THEN s[i] ELSE h[i - 1] \o s[i]
<1>1. PICK k : k = h /\ h = [j \in 1 .. n |-> IF j = 1 THEN s[j] ELSE k[j - 1] \o s[j]]
  BY DEF Flattening
<1>2. QED  BY <1>1

LEMMA FlatteningSame ==
  ASSUME NEW n \in Nat, NEW s, NEW t, \A i \in 1 .. n : t[i] = s[i],
         NEW h, NEW k, Flattening(h, s, n), Flattening(k, t, n + 1), NEW T,
         \A i \in 1 .. n : s[i] \in Seq(T)
  PROVE  \A i \in 1 .. n : h[i] = k[i] /\ h[i] \in Seq(T)
<1> DEFINE D == {i \in 1 .. n : ~ (h[i] = k[i] /\ h[i] \in Seq(T))}
<1> SUFFICES ASSUME D # {}  PROVE FALSE
  OBVIOUS
<1>1. PICK i \in D : \A y \in D : i <= y
  <2>1. D \subseteq Nat
    OBVIOUS
  <2> HIDE DEF D
  <2>2. QED  BY <2>1, LeastMember
<1>2. i \in 1 .. n /\ i \in 1 .. n + 1 /\ i \in Nat /\ i >= 1 /\ n + 1 \in Nat
  BY <1>1
<1>3. h[i] = (IF i = 1 THEN s[i] ELSE h[i - 1] \o s[i]) /\ k[i] = IF i = 1 THEN t[i] ELSE k[i - 1] \o t[i]
  BY <1>2, Flattened
<1>4. t[i] = s[i] /\ s[i] \in Seq(T)
  BY <1>2
<1>5. i # 1 => h[i - 1] = k[i - 1] /\ h[i - 1] \in Seq(T)
  <2>1. i # 1 => i - 1 \in 1 .. n /\ ~ (i <= i - 1)
    BY <1>2
  <2>2. QED  BY <2>1, <1>1
<1>6. h[i] = k[i] /\ h[i] \in Seq(T)
  BY <1>3, <1>4, <1>5
<1>7. QED  BY <1>1, <1>6

LEMMA FlattenIs ==
  ASSUME NEW s, Len(s) \in Nat
  PROVE  /\ Len(s) = 0 => FlattenSeq(s) = s
         /\ Len(s) # 0 => \E h : Flattening(h, s, Len(s)) /\ FlattenSeq(s) = h[Len(s)]
<1> DEFINE h == CHOOSE k : k = [i \in 1 .. Len(s) |-> IF i = 1 THEN s[i] ELSE k[i - 1] \o s[i]]
<1>1. Len(s) # 0 => FlattenSeq(s) = h[Len(s)]
  BY DEF FlattenSeq
<1>2. \E k : k = [i \in 1 .. Len(s) |-> IF i = 1 THEN s[i] ELSE k[i - 1] \o s[i]]
  BY FlatteningIs DEF Flattening
<1>3. Flattening(h, s, Len(s))
  BY <1>2 DEF Flattening
<1>4. Len(s) = 0 => FlattenSeq(s) = s
  BY DEF FlattenSeq
<1> HIDE DEF h
<1>5. QED  BY <1>1, <1>3, <1>4

\* Flattening one more sequence puts it at the end.
LEMMA FlattenNext ==
  ASSUME NEW T, NEW s \in Seq(Seq(T)), NEW x \in Seq(T)
  PROVE  FlattenSeq(Append(s, x)) = FlattenSeq(s) \o x /\ FlattenSeq(s) \in Seq(T)
<1>1. PICK n \in Nat : n = Len(s)
  OBVIOUS
<1>2. PICK t : t = Append(s, x)
  OBVIOUS
<1>3. Len(t) = n + 1 /\ t[n + 1] = x /\ \A i \in 1 .. n : t[i] = s[i] /\ s[i] \in Seq(T)
  BY <1>1, <1>2
<1>4. PICK k : Flattening(k, t, n + 1) /\ FlattenSeq(t) = k[n + 1]
  BY <1>3, FlattenIs
<1>5. k[n + 1] = IF n + 1 = 1 THEN x ELSE k[n + 1 - 1] \o x
  <2>1. n + 1 \in Nat /\ n + 1 \in 1 .. n + 1
    OBVIOUS
  <2>2. QED  BY <2>1, <1>3, <1>4, Flattened
<1>6. CASE n = 0
  <2>1. s = <<>>
    <3>1. PICK U : s \in Seq(U)
      OBVIOUS
    <3>2. \A u \in Seq(U) : Len(u) = 0 => u = <<>>
      OBVIOUS
    <3>3. QED  BY <3>1, <3>2, <1>1, <1>6
  <2>2. FlattenSeq(s) = s
    BY <1>1, <1>6, FlattenIs
  <2>3. FlattenSeq(t) = x
    BY <1>4, <1>5, <1>6
  <2>4. <<>> \o x = x /\ <<>> \in Seq(T)
    OBVIOUS
  <2>5. FlattenSeq(s) = <<>>
    BY <2>1, <2>2
  <2>6. QED  BY <2>3, <2>4, <2>5, <1>2
<1>7. CASE n # 0
  <2>1. PICK h : Flattening(h, s, n) /\ FlattenSeq(s) = h[n]
    BY <1>1, <1>7, FlattenIs
  <2>2. \A i \in 1 .. n : h[i] = k[i] /\ h[i] \in Seq(T)
    <3>1. \A i \in 1 .. n : t[i] = s[i]
      BY <1>3
    <3>2. \A i \in 1 .. n : s[i] \in Seq(T)
      BY <1>3
    <3>3. Flattening(h, s, n) /\ Flattening(k, t, n + 1)
      BY <2>1, <1>4
    <3>4. QED  BY <3>1, <3>2, <3>3, FlatteningSame, Zenon
  <2>3. n \in 1 .. n /\ n + 1 - 1 = n /\ n + 1 # 1
    BY <1>7
  <2>4. QED  BY <2>1, <2>2, <2>3, <1>2, <1>4, <1>5
<1>8. QED  BY <1>6, <1>7

-----------------------------------------------------------------------------
\* The words a setting's lines tell are words of the lines.
LEMMA ValuesAre ==
  ASSUME LinesAssumption, NEW f \in Seq(Lines), NEW name \in Setting
  PROVE  /\ \A i \in DOMAIN f : Tells(f, i, name) => Value(f, i) \in STRING
         /\ ValuesTold(f, name) \in Seq(STRING)
         /\ ValuesTold(f, name) = <<>> <=> Told(f, name) = {}
<1> DEFINE S == Told(f, name)
<1>1. ASSUME NEW i \in DOMAIN f, Tells(f, i, name)  PROVE Value(f, i) \in STRING
  <2>1. f[i] \in Seq(STRING)
    BY DEF LinesAssumption
  <2>2. PICK q \in DOMAIN f[i] : q - 1 \in Commands[name].words
    BY <1>1 DEF Tells
  <2>3. Commands[name].words = {2} \/ Commands[name].words = {2, 3, 4}
    BY CommandsAre DEF Setting
  <2>4. q \in Nat /\ q <= Len(f[i]) /\ Len(f[i]) \in Nat
    BY <2>1
  <2>5. q >= 3
    <3>1. PICK k : k = q - 1 /\ (k = 2 \/ k = 3 \/ k = 4)
      BY <2>2, <2>3
    <3>2. QED  BY <3>1, <2>4
  <2>6. 2 \in DOMAIN f[i]
    BY <2>1, <2>4, <2>5
  <2>7. QED  BY <2>1, <2>6 DEF Value
<1>2. S \subseteq 1 .. Len(f) /\ Len(f) \in Nat /\ \A i \in S : Tells(f, i, name)
  BY DEF Told
<1> HIDE DEF S
<1>3. Cardinality(S) \in Nat /\ IsFiniteSet(S)
  BY <1>2, SomeOf
<1>4. DOMAIN InOrder(S) = 1 .. Cardinality(S)
  BY DEF InOrder
<1>5. \A k \in 1 .. Cardinality(S) : InOrder(S)[k] \in S
  BY <1>2, InOrderIn
<1>6. ValuesTold(f, name) = [k \in 1 .. Cardinality(S) |-> Value(f, InOrder(S)[k])]
  BY <1>4 DEF ValuesTold, S
<1>7. ValuesTold(f, name) \in Seq(STRING) /\ Len(ValuesTold(f, name)) = Cardinality(S)
  <2>1. \A i \in S : i \in DOMAIN f /\ Tells(f, i, name)
    BY <1>2
  <2>2. \A i \in S : Value(f, i) \in STRING
    BY <1>1, <2>1
  <2>3. \A k \in 1 .. Cardinality(S) : Value(f, InOrder(S)[k]) \in STRING
    BY <1>5, <2>2
  <2>4. QED  BY <1>3, <1>6, <2>3
<1>8. Cardinality(S) = 0 <=> S = {}
  BY <1>3, FS_EmptySet
<1>9. ValuesTold(f, name) = <<>> <=> Len(ValuesTold(f, name)) = 0
  BY <1>7
<1>10. QED  BY <1>1, <1>7, <1>8, <1>9 DEF S

LEMMA LastOfIs ==
  ASSUME NEW n \in Nat, NEW S, S \subseteq 1 .. n
  PROVE  LastOf(S) \in 0 .. n /\ LastOf(S \union {n + 1}) = n + 1
<1>1. S \subseteq 0 .. n
  OBVIOUS
<1>2. Max(S \union {n + 1}) = n + 1
  BY <1>1, MaxBeyond
<1>3. LastOf(S \union {n + 1}) = n + 1
  BY <1>2 DEF LastOf
<1>4. CASE S = {}
  <2>1. LastOf(S) = 0
    BY <1>4 DEF LastOf
  <2>2. QED  BY <1>3, <2>1
<1>5. CASE S # {}
  <2>1. PICK x \in S : Max(S) = x
    BY <1>1, <1>5, MaxIs
  <2>2. LastOf(S) = x
    BY <2>1, <1>5 DEF LastOf
  <2>3. QED  BY <1>1, <1>3, <2>1, <2>2
<1>6. QED  BY <1>4, <1>5

LEMMA AppendIs ==
  ASSUME NEW T, NEW s \in Seq(T), NEW x \in T
  PROVE  /\ Append(s, x) \in Seq(T) /\ Len(Append(s, x)) = Len(s) + 1
         /\ DOMAIN Append(s, x) = 1 .. Len(s) + 1 /\ Append(s, x)[Len(s) + 1] = x
         /\ \A i \in 1 .. Len(s) : Append(s, x)[i] = s[i]
         /\ Append(s, x) = [i \in 1 .. Len(s) + 1 |-> IF i = Len(s) + 1 THEN x ELSE s[i]]
<1>1. Append(s, x) \in Seq(T) /\ Len(Append(s, x)) = Len(s) + 1 /\ Append(s, x)[Len(s) + 1] = x
      /\ \A i \in 1 .. Len(s) : Append(s, x)[i] = s[i]
  OBVIOUS
<1>2. PICK t : t = Append(s, x)
  OBVIOUS
<1>3. t \in Seq(T) /\ Len(t) = Len(s) + 1
  BY <1>1, <1>2
<1>4. DOMAIN t = 1 .. Len(s) + 1
  BY <1>3
<1>5. Append(s, x) = [i \in 1 .. Len(s) + 1 |-> IF i = Len(s) + 1 THEN x ELSE s[i]]
  <2>1. t = [i \in 1 .. Len(s) + 1 |-> t[i]]
    BY <1>3, <1>4
  <2>2. \A i \in 1 .. Len(s) + 1 : t[i] = IF i = Len(s) + 1 THEN x ELSE s[i]
    <3>1. \A i \in 1 .. Len(s) + 1 : i = Len(s) + 1 \/ i \in 1 .. Len(s)
      OBVIOUS
    <3>2. QED  BY <3>1, <1>1, <1>2
  <2>3. QED  BY <1>2, <2>1, <2>2
<1>6. QED  BY <1>1, <1>2, <1>4, <1>5

LEMMA LogsAre ==
  ASSUME NEW k \in Nat, NEW T, NEW paths \in Seq(T)
  PROVE  /\ LogsOf(k, paths) \in Seq([load : Nat, path : T])
         /\ \A path \in T :
              LogsOf(k, Append(paths, path)) = Append(LogsOf(k, paths), [load |-> k, path |-> path])
<1>1. PICK n \in Nat : n = Len(paths) /\ DOMAIN paths = 1 .. n
  OBVIOUS
<1>2. LogsOf(k, paths) = [i \in 1 .. n |-> [load |-> k, path |-> paths[i]]]
  BY <1>1 DEF LogsOf
<1>3. \A i \in 1 .. n : [load |-> k, path |-> paths[i]] \in [load : Nat, path : T]
  BY <1>1
<1>4. LogsOf(k, paths) \in Seq([load : Nat, path : T]) /\ Len(LogsOf(k, paths)) = n
  BY <1>2, <1>3
<1>5. ASSUME NEW path \in T
      PROVE  LogsOf(k, Append(paths, path)) = Append(LogsOf(k, paths), [load |-> k, path |-> path])
  <2>1. PICK more : more = Append(paths, path)
    OBVIOUS
  <2>2. /\ DOMAIN more = 1 .. n + 1 /\ more[n + 1] = path
        /\ \A i \in 1 .. n : more[i] = paths[i]
    <3>1. /\ more \in Seq(T) /\ Len(more) = n + 1 /\ more[n + 1] = path
      BY <1>1, <2>1, AppendIs
    <3>2. \A i \in 1 .. n : more[i] = paths[i]
      BY <1>1, <2>1
    <3>3. DOMAIN more = 1 .. n + 1
      BY <3>1
    <3>4. QED  BY <3>1, <3>2, <3>3
  <2>3. LogsOf(k, more) = [i \in 1 .. n + 1 |-> [load |-> k, path |-> more[i]]]
    BY <2>2 DEF LogsOf
  <2>4. PICK s, e : s = LogsOf(k, paths) /\ e = [load |-> k, path |-> path]
    OBVIOUS
  <2>5. Append(s, e) = [i \in 1 .. n + 1 |-> IF i = n + 1 THEN e ELSE s[i]]
    BY <1>4, <2>4
  <2>6. \A i \in 1 .. n : s[i] = [load |-> k, path |-> more[i]]
    BY <1>2, <2>2, <2>4
  <2>7. \A i \in 1 .. n + 1 : (IF i = n + 1 THEN e ELSE s[i]) = [load |-> k, path |-> more[i]]
    <3>1. \A i \in 1 .. n + 1 : i = n + 1 \/ i \in 1 .. n
      OBVIOUS
    <3>2. QED  BY <3>1, <2>2, <2>4, <2>6
  <2>8. Append(s, e) = LogsOf(k, more)
    BY <2>3, <2>5, <2>7
  <2>9. QED  BY <2>1, <2>4, <2>8
<1>6. QED  BY <1>4, <1>5

\* What the past says when one more load has ended.
LEMMA PastNext ==
  ASSUME NEW p \in Seq(EndType), NEW e \in EndType, NEW q, q = Append(p, e)
  PROVE  /\ q \in Seq(EndType) /\ Len(q) = Len(p) + 1
         /\ Failures(q) = Failures(p) \union (IF e.ok THEN {} ELSE {Len(p) + 1})
         /\ LastOf(DOMAIN q \ Failures(q)) = IF e.ok THEN Len(p) + 1 ELSE LastOf(DOMAIN p \ Failures(p))
         /\ LastNodes(q) = IF e.nodes THEN Len(p) + 1 ELSE LastNodes(p)
         /\ LastOf(DOMAIN p \ Failures(p)) \in 0 .. Len(p)
         /\ (\A k \in DOMAIN p : p[k].ok => p[k].nodes) /\ (e.ok => e.nodes) =>
              \A k \in DOMAIN q : q[k].ok => q[k].nodes
         /\ Logged(q) = Logged(p) \o LogsOf(Len(p) + 1, e.logs) /\ Logged(p) \in Seq(LogType)
<1>1. PICK n \in Nat : n = Len(p) /\ DOMAIN p = 1 .. n
  OBVIOUS
<1>2. /\ q \in Seq(EndType) /\ Len(q) = n + 1 /\ DOMAIN q = 1 .. n + 1
      /\ q[n + 1] = e /\ \A k \in 1 .. n : q[k] = p[k]
  BY <1>1
<1>3. \A k : k \in 1 .. n + 1 <=> k \in 1 .. n \/ k = n + 1
  OBVIOUS
<1>4. n + 1 \notin 1 .. n
  OBVIOUS
<1>5. Failures(q) = Failures(p) \union (IF e.ok THEN {} ELSE {n + 1})
  <2>1. \A k : k \in Failures(q) <=> k \in Failures(p) \/ (k = n + 1 /\ ~ e.ok)
    BY <1>1, <1>2, <1>3, <1>4 DEF Failures
  <2>2. QED  BY <2>1
<1>6. DOMAIN q \ Failures(q) = (DOMAIN p \ Failures(p)) \union (IF e.ok THEN {n + 1} ELSE {})
  <2>1. Failures(p) \subseteq 1 .. n
    BY <1>1 DEF Failures
  <2>2. \A k : k \in DOMAIN q \ Failures(q) <=> k \in DOMAIN p \ Failures(p) \/ (k = n + 1 /\ e.ok)
    BY <1>1, <1>2, <1>3, <1>4, <1>5, <2>1
  <2>3. QED  BY <2>2
<1>7. {k \in DOMAIN q : q[k].nodes} = {k \in DOMAIN p : p[k].nodes} \union (IF e.nodes THEN {n + 1} ELSE {})
  <2>1. \A k : k \in {j \in DOMAIN q : q[j].nodes} <=> k \in {j \in DOMAIN p : p[j].nodes} \/ (k = n + 1 /\ e.nodes)
    BY <1>1, <1>2, <1>3, <1>4
  <2>2. QED  BY <2>1
<1>8. LastOf(DOMAIN q \ Failures(q)) = IF e.ok THEN n + 1 ELSE LastOf(DOMAIN p \ Failures(p))
  <2>1. DOMAIN p \ Failures(p) \subseteq 1 .. n
    BY <1>1
  <2>2. LastOf((DOMAIN p \ Failures(p)) \union {n + 1}) = n + 1
    BY <2>1, LastOfIs
  <2>3. QED  BY <2>2, <1>6
<1>9. LastNodes(q) = IF e.nodes THEN n + 1 ELSE LastNodes(p)
  <2>1. {k \in DOMAIN p : p[k].nodes} \subseteq 1 .. n
    BY <1>1
  <2>2. LastOf({k \in DOMAIN p : p[k].nodes} \union {n + 1}) = n + 1
    BY <2>1, LastOfIs
  <2>3. QED  BY <2>2, <1>7 DEF LastNodes
<1>10. LastOf(DOMAIN p \ Failures(p)) \in 0 .. n
  <2>1. DOMAIN p \ Failures(p) \subseteq 1 .. n
    BY <1>1
  <2>2. QED  BY <2>1, LastOfIs
<1>11. (\A k \in DOMAIN p : p[k].ok => p[k].nodes) /\ (e.ok => e.nodes) =>
         \A k \in DOMAIN q : q[k].ok => q[k].nodes
  BY <1>1, <1>2, <1>3
<1>12. Logged(q) = Logged(p) \o LogsOf(n + 1, e.logs) /\ Logged(p) \in Seq(LogType)
  <2>1. PICK s, x : s = [k \in DOMAIN p |-> LogsOf(k, p[k].logs)] /\ x = LogsOf(n + 1, e.logs)
    OBVIOUS
  <2>2. ASSUME NEW k \in 1 .. n  PROVE p[k].logs \in Seq(STRING) /\ k \in Nat
    <3>1. p[k] \in EndType
      BY <1>1
    <3>2. QED  BY <3>1 DEF EndType
  <2>3. \A k \in 1 .. n : LogsOf(k, p[k].logs) \in Seq(LogType)
    BY <2>2, LogsAre DEF LogType
  <2>4. x \in Seq(LogType)
    <3>1. e.logs \in Seq(STRING) /\ n + 1 \in Nat
      BY DEF EndType
    <3>2. QED  BY <3>1, <2>1, LogsAre DEF LogType
  <2>5. s \in Seq(Seq(LogType)) /\ Len(s) = n
    <3>1. s = [k \in 1 .. n |-> LogsOf(k, p[k].logs)]
      BY <1>1, <2>1
    <3>2. PICK L : L = Seq(LogType)
      OBVIOUS
    <3>3. s \in Seq(L) /\ Len(s) = n
      BY <3>1, <3>2, <2>3
    <3>4. QED  BY <3>2, <3>3
  <2>6. FlattenSeq(Append(s, x)) = FlattenSeq(s) \o x /\ FlattenSeq(s) \in Seq(LogType)
    BY <2>4, <2>5, FlattenNext
  <2>7. [k \in DOMAIN q |-> LogsOf(k, q[k].logs)] = Append(s, x)
    <3>1. PICK L : L = Seq(LogType)
      OBVIOUS
    <3>2. s \in Seq(L) /\ x \in L
      BY <2>4, <2>5, <3>1
    <3>3. Append(s, x) = [k \in 1 .. n + 1 |-> IF k = n + 1 THEN x ELSE s[k]]
      <4>1. n = Len(s)
        BY <2>5
      <4>2. Append(s, x) = [k \in 1 .. Len(s) + 1 |-> IF k = Len(s) + 1 THEN x ELSE s[k]]
        BY <3>2, AppendIs
      <4>3. QED  BY <4>1, <4>2
    <3>4. \A k \in 1 .. n + 1 : (IF k = n + 1 THEN x ELSE s[k]) = LogsOf(k, q[k].logs)
      <4>1. \A k \in 1 .. n : s[k] = LogsOf(k, q[k].logs) /\ k # n + 1
        BY <1>1, <1>2, <2>1
      <4>2. x = LogsOf(n + 1, q[n + 1].logs)
        BY <1>2, <2>1
      <4>3. QED  BY <4>1, <4>2, <1>3
    <3>5. QED  BY <1>2, <3>3, <3>4
  <2>8. QED  BY <2>1, <2>6, <2>7 DEF Logged
<1>13. QED  BY <1>1, <1>2, <1>5, <1>8, <1>9, <1>10, <1>11, <1>12

-----------------------------------------------------------------------------
\* What l has read so far, seen at the end of the file.
AtEnd(l) ==
  CASE l.at = "events" -> EventsClosed(l)
    [] l.at = "nodes" -> NodesClosed(l)
    [] OTHER -> l

LEMMA AtEndIs ==
  ASSUME LinesAssumption, NEW f \in Seq(Lines), NEW l \in LoadType, Reads(l, f)
  PROVE  /\ AtEnd(l).daemon = DaemonTold(f) /\ WorkersTold(f, AtEnd(l).workers)
         /\ AtEnd(l).blocks = l.blocks /\ AtEnd(l).events \in EventsType /\ AtEnd(l).path \in Seq(Words)
         /\ AtEnd(l).events.connections # 0 /\ AtEnd(l).workers \in Int /\ AtEnd(l).daemon \in {Unset, 0, 1}
         /\ "events" \in l.blocks => AtEnd(l).events = WithDefaults(EventsTold(f))
         /\ "nodes" \in l.blocks =>
              AtEnd(l).path = IF Told(f, "edge_path") = {} THEN <<"default">> ELSE ValuesTold(f, "edge_path")
<1>1. /\ WellNested(f) /\ l.at = Here(f) /\ l.daemon = DaemonTold(f) /\ l.path = PathTold(f)
      /\ l.events = EventsSet(f) /\ l.blocks = {b \in Blocks : Opening(f, b) # {}}
      /\ WorkersTold(f, l.workers) /\ l.events.connections # 0
  BY DEF Reads
<1>2. PICK at, args, daemon, workers, events, path, blocks :
         l = [at |-> at, args |-> args, daemon |-> daemon, workers |-> workers,
              events |-> events, path |-> path, blocks |-> blocks]
  BY DEF LoadType
<1>3. ValuesTold(f, "edge_path") = <<>> <=> Told(f, "edge_path") = {}
  BY ValuesAre DEF Setting
<1>4. WithDefaults(l.events) \in EventsType /\ WithDefaults(l.events).connections # 0 /\ l.events \in EventsType
  BY <1>1 DEF WithDefaults, EventsType, Unset, LoadType
<1>5. l.path \in Seq(Words) /\ <<"default">> \in Seq(Words)
  <2>1. "default" \in Words
    BY DEF Words
  <2>2. QED  BY <2>1 DEF LoadType
<1>6. l.workers \in Int /\ l.daemon \in {Unset, 0, 1}
  BY DEF LoadType
<1>7. ("events" \in l.blocks => Opening(f, "events") # {}) /\ ("nodes" \in l.blocks => Opening(f, "nodes") # {})
  BY <1>1
<1>8. CASE l.at = "events"
  <2>1. AtEnd(l) = EventsClosed(l)
    BY <1>8 DEF AtEnd
  <2>2. EventsClosed(l) = [at |-> "main", args |-> <<>>, daemon |-> l.daemon, workers |-> l.workers,
                           events |-> WithDefaults(l.events), path |-> l.path, blocks |-> l.blocks]
    BY ClosedIs
  <2>3. l.events = EventsTold(f)
    BY <1>1, <1>8 DEF EventsSet
  <2>4. "nodes" \in l.blocks => l.path = IF Told(f, "edge_path") = {} THEN <<"default">> ELSE ValuesTold(f, "edge_path")
    BY <1>1, <1>3, <1>7, <1>8 DEF PathTold
  <2>5. QED  BY <2>1, <2>2, <2>3, <2>4, <1>1, <1>4, <1>5, <1>6
<1>9. CASE l.at = "nodes"
  <2>1. AtEnd(l) = NodesClosed(l)
    BY <1>9 DEF AtEnd
  <2>2. NodesClosed(l) = [at |-> "main", args |-> <<>>, daemon |-> l.daemon, workers |-> l.workers,
                          events |-> l.events, path |-> IF l.path = <<>> THEN <<"default">> ELSE l.path,
                          blocks |-> l.blocks]
    BY ClosedIs
  <2>3. "events" \in l.blocks => l.events = WithDefaults(EventsTold(f))
    BY <1>1, <1>7, <1>9 DEF EventsSet
  <2>4. l.path = ValuesTold(f, "edge_path")
    BY <1>1, <1>9 DEF PathTold
  <2>5. QED  BY <2>1, <2>2, <2>3, <2>4, <1>1, <1>3, <1>4, <1>5, <1>6
<1>10. CASE l.at \notin {"events", "nodes"}
  <2>1. AtEnd(l) = l
    BY <1>10 DEF AtEnd
  <2>2. "events" \in l.blocks => l.events = WithDefaults(EventsTold(f))
    BY <1>1, <1>7, <1>10 DEF EventsSet
  <2>3. "nodes" \in l.blocks => l.path = IF Told(f, "edge_path") = {} THEN <<"default">> ELSE ValuesTold(f, "edge_path")
    BY <1>1, <1>3, <1>7, <1>10 DEF PathTold
  <2>4. QED  BY <2>1, <2>2, <2>3, <1>1, <1>4, <1>5, <1>6
<1>11. QED  BY <1>8, <1>9, <1>10

\* What the root cycle says when a file is accepted.
LEMMA AcceptedAsWritten ==
  ASSUME LinesAssumption, linesRead \in Seq(Lines), load \in LoadType, ReadSoFar,
         linesRead' = linesRead, AtEnd(load).blocks = Blocks, NEW l, l = AtEnd(load),
         root' = [load |-> loads, daemon |-> IF l.daemon = Unset THEN 1 ELSE l.daemon,
                  workers |-> IF l.workers = Unset THEN 1 ELSE l.workers,
                  use |-> l.events.use, connections |-> l.events.connections, path |-> l.path]
  PROVE  AsWritten'
<1> DEFINE f == linesRead
<1>1. /\ l.daemon = DaemonTold(f) /\ WorkersTold(f, l.workers)
      /\ l.events = WithDefaults(EventsTold(f))
      /\ l.path = IF Told(f, "edge_path") = {} THEN <<"default">> ELSE ValuesTold(f, "edge_path")
  BY AtEndIs DEF ReadSoFar, Blocks
<1>2. Opening(f, "events") # {} /\ Opening(f, "nodes") # {}
  <2>1. load.blocks = Blocks
    BY AtEndIs DEF ReadSoFar
  <2>2. load.blocks = {b \in Blocks : Opening(f, b) # {}}
    BY DEF ReadSoFar, Reads
  <2>3. QED  BY <2>1, <2>2 DEF Blocks
<1>3. /\ root'.daemon = (IF l.daemon = Unset THEN 1 ELSE l.daemon)
      /\ root'.workers = (IF l.workers = Unset THEN 1 ELSE l.workers)
      /\ root'.use = l.events.use /\ root'.connections = l.events.connections /\ root'.path = l.path
  OBVIOUS
<1>4. root'.daemon = (IF ValueOf(f, Told(f, "daemon"), "on") = "on" THEN 1 ELSE 0)
  BY <1>1, <1>3 DEF DaemonTold, ValueOf, Unset
<1>5. /\ Cardinality(Told(f, "worker_processes")) <= 1
      /\ root'.workers = Processes(ValueOf(f, Told(f, "worker_processes"), "1"))
  <2> DEFINE S == Told(f, "worker_processes")
  <2>1. S \subseteq 1 .. Len(f) /\ Len(f) \in Nat
    BY DEF Told
  <2>2. \/ S = {} /\ l.workers = Unset
        \/ \E i \in S : S = {i} /\ l.workers = Processes(Value(f, i))
    BY <1>1 DEF WorkersTold
  <2> HIDE DEF S
  <2>3. CASE S = {} /\ l.workers = Unset
    <3>1. Cardinality(S) = 0
      BY <2>3, FS_EmptySet
    <3>2. Processes(ValueOf(f, S, "1")) = 1
      BY <2>3 DEF ValueOf, Processes, Number
    <3>3. QED  BY <3>1, <3>2, <2>3, <1>3 DEF S
  <2>4. ASSUME NEW i \in S, S = {i}, l.workers = Processes(Value(f, i))
        PROVE  /\ Cardinality(S) <= 1
               /\ root'.workers = Processes(ValueOf(f, S, "1"))
    <3>1. Cardinality(S) = 1
      BY <2>4, FS_Singleton
    <3>2. Max(S) = i
      <4>1. S \subseteq 0 .. Len(f) /\ S # {}
        BY <2>1, <2>4
      <4>2. PICK x \in S : Max(S) = x
        BY <4>1, <2>1, MaxIs
      <4>3. QED  BY <4>2, <2>4
    <3>3. ValueOf(f, S, "1") = Value(f, i)
      BY <3>2, <2>4 DEF ValueOf
    <3>4. l.workers # Unset
      BY <2>4, NumbersAre
    <3>5. QED  BY <3>1, <3>3, <3>4, <2>4, <1>3
  <2>5. QED  BY <2>2, <2>3, <2>4 DEF S
<1>6. /\ root'.connections = (IF Told(f, "worker_connections") = {} THEN 512
                              ELSE Number(Value(f, Min(Told(f, "worker_connections")))))
      /\ root'.use = (IF \E i \in Told(f, "use") : Value(f, i) = "select" THEN "select" ELSE "epoll")
  <2>1. \A word : Number(word) # Unset
    BY NumbersAre
  <2>2. /\ l.events.connections = IF EventsTold(f).connections = Unset THEN 512 ELSE EventsTold(f).connections
        /\ l.events.use = IF EventsTold(f).use = "unset" THEN "epoll" ELSE EventsTold(f).use
    BY <1>1 DEF WithDefaults
  <2>3. /\ EventsTold(f).connections = IF Told(f, "worker_connections") = {} THEN Unset
                                       ELSE Number(Value(f, Min(Told(f, "worker_connections"))))
        /\ EventsTold(f).use = IF \E i \in Told(f, "use") : Value(f, i) = "select" THEN "select" ELSE "unset"
    BY DEF EventsTold
  <2>4. QED  BY <2>1, <2>2, <2>3, <1>3
<1>7. root'.path = (IF Told(f, "edge_path") = {} THEN <<"default">> ELSE ValuesTold(f, "edge_path"))
  BY <1>1, <1>3
<1> HIDE DEF f
<1>8. linesRead' = f
  BY DEF f
<1>9. QED  BY <1>2, <1>4, <1>5, <1>6, <1>7, <1>8 DEF AsWritten

-----------------------------------------------------------------------------
LEMMA PastLogged ==
  ASSUME NEW p \in Seq(EndType)
  PROVE  Logged(p) \in Seq(LogType)
<1>1. PICK e : e \in EndType
  <2>1. [ok |-> FALSE, logs |-> <<>>, nodes |-> FALSE] \in EndType
    <3>1. <<>> \in Seq(STRING)
      OBVIOUS
    <3>2. QED  BY <3>1 DEF EndType
  <2>2. QED  BY <2>1
<1>2. QED  BY <1>1, PastNext

LEMMA RestIs == AtRest \in LoadType /\ AtRest.at = "rest"
<1>1. AtRest = [at |-> "rest", args |-> <<>>, daemon |-> Unset, workers |-> Unset,
                events |-> NoEvents, path |-> <<>>, blocks |-> {}]
  BY DEF AtRest, Fresh
<1>2. <<>> \in Seq(Words)
  OBVIOUS
<1>3. QED  BY <1>1, <1>2 DEF LoadType, EventsType, NoEvents, Unset

LEMMA ConfigInitInv == ConfigInit => ConfigInv
<1> SUFFICES ASSUME ConfigInit  PROVE ConfigInv
  OBVIOUS
<1>1. load = AtRest /\ root = [load |-> 0] /\ logsRoot = <<>> /\ destroyed = {} /\ manager = 0
      /\ loads = 0 /\ linesRead = <<>> /\ past = <<>>
  BY DEF ConfigInit
<1>2. AtRest \in LoadType /\ AtRest.at = "rest"
  BY RestIs
<1>3. ConfigTypes
  <2>1. <<>> \in Seq(Lines) /\ <<>> \in Seq(EndType)
    OBVIOUS
  <2>2. QED  BY <1>1, <1>2, <2>1 DEF ConfigTypes
<1>4. root.load = 0
  BY <1>1
<1>5. AsWritten
  BY <1>1 DEF AsWritten
<1>6. Accounts
  <2>1. Failures(past) = {} /\ DOMAIN past = {} /\ {k \in DOMAIN past : past[k].nodes} = {} /\ Len(past) = 0
    BY <1>1 DEF Failures
  <2>2. LastOf({}) = 0
    BY DEF LastOf
  <2>3. Logged(past) = <<>>
    <3>1. PICK s : s = [k \in DOMAIN past |-> LogsOf(k, past[k].logs)]
      OBVIOUS
    <3>2. s = <<>>
      BY <2>1, <3>1
    <3>3. Len(s) = 0
      BY <3>2
    <3>4. FlattenSeq(s) = s
      BY <3>3, FlattenIs
    <3>5. QED  BY <3>1, <3>2, <3>4 DEF Logged
  <2>4. DOMAIN past \ Failures(past) = {}
    BY <2>1
  <2>5. LastNodes(past) = 0
    BY <2>1, <2>2 DEF LastNodes
  <2>6. QED  BY <1>1, <1>4, <2>1, <2>2, <2>3, <2>4, <2>5 DEF Accounts
<1>7. QED  BY <1>1, <1>3, <1>5, <1>6 DEF ConfigInv

\* What the invariant says of the numbers of the loads.
LEMMA LoadsAre ==
  ASSUME ConfigInv
  PROVE  /\ loads \in Nat /\ root.load \in 0 .. Len(past) /\ Len(past) \in Nat
         /\ root = [load |-> 0] \/ (root \in RootType /\ root.load > 0)
<1>1. past \in Seq(EndType) /\ loads \in Nat /\ (root = [load |-> 0] \/ root \in RootType)
  BY DEF ConfigInv, ConfigTypes
<1>2. root.load = LastOf(DOMAIN past \ Failures(past))
  BY DEF ConfigInv, Accounts
<1>3. PICK n \in Nat : n = Len(past) /\ DOMAIN past = 1 .. n
  BY <1>1
<1>4. DOMAIN past \ Failures(past) \subseteq 1 .. n
  BY <1>3
<1>5. root.load \in 0 .. n
  BY <1>2, <1>4, LastOfIs
<1>6. root \in RootType => root.load > 0
  BY DEF RootType
<1>7. QED  BY <1>1, <1>3, <1>5, <1>6

LEMMA BeginKeeps ==
  ASSUME ConfigInv, Begin
  PROVE  ConfigInv'
<1>1. /\ load = AtRest /\ load' = Fresh /\ loads' = loads + 1 /\ linesRead' = <<>>
      /\ root' = (IF root.load = 0 THEN root ELSE [root EXCEPT !.connections = 0])
      /\ UNCHANGED <<logsRoot, destroyed, manager, past>>
  BY DEF Begin
<1>2. Reads(Fresh, <<>>) /\ Fresh \in LoadType /\ Fresh # AtRest
      /\ ValuesTold(<<>>, "error_log") = <<>> /\ ~ ClosedNodes(<<>>, FALSE)
  BY NothingRead
<1>3. /\ loads \in Nat /\ root.load \in 0 .. Len(past) /\ Len(past) \in Nat
      /\ root = [load |-> 0] \/ (root \in RootType /\ root.load > 0)
  BY LoadsAre
<1>4. /\ destroyed = Failures(past) /\ root.load = LastOf(DOMAIN past \ Failures(past))
      /\ \A k \in DOMAIN past : past[k].ok => past[k].nodes
      /\ loads = Len(past) /\ logsRoot = Logged(past) /\ manager = LastNodes(past)
      /\ past \in Seq(EndType)
  BY <1>1 DEF ConfigInv, Accounts, ConfigTypes
<1>5. /\ root'.load = root.load /\ (root' = [load |-> 0] \/ root' \in RootType)
      /\ root'.load > 0 => root'.connections = 0
  <2>1. CASE root = [load |-> 0]
    BY <1>1, <2>1
  <2>2. CASE root \in RootType /\ root.load > 0
    <3>1. root' = [root EXCEPT !.connections = 0]
      BY <1>1, <2>2
    <3>2. QED  BY <3>1, <2>2 DEF RootType
  <2>3. QED  BY <1>3, <2>1, <2>2
<1>6. ConfigTypes'
  <2>1. <<>> \in Seq(Lines) /\ Fresh.at = "main"
    BY DEF Fresh
  <2>2. QED  BY <1>1, <1>2, <1>3, <1>4, <1>5, <2>1 DEF ConfigTypes
<1>7. load' # AtRest /\ ReadSoFar'
  BY <1>1, <1>2 DEF ReadSoFar
<1>8. logsRoot = logsRoot \o LogsOf(loads', <<>>)
  <2>1. LogsOf(loads', <<>>) = <<>>
    BY DEF LogsOf
  <2>2. logsRoot \in Seq(LogType)
    BY <1>4, PastLogged
  <2>3. QED  BY <2>1, <2>2
<1>9. Accounts'
  BY <1>1, <1>2, <1>3, <1>4, <1>5, <1>7, <1>8 DEF Accounts
<1>10. AsWritten'
  BY <1>7 DEF AsWritten
<1>11. QED  BY <1>6, <1>7, <1>9, <1>10 DEF ConfigInv

\* A step within a load.
LEMMA WithinKeeps ==
  ASSUME ConfigInv, load # AtRest, load' \in LoadType, linesRead' \in Seq(Lines),
         Reads(load', linesRead'), Keeps, loads' = loads,
         logsRoot' = Logged(past) \o LogsOf(loads, ValuesTold(linesRead', "error_log")),
         manager' = IF ClosedNodes(linesRead', FALSE) THEN loads ELSE LastNodes(past)
  PROVE  ConfigInv'
<1>1. root' = root /\ destroyed' = destroyed /\ past' = past
  BY DEF Keeps
<1>2. load'.at # "rest" /\ load' # AtRest
  <2>1. load'.at \in Contexts
    BY DEF Reads, WellNested
  <2>2. AtRest.at = "rest"
    BY DEF AtRest, Fresh
  <2>3. QED  BY <2>1, <2>2 DEF Contexts
<1>3. ConfigTypes'
  BY <1>1, <1>2 DEF ConfigInv, ConfigTypes
<1>4. ReadSoFar' /\ AsWritten'
  BY <1>2 DEF ReadSoFar, AsWritten
<1>5. Accounts'
  BY <1>1, <1>2 DEF ConfigInv, Accounts
<1>6. QED  BY <1>3, <1>4, <1>5 DEF ConfigInv

\* A load that fails.
LEMMA FailKeeps ==
  ASSUME LinesAssumption, ConfigInv, load # AtRest, NEW toTheEnd \in BOOLEAN, Fail(toTheEnd),
         linesRead' \in Seq(Lines), loads' = loads,
         logsRoot' = Logged(past) \o LogsOf(loads, ValuesTold(linesRead', "error_log")),
         manager' = IF ClosedNodes(linesRead', toTheEnd) THEN loads ELSE LastNodes(past)
  PROVE  ConfigInv'
<1>1. PICK e : /\ e = [ok |-> FALSE, logs |-> ValuesTold(linesRead', "error_log"),
                       nodes |-> ClosedNodes(linesRead', toTheEnd)]
               /\ past' = Append(past, e)
  BY DEF Fail, Ended
<1>2. load' = AtRest /\ destroyed' = destroyed \union {loads} /\ root' = root
  BY DEF Fail
<1>3. e \in EndType /\ ~ e.ok /\ e.logs = ValuesTold(linesRead', "error_log")
      /\ (e.nodes <=> ClosedNodes(linesRead', toTheEnd))
  <2>1. ValuesTold(linesRead', "error_log") \in Seq(STRING)
    BY ValuesAre DEF Setting
  <2>2. ClosedNodes(linesRead', toTheEnd) \in BOOLEAN
    BY DEF ClosedNodes
  <2>3. QED  BY <1>1, <2>1, <2>2 DEF EndType
<1>4. /\ destroyed = Failures(past) /\ root.load = LastOf(DOMAIN past \ Failures(past))
      /\ \A k \in DOMAIN past : past[k].ok => past[k].nodes
      /\ root.load > 0 => (root.connections = 0 <=> root.load < loads)
      /\ loads = Len(past) + 1 /\ past \in Seq(EndType)
  BY DEF ConfigInv, Accounts, ConfigTypes
<1>5. /\ past' \in Seq(EndType) /\ Len(past') = Len(past) + 1
      /\ Failures(past') = Failures(past) \union {loads}
      /\ LastOf(DOMAIN past' \ Failures(past')) = LastOf(DOMAIN past \ Failures(past))
      /\ LastNodes(past') = (IF ClosedNodes(linesRead', toTheEnd) THEN loads ELSE LastNodes(past))
      /\ \A k \in DOMAIN past' : past'[k].ok => past'[k].nodes
      /\ Logged(past') = Logged(past) \o LogsOf(loads, ValuesTold(linesRead', "error_log"))
  <2>1. PICK p, q : p = past /\ q = past' /\ p \in Seq(EndType) /\ q = Append(p, e)
    BY <1>1, <1>4
  <2>2. /\ q \in Seq(EndType) /\ Len(q) = Len(p) + 1
        /\ Failures(q) = Failures(p) \union (IF e.ok THEN {} ELSE {Len(p) + 1})
        /\ LastOf(DOMAIN q \ Failures(q)) = IF e.ok THEN Len(p) + 1 ELSE LastOf(DOMAIN p \ Failures(p))
        /\ LastNodes(q) = IF e.nodes THEN Len(p) + 1 ELSE LastNodes(p)
        /\ (\A k \in DOMAIN p : p[k].ok => p[k].nodes) /\ (e.ok => e.nodes) =>
             \A k \in DOMAIN q : q[k].ok => q[k].nodes
        /\ Logged(q) = Logged(p) \o LogsOf(Len(p) + 1, e.logs)
    BY <1>3, <2>1, PastNext
  <2>3. Len(p) + 1 = loads /\ \A k \in DOMAIN p : p[k].ok => p[k].nodes
    BY <1>4, <2>1
  <2>4. \A k \in DOMAIN q : q[k].ok => q[k].nodes
    BY <2>2, <2>3, <1>3
  <2>5. Failures(q) = Failures(p) \union {loads} /\ Len(q) = loads
    BY <2>2, <2>3, <1>3
  <2>6. LastOf(DOMAIN q \ Failures(q)) = LastOf(DOMAIN p \ Failures(p))
    BY <2>2, <1>3
  <2>7. LastNodes(q) = IF ClosedNodes(linesRead', toTheEnd) THEN loads ELSE LastNodes(p)
    BY <2>2, <2>3, <1>3
  <2>8. Logged(q) = Logged(p) \o LogsOf(loads, ValuesTold(linesRead', "error_log"))
    BY <2>2, <2>3, <1>3
  <2>9. q \in Seq(EndType) /\ Len(q) = Len(p) + 1
    BY <2>2
  <2>10. QED  BY <2>1, <2>4, <2>5, <2>6, <2>7, <2>8, <2>9
<1>6. loads \in Nat /\ root.load \in 0 .. Len(past) /\ Len(past) \in Nat
  BY LoadsAre
<1>7. AtRest \in LoadType /\ AtRest.at = "rest"
  BY RestIs
<1>8. ConfigTypes'
  BY <1>2, <1>5, <1>6, <1>7 DEF ConfigInv, ConfigTypes
<1>9. AsWritten'
  <2>1. root'.load # loads'
    BY <1>2, <1>4, <1>6
  <2>2. QED  BY <2>1 DEF AsWritten
<1>10. Accounts'
  <2>1. destroyed' = Failures(past')
    BY <1>2, <1>4, <1>5
  <2>2. root'.load = LastOf(DOMAIN past' \ Failures(past'))
    BY <1>2, <1>4, <1>5
  <2>3. root'.load > 0 => (root'.connections = 0 <=> root'.load < loads')
    BY <1>2, <1>4
  <2>4. loads' = Len(past') /\ logsRoot' = Logged(past') /\ manager' = LastNodes(past')
    BY <1>4, <1>5
  <2>5. QED  BY <1>2, <1>5, <2>1, <2>2, <2>3, <2>4 DEF Accounts
<1>11. QED  BY <1>2, <1>8, <1>9, <1>10 DEF ConfigInv

LEMMA ReadKeeps ==
  ASSUME LinesAssumption, ConfigInv, NEW line \in Lines, ReadLine(line)
  PROVE  ConfigInv'
<1> DEFINE f == linesRead
           g == linesRead'
           n == Len(linesRead')
<1>1. load # AtRest /\ load.at \in Contexts /\ load \in LoadType /\ f \in Seq(Lines)
  <2>1. load.at \in Contexts
    BY DEF ReadLine
  <2>2. QED  BY <2>1, RestIs DEF Contexts, ConfigInv, ConfigTypes
<1>2. ReadSoFar /\ Reads(load, f) /\ WellNested(f)
  BY <1>1 DEF ConfigInv, ReadSoFar, Reads
<1>3. /\ Longer(f, g) /\ loads' = loads
      /\ \/ LineStops \/ LinePasses \/ LineCloses
         \/ \E b \in Blocks : LineOpens(b)
         \/ \E name \in Setting : LineSets(name)
  BY <1>1, <1>2, LineRead
<1>4. /\ logsRoot = Logged(past) \o LogsOf(loads, ValuesTold(f, "error_log"))
      /\ manager = IF ClosedNodes(f, FALSE) THEN loads ELSE LastNodes(past)
      /\ loads \in Nat /\ past \in Seq(EndType)
  BY <1>1 DEF ConfigInv, Accounts, ConfigTypes
<1> HIDE DEF f, g, n
<1>5. /\ g \in Seq(Lines) /\ f \in Seq(Lines) /\ n \in DOMAIN g
  BY <1>3, LastIs DEF f, g, n
<1>6. ClosedNodes(g, FALSE) <=> ClosedNodes(f, FALSE) \/ (ClosesLast(g) /\ Here(f) = "nodes")
  BY <1>3, ClosedNext
<1>7. ~ TellsLast(g, "error_log") => ValuesTold(g, "error_log") = ValuesTold(f, "error_log")
  <2>1. "error_log" \in DOMAIN Commands /\ Commands["error_log"].at = "main"
    BY CommandsAre
  <2>2. ~ (OpensLast(g) /\ g[Len(g)][1] = "main")
    BY <1>3, LastOpens DEF Blocks
  <2>3. QED  BY <2>1, <2>2, <1>2, <1>3, ValuesNext
<1>8. load.at = Here(f)
  BY <1>2 DEF Reads
<1>9. CASE LineStops
  <2>1. Fail(FALSE) /\ logsRoot' = logsRoot /\ manager' = manager /\ ~ TellsLast(g, "error_log")
        /\ ~ (ClosesLast(g) /\ Here(f) = "nodes")
    BY <1>9 DEF LineStops, f, g
  <2>2. /\ logsRoot' = Logged(past) \o LogsOf(loads, ValuesTold(g, "error_log"))
        /\ manager' = IF ClosedNodes(g, FALSE) THEN loads ELSE LastNodes(past)
    BY <2>1, <1>4, <1>6, <1>7
  <2>3. QED  BY <2>1, <2>2, <1>1, <1>3, <1>5, FailKeeps DEF g
<1>10. CASE LinePasses
  <2>1. /\ load' = [load EXCEPT !.args = <<>>] /\ Keeps /\ logsRoot' = logsRoot /\ manager' = manager
        /\ ~ OpensLast(g) /\ ~ ClosesLast(g) /\ \A name \in DOMAIN Commands : ~ TellsLast(g, name)
    BY <1>10 DEF LinePasses, g
  <2>2. ~ TellsLast(g, "error_log")
    BY <2>1, CommandsAre
  <2>3. Reads(load', g) /\ load' \in LoadType
    BY <2>1, <1>1, <1>2, <1>3, PassNext
  <2>4. /\ logsRoot' = Logged(past) \o LogsOf(loads, ValuesTold(g, "error_log"))
        /\ manager' = IF ClosedNodes(g, FALSE) THEN loads ELSE LastNodes(past)
    BY <2>1, <2>2, <1>4, <1>6, <1>7
  <2>5. QED  BY <2>1, <2>3, <2>4, <1>1, <1>3, <1>5, WithinKeeps DEF g
<1>11. CASE LineCloses
  <2>1. /\ ClosesLast(g) /\ Keeps /\ logsRoot' = logsRoot
        /\ \/ load.at = "events" /\ load' = EventsClosed(load) /\ manager' = manager
           \/ load.at = "nodes" /\ load' = NodesClosed(load) /\ manager' = loads
    BY <1>11 DEF LineCloses, g
  <2>2. ~ TellsLast(g, "error_log")
    BY <2>1, <1>3, LastOpens
  <2>3. Reads(load', g) /\ load' \in LoadType
    BY <2>1, <1>1, <1>2, <1>3, CloseNext
  <2>4. /\ logsRoot' = Logged(past) \o LogsOf(loads, ValuesTold(g, "error_log"))
        /\ manager' = IF ClosedNodes(g, FALSE) THEN loads ELSE LastNodes(past)
    BY <2>1, <2>2, <1>4, <1>6, <1>7, <1>8
  <2>5. QED  BY <2>1, <2>3, <2>4, <1>1, <1>3, <1>5, WithinKeeps DEF g
<1>12. ASSUME NEW b \in Blocks, LineOpens(b)  PROVE ConfigInv'
  <2>1. /\ OpensLast(g) /\ g[n][1] = b /\ load' = Opened([load EXCEPT !.args = <<b>>], b)
        /\ Keeps /\ logsRoot' = logsRoot /\ manager' = manager
    BY <1>12 DEF LineOpens, g, n
  <2>2. ~ TellsLast(g, "error_log") /\ ~ ClosesLast(g)
    BY <2>1, <1>3, LastOpens
  <2>3. Reads(load', g) /\ load' \in LoadType
    BY <2>1, <1>1, <1>2, <1>3, OpenNext DEF g, n
  <2>4. /\ logsRoot' = Logged(past) \o LogsOf(loads, ValuesTold(g, "error_log"))
        /\ manager' = IF ClosedNodes(g, FALSE) THEN loads ELSE LastNodes(past)
    BY <2>1, <2>2, <1>4, <1>6, <1>7
  <2>5. QED  BY <2>1, <2>3, <2>4, <1>1, <1>3, <1>5, WithinKeeps DEF g
<1>13. ASSUME NEW name \in Setting, LineSets(name)  PROVE ConfigInv'
  <2>1. PICK word : word = Value(g, n)
    OBVIOUS
  <2>2. /\ TellsLast(g, name) /\ ~ OpensLast(g) /\ ~ ClosesLast(g)
        /\ \A other \in DOMAIN Commands \ {name} : ~ TellsLast(g, other)
        /\ load' = Settled(load, name, word)
        /\ name = "worker_processes" => load.workers = Unset /\ Processes(word) # 0
        /\ name = "worker_connections" /\ load.events.connections = Unset => Number(word) # 0
        /\ IF name = "error_log" THEN ErrorLogLinked(word) ELSE UNCHANGED logsRoot
        /\ Keeps /\ manager' = manager
    BY <1>13, <2>1 DEF LineSets, g, n
  <2>3. word \in STRING
    BY <2>1, <2>2, <1>5, ValuesAre DEF TellsLast, n, g
  <2>4. Reads(load', g) /\ load' \in LoadType
    <3>1. word = Value(g, Len(g))
      BY <2>1 DEF n, g
    <3>2. QED  BY <3>1, <2>2, <2>3, <1>1, <1>2, <1>3, SetNext
  <2>5. manager' = IF ClosedNodes(g, FALSE) THEN loads ELSE LastNodes(past)
    BY <2>2, <1>4, <1>6
  <2>6. logsRoot' = Logged(past) \o LogsOf(loads, ValuesTold(g, "error_log"))
    <3>1. CASE name = "error_log"
      <4>1. logsRoot' = Append(logsRoot, [load |-> loads, path |-> word])
        BY <2>2, <3>1 DEF ErrorLogLinked
      <4>2. ValuesTold(g, "error_log") = Append(ValuesTold(f, "error_log"), word)
        <5>1. "error_log" \in DOMAIN Commands
          BY CommandsAre
        <5>2. QED  BY <5>1, <3>1, <2>1, <2>2, <1>2, <1>3, ValuesNext DEF n, g
      <4>3. ValuesTold(f, "error_log") \in Seq(STRING)
        BY <1>5, ValuesAre DEF Setting
      <4>4. PICK s, t, x : /\ s = Logged(past) /\ t = LogsOf(loads, ValuesTold(f, "error_log"))
                           /\ x = [load |-> loads, path |-> word]
        OBVIOUS
      <4>5. LogsOf(loads, ValuesTold(g, "error_log")) = Append(t, x) /\ t \in Seq(LogType)
        <5>1. PICK v : v = ValuesTold(f, "error_log") /\ v \in Seq(STRING)
          BY <4>3
        <5>2. LogsOf(loads, v) \in Seq([load : Nat, path : STRING])
          BY <5>1, <1>4, LogsAre
        <5>3. LogsOf(loads, Append(v, word)) = Append(LogsOf(loads, v), [load |-> loads, path |-> word])
          BY <5>1, <2>3, <1>4, LogsAre
        <5>4. QED  BY <5>1, <5>2, <5>3, <4>2, <4>4 DEF LogType
      <4>6. s \in Seq(LogType) /\ x \in LogType
        BY <4>4, <2>3, <1>4, PastLogged DEF LogType
      <4>7. Append(s \o t, x) = s \o Append(t, x)
        <5>1. t \in Seq(LogType)
          BY <4>5
        <5>2. PICK T : s \in Seq(T) /\ t \in Seq(T) /\ x \in T
          BY <5>1, <4>6
        <5>3. s \o t \in Seq(T)
          BY <5>2, ConcatProperties
        <5>4. Append(s \o t, x) = (s \o t) \o <<x>> /\ Append(t, x) = t \o <<x>>
          BY <5>2, <5>3, AppendIsConcat
        <5>5. <<x>> \in Seq(T)
          BY <5>2
        <5>6. QED  BY <5>2, <5>4, <5>5, ConcatAssociative
      <4>8. QED  BY <4>1, <4>4, <4>5, <4>7, <1>4
    <3>2. CASE name # "error_log"
      <4>1. "error_log" \in DOMAIN Commands \ {name}
        BY <3>2, CommandsAre
      <4>2. logsRoot' = logsRoot /\ ~ TellsLast(g, "error_log")
        BY <4>1, <3>2, <2>2
      <4>3. QED  BY <4>2, <1>4, <1>7
    <3>3. QED  BY <3>1, <3>2
  <2>7. QED  BY <2>2, <2>4, <2>5, <2>6, <1>1, <1>3, <1>5, WithinKeeps DEF g
<1>14. QED  BY <1>3, <1>9, <1>10, <1>11, <1>12, <1>13

\* A load that is accepted.
LEMMA AcceptKeeps ==
  ASSUME LinesAssumption, ConfigInv, load # AtRest, NEW l, l = AtEnd(load), l.blocks = Blocks,
         root' = [load |-> loads, daemon |-> IF l.daemon = Unset THEN 1 ELSE l.daemon,
                  workers |-> IF l.workers = Unset THEN 1 ELSE l.workers,
                  use |-> l.events.use, connections |-> l.events.connections, path |-> l.path],
         load' = AtRest, Ended(TRUE, TRUE), destroyed' = destroyed, linesRead' = linesRead,
         loads' = loads, logsRoot' = logsRoot,
         manager' = IF ClosedNodes(linesRead, TRUE) THEN loads ELSE LastNodes(past)
  PROVE  ConfigInv'
<1>1. /\ load \in LoadType /\ linesRead \in Seq(Lines) /\ ReadSoFar /\ Reads(load, linesRead)
      /\ destroyed = Failures(past)
      /\ \A k \in DOMAIN past : past[k].ok => past[k].nodes
      /\ loads = Len(past) + 1 /\ past \in Seq(EndType)
      /\ logsRoot = Logged(past) \o LogsOf(loads, ValuesTold(linesRead, "error_log"))
  BY DEF ConfigInv, Accounts, ConfigTypes, ReadSoFar
<1>2. /\ l.blocks = load.blocks /\ l.events \in EventsType /\ l.path \in Seq(Words)
      /\ l.events.connections # 0 /\ l.workers \in Int /\ l.daemon \in {Unset, 0, 1}
  BY <1>1, AtEndIs
<1>3. ClosedNodes(linesRead, TRUE)
  <2>1. Opening(linesRead, "nodes") # {}
    BY <1>1, <1>2 DEF Reads, Blocks
  <2>2. QED  BY <2>1 DEF ClosedNodes
<1>4. PICK e : /\ e = [ok |-> TRUE, logs |-> ValuesTold(linesRead, "error_log"), nodes |-> TRUE]
               /\ past' = Append(past, e)
  <2>1. ClosedNodes(linesRead, TRUE) = TRUE
    BY <1>3 DEF ClosedNodes
  <2>2. QED  BY <2>1 DEF Ended
<1>5. e \in EndType /\ e.ok /\ e.nodes /\ e.logs = ValuesTold(linesRead, "error_log")
  <2>1. ValuesTold(linesRead, "error_log") \in Seq(STRING)
    BY <1>1, ValuesAre DEF Setting
  <2>2. QED  BY <1>4, <2>1 DEF EndType
<1>6. /\ past' \in Seq(EndType) /\ Len(past') = loads /\ Failures(past') = Failures(past)
      /\ LastOf(DOMAIN past' \ Failures(past')) = loads /\ LastNodes(past') = loads
      /\ \A k \in DOMAIN past' : past'[k].ok => past'[k].nodes
      /\ Logged(past') = logsRoot
  <2>1. PICK p, q : p = past /\ q = past' /\ p \in Seq(EndType) /\ q = Append(p, e)
    BY <1>1, <1>4
  <2>2. /\ q \in Seq(EndType) /\ Len(q) = Len(p) + 1
        /\ Failures(q) = Failures(p) \union (IF e.ok THEN {} ELSE {Len(p) + 1})
        /\ LastOf(DOMAIN q \ Failures(q)) = IF e.ok THEN Len(p) + 1 ELSE LastOf(DOMAIN p \ Failures(p))
        /\ LastNodes(q) = IF e.nodes THEN Len(p) + 1 ELSE LastNodes(p)
        /\ (\A k \in DOMAIN p : p[k].ok => p[k].nodes) /\ (e.ok => e.nodes) =>
             \A k \in DOMAIN q : q[k].ok => q[k].nodes
        /\ Logged(q) = Logged(p) \o LogsOf(Len(p) + 1, e.logs)
    BY <1>5, <2>1, PastNext
  <2>3. Len(p) + 1 = loads /\ \A k \in DOMAIN p : p[k].ok => p[k].nodes
    BY <1>1, <2>1
  <2>4. \A k \in DOMAIN q : q[k].ok => q[k].nodes
    BY <2>2, <2>3, <1>5
  <2>5. Failures(q) = Failures(p) /\ Len(q) = loads /\ LastNodes(q) = loads
        /\ LastOf(DOMAIN q \ Failures(q)) = loads
    BY <2>2, <2>3, <1>5
  <2>6. Logged(q) = logsRoot
    BY <2>1, <2>2, <2>3, <1>1, <1>5
  <2>7. q \in Seq(EndType)
    BY <2>2
  <2>8. QED  BY <2>1, <2>4, <2>5, <2>6, <2>7
<1>7. loads \in Nat /\ Len(past) \in Nat /\ loads > 0
  <2>1. loads \in Nat /\ Len(past) \in Nat
    BY LoadsAre
  <2>2. QED  BY <2>1, <1>1
<1>8. root' \in RootType /\ root'.load = loads /\ root'.connections # 0
  <2>1. (IF l.daemon = Unset THEN 1 ELSE l.daemon) \in {0, 1}
    BY <1>2
  <2>2. (IF l.workers = Unset THEN 1 ELSE l.workers) \in Int
    BY <1>2
  <2>3. l.events.use \in {"unset", "select", "epoll"} /\ l.events.connections \in Int
    BY <1>2 DEF EventsType
  <2>4. loads \in Nat \ {0}
    BY <1>7
  <2>5. PICK daemon, workers, use, connections, path :
          /\ root' = [load |-> loads, daemon |-> daemon, workers |-> workers, use |-> use,
                      connections |-> connections, path |-> path]
          /\ daemon \in {0, 1} /\ workers \in Int /\ use \in {"unset", "select", "epoll"}
          /\ connections \in Int /\ connections # 0 /\ path \in Seq(Words)
    BY <1>2, <2>1, <2>2, <2>3
  <2>6. QED  BY <2>4, <2>5 DEF RootType
<1>9. ConfigTypes'
  BY <1>1, <1>6, <1>7, <1>8, RestIs DEF ConfigTypes
<1>10. AsWritten'
  BY <1>1, <1>2, AcceptedAsWritten
<1>11. Accounts'
  <2>1. ~ (root'.load < loads')
    BY <1>7, <1>8
  <2>2. QED  BY <2>1, <1>1, <1>3, <1>6, <1>8 DEF Accounts
<1>12. QED  BY <1>9, <1>10, <1>11 DEF ConfigInv

LEMMA EndKeeps ==
  ASSUME LinesAssumption, ConfigInv, EndOfFile
  PROVE  ConfigInv'
<1>1. /\ load # AtRest /\ load.at \in Contexts /\ linesRead' = linesRead /\ loads' = loads /\ logsRoot' = logsRoot
      /\ load.at = "nodes" => manager' = loads
      /\ load.at # "nodes" => manager' = manager
  <2>1. load.at \in Contexts
    BY DEF EndOfFile
  <2>2. load # AtRest
    BY <2>1, RestIs DEF Contexts
  <2>3. linesRead' = linesRead /\ loads' = loads /\ logsRoot' = logsRoot
    BY DEF EndOfFile
  <2>4. IF load.at = "nodes" THEN ManagerMade ELSE UNCHANGED manager
    BY DEF EndOfFile
  <2>5. QED  BY <2>1, <2>2, <2>3, <2>4 DEF ManagerMade
<1>2. /\ load \in LoadType /\ linesRead \in Seq(Lines) /\ Reads(load, linesRead)
      /\ logsRoot = Logged(past) \o LogsOf(loads, ValuesTold(linesRead, "error_log"))
      /\ manager = IF ClosedNodes(linesRead, FALSE) THEN loads ELSE LastNodes(past)
  BY <1>1 DEF ConfigInv, Accounts, ConfigTypes, ReadSoFar
<1>3. WellNested(linesRead) /\ load.at = Here(linesRead)
  BY <1>2 DEF Reads
<1>4. manager' = IF ClosedNodes(linesRead, TRUE) THEN loads ELSE LastNodes(past)
  <2>1. ClosedNodes(linesRead, TRUE) <=> ClosedNodes(linesRead, FALSE) \/ Opening(linesRead, "nodes") # {}
    BY DEF ClosedNodes
  <2>2. CASE load.at = "nodes"
    <3>1. Opening(linesRead, "nodes") # {}
      BY <2>2, <1>2, <1>3, OpenOpened
    <3>2. QED  BY <3>1, <2>1, <2>2, <1>1
  <2>3. CASE load.at # "nodes"
    <3>1. Opening(linesRead, "nodes") # {} => ClosedNodes(linesRead, FALSE)
      BY <2>3, <1>3 DEF WellNested
    <3>2. QED  BY <3>1, <2>1, <2>3, <1>1, <1>2
  <2>4. QED  BY <2>2, <2>3
<1>5. PICK l : /\ l = AtEnd(load)
               /\ \/ Fail(TRUE)
                  \/ /\ l.blocks = {"events", "nodes"}
                     /\ root' = [load |-> loads, daemon |-> IF l.daemon = Unset THEN 1 ELSE l.daemon,
                                 workers |-> IF l.workers = Unset THEN 1 ELSE l.workers,
                                 use |-> l.events.use, connections |-> l.events.connections, path |-> l.path]
                     /\ load' = AtRest /\ Ended(TRUE, TRUE) /\ destroyed' = destroyed
  BY DEF EndOfFile, AtEnd
<1>6. CASE Fail(TRUE)
  BY <1>1, <1>2, <1>4, <1>6, FailKeeps
<1>7. CASE ~ Fail(TRUE)
  <2>1. l.blocks = Blocks
    BY <1>5, <1>7 DEF Blocks
  <2>2. QED  BY <2>1, <1>1, <1>4, <1>5, <1>7, AcceptKeeps
<1>8. QED  BY <1>6, <1>7

LEMMA ConfigKeeps ==
  ASSUME LinesAssumption, ConfigInv, [ConfigNext]_configVars
  PROVE  ConfigInv'
<1>1. CASE Begin
  BY <1>1, BeginKeeps
<1>2. ASSUME NEW line \in Lines, ReadLine(line)  PROVE ConfigInv'
  BY <1>2, ReadKeeps
<1>3. CASE EndOfFile
  BY <1>3, EndKeeps
<1>4. CASE UNCHANGED configVars
  BY <1>4 DEF configVars, ConfigInv, ConfigTypes, ReadSoFar, AsWritten, Accounts
<1>5. QED  BY <1>1, <1>2, <1>3, <1>4 DEF ConfigNext

LEMMA AccountsSay ==
  ASSUME ConfigInv
  PROVE  LoadsAccounted
<1> SUFFICES ASSUME load = AtRest  PROVE LoadsAccounted
  BY DEF LoadsAccounted
<1>1. /\ destroyed = Failures(past) /\ root.load = LastOf(DOMAIN past \ Failures(past))
      /\ \A k \in DOMAIN past : past[k].ok => past[k].nodes
      /\ root.load > 0 => (root.connections = 0 <=> root.load < loads)
      /\ logsRoot = Logged(past) /\ manager = LastNodes(past)
  BY DEF ConfigInv, Accounts
<1>2. Failures(past) = {} => manager = root.load
  <2>1. SUFFICES ASSUME Failures(past) = {}  PROVE manager = root.load
    OBVIOUS
  <2>2. {k \in DOMAIN past : past[k].nodes} = DOMAIN past
    BY <2>1, <1>1 DEF Failures
  <2>3. DOMAIN past \ Failures(past) = DOMAIN past
    BY <2>1
  <2>4. QED  BY <2>2, <2>3, <1>1 DEF LastNodes
<1>3. QED  BY <1>1, <1>2 DEF LoadsAccounted, Logged, LogsOf, LastNodes, Failures

(***************************************************************************)
(* The settings of the root cycle, after a load that was accepted, are     *)
(* those the lines of its file tell, whatever the lines are.               *)
(***************************************************************************)
THEOREM LoadedAsWritten == ConfigInit /\ [][ConfigNext]_configVars => []AsWritten
<1>1. ConfigInit => ConfigInv
  BY ConfigInitInv
<1>2. ConfigInv /\ [ConfigNext]_configVars => ConfigInv'
  BY ConfigKeeps, LinesAssumption
<1>3. ConfigInv => AsWritten
  BY DEF ConfigInv
<1>4. QED  BY <1>1, <1>2, <1>3, PTL

(***************************************************************************)
(* Between loads the root cycle, its conn_size, the linked logs, the       *)
(* destroyed pools and the manager are what the files of all the loads     *)
(* account for, whatever the lines of the files and however many loads.    *)
(***************************************************************************)
THEOREM LoadsAreAccounted == ConfigInit /\ [][ConfigNext]_configVars => []LoadsAccounted
<1>1. ConfigInit => ConfigInv
  BY ConfigInitInv
<1>2. ConfigInv /\ [ConfigNext]_configVars => ConfigInv'
  BY ConfigKeeps, LinesAssumption
<1>3. ConfigInv => LoadsAccounted
  BY AccountsSay
<1>4. QED  BY <1>1, <1>2, <1>3, PTL
=============================================================================
