-------------------------- MODULE Supervisor_proofs --------------------------
(* Proofs about Supervisor: its type invariant, and that the master loses no *)
(* child and leaves none behind.  And, as long as every spawn succeeds: no   *)
(* two entries share a channel, whoever is marked exiting was told to leave, *)
(* and reloads and respawns together never double a role.  Where no reload   *)
(* is asked for, nobody is killed who was not told to terminate before.      *)
EXTENDS Supervisor, TLAPS

\* Setting fields of an entry gives an entry.
LEMMA EntryFacts ==
  ASSUME NEW e \in Entry, NEW p \in Pid \cup {NoPid}, NEW c \in Slot \cup {NoChan},
         NEW b \in BOOLEAN
  PROVE  /\ [e EXCEPT !.pid = p, !.chan = c, !.exited = b] \in Entry
         /\ [e EXCEPT !.chan = c] \in Entry
         /\ [e EXCEPT !.chan = c, !.pid = p] \in Entry
         /\ [e EXCEPT !.exited = b] \in Entry
         /\ [e EXCEPT !.exiting = b] \in Entry
         /\ [e EXCEPT !.exited = TRUE, !.exiting = b] \in Entry
         /\ [e EXCEPT !.just_spawn = b] \in Entry
  BY DEF Entry

\* The entry a new worker gets before its pid and channel are filled in.
LEMMA UnusedEntry == Unused \in Entry
  BY DEF Entry, Unused

LEMMA NewEntry ==
  ASSUME NEW k \in 1..Len(Roles), NEW b \in BOOLEAN
  PROVE  [Unused EXCEPT !.role = Roles[k], !.just_spawn = b] \in Entry
  <1>1. Roles[k] \in RoleSet
    BY DEF RoleSet
  <1> QED BY <1>1, UnusedEntry DEF Entry

\* The numbers that stand for no process and no channel are neither.
LEMMA NullFacts == NoPid \notin Pid /\ NoChan \notin Slot /\ Pid \subseteq Nat
  BY PidAssumption DEF NoPid, NoChan, Slot

-----------------------------------------------------------------------------
(* Types.                                                                    *)

Typed == TypeOK /\ LoopOK

\* A successful fork keeps the table, the kernel and the budget well typed.
LEMMA ForkTyped ==
  ASSUME TypeOK, NEW s \in Slot, NEW e \in Entry,
         NEW open \in [Slot -> Pid \cup {NoPid}], Fork(s, e, open)
  PROVE  /\ tab' \in [Slot -> Entry] /\ last' \in 0..ProcessesMax
         /\ sock' \in [Slot -> Pid \cup {NoPid}]
         /\ mail' \in [Pid -> SUBSET Commands] /\ sig' \in [Pid -> SUBSET Commands]
         /\ proc' \in [Pid -> {"none", "run", "joining", "zombie", "gone"}]
         /\ budget' \in [Kinds -> Nat]
  <1>1. PICK p \in Pid, c \in Slot :
          /\ proc' = [proc EXCEPT ![p] = "run"]
          /\ sock' = [open EXCEPT ![c] = p]
          /\ tab' = [tab EXCEPT ![s] = [e EXCEPT !.pid = p, !.chan = c, !.exited = FALSE]]
    BY DEF Fork
  <1>2. [e EXCEPT !.pid = p, !.chan = c, !.exited = FALSE] \in Entry
    BY EntryFacts
  <1>3. tab' \in [Slot -> Entry]
    BY <1>1, <1>2 DEF TypeOK
  <1>4. last' \in 0..ProcessesMax
    BY TableAssumption DEF Fork, TypeOK, Slot
  <1> QED BY <1>1, <1>3, <1>4 DEF Fork, TypeOK

\* So does a spawn that fails.
LEMMA SpawnFailsTyped ==
  ASSUME TypeOK, NEW s \in Slot, NEW had \in Slot \cup {NoChan},
         NEW open \in [Slot -> Pid \cup {NoPid}], SpawnFails(s, had, open)
  PROVE  /\ tab' \in [Slot -> Entry] /\ last' \in 0..ProcessesMax
         /\ sock' \in [Slot -> Pid \cup {NoPid}]
         /\ mail' \in [Pid -> SUBSET Commands] /\ sig' \in [Pid -> SUBSET Commands]
         /\ proc' \in [Pid -> {"none", "run", "joining", "zombie", "gone"}]
         /\ budget' \in [Kinds -> Nat]
  <1>1. PICK c \in Slot \cup {NoChan} : tab' = [tab EXCEPT ![s].chan = c]
    BY DEF SpawnFails
  <1>2. [tab[s] EXCEPT !.chan = c] \in Entry
    BY EntryFacts DEF TypeOK
  <1>3. tab' \in [Slot -> Entry]
    BY <1>1, <1>2 DEF TypeOK
  <1>4. budget' \in [Kinds -> Nat]
    BY DEF SpawnFails, Spend, TypeOK, Kinds
  <1> QED BY <1>3, <1>4 DEF SpawnFails, TypeOK

\* A loop over the table looks at one of its entries.
LEMMA CurrentEntry ==
  ASSUME TypeOK, cur =< last
  PROVE  cur \in Slot /\ tab[cur] \in Entry /\ cur \in 1..last
  BY TableAssumption DEF TypeOK, Slot

\* Closing the channel of an entry leaves a function of the same type.
LEMMA ClosedTyped ==
  ASSUME TypeOK, NEW s \in Slot
  PROVE  ChannelClosed(s) \in [Slot -> Pid \cup {NoPid}]
  BY DEF ChannelClosed, TypeOK

\* The initial state is well typed.
LEMMA InitTyped == Init => Typed
<1> SUFFICES ASSUME Init  PROVE Typed
  OBVIOUS
<1>1. tab \in [Slot -> Entry]
  BY UnusedEntry DEF Init
<1>2. budget \in [Kinds -> Nat]
  BY BudgetAssumption DEF Init
<1>3. last \in 0..ProcessesMax
  BY TableAssumption DEF Init
<1> QED BY <1>1, <1>2, <1>3 DEF Init, Typed, TypeOK, LoopOK, Points

\* Every step keeps the types.
LEMMA StepTyped == Typed /\ [Next]_vars => Typed'
<1> SUFFICES ASSUME TypeOK, LoopOK, [Next]_vars  PROVE Typed'
  BY DEF Typed
<1> USE DEF Typed, Points, Commands, NextSlot, Goto, Loop
<1>1. CASE Arm
  <2>1. delay' \in Nat /\ sigio' \in Nat /\ timer' \in {"idle", "armed"}
    BY <1>1, DelayAssumption DEF Arm, TypeOK
  <2>2. flags' \subseteq Flags
    BY <1>1 DEF Arm, TypeOK
  <2> QED BY <1>1, <2>1, <2>2 DEF Arm, TypeOK, LoopOK, binary, table, kernel
<1>2. CASE SigSuspend
  <2>1. proc' \in [Pid -> {"none", "run", "joining", "zombie", "gone"}]
    BY <1>2 DEF SigSuspend, GetStatus, TypeOK
  <2>2. tab' \in [Slot -> Entry]
    <3>1. \A s \in Slot : [tab[s] EXCEPT !.exited = TRUE] \in Entry
      BY EntryFacts DEF TypeOK
    <3> QED BY <1>2, <3>1 DEF SigSuspend, GetStatus, TypeOK
  <2>3. flags' \subseteq Flags
    <3>1. \A s \in Signals : Raises(s) \subseteq Flags
      BY DEF Raises, Signals, Flags
    <3> QED BY <1>2, <3>1 DEF SigSuspend, TypeOK
  <2>4. UNCHANGED <<delay, sigio, timer, binary, last, sock, mail, sig, budget>>
    BY <1>2 DEF SigSuspend
  <2>5. pending' \subseteq Signals
    BY <1>2 DEF SigSuspend
  <2>6. /\ pc' \in {"reap", "check"} /\ cur' = 1 /\ live' \in {0, 1}
        /\ after' \in Points \cup {"none"} /\ job' = "none"
    BY <1>2 DEF SigSuspend, TypeOK
  <2> QED BY <2>1, <2>2, <2>3, <2>4, <2>5, <2>6 DEF TypeOK, LoopOK, binary
<1>3. CASE ReapSkips
  BY <1>3 DEF ReapSkips, TypeOK, LoopOK, binary, table, kernel
<1>4. CASE ReapRespawns
  <2>1. Reaping /\ Fork(cur, tab[cur], ChannelClosed(cur))
    BY <1>4 DEF ReapRespawns
  <2>2. cur \in Slot /\ tab[cur] \in Entry /\ ChannelClosed(cur) \in [Slot -> Pid \cup {NoPid}]
    BY <2>1, CurrentEntry, ClosedTyped DEF Reaping
  <2> QED BY <1>4, <2>1, <2>2, ForkTyped DEF ReapRespawns, TypeOK, LoopOK, binary, Reaping
<1>5. CASE ReapFailsToRespawn
  <2>1. Reaping /\ SpawnFails(cur, NoChan, ChannelClosed(cur))
    BY <1>5 DEF ReapFailsToRespawn
  <2>2. cur \in Slot /\ ChannelClosed(cur) \in [Slot -> Pid \cup {NoPid}]
    BY <2>1, CurrentEntry, ClosedTyped DEF Reaping
  <2>3. /\ tab' \in [Slot -> Entry] /\ last' \in 0..ProcessesMax
        /\ sock' \in [Slot -> Pid \cup {NoPid}]
        /\ mail' \in [Pid -> SUBSET Commands] /\ sig' \in [Pid -> SUBSET Commands]
        /\ proc' \in [Pid -> {"none", "run", "joining", "zombie", "gone"}]
        /\ budget' \in [Kinds -> Nat]
    BY <2>1, <2>2, SpawnFailsTyped
  <2> QED BY <1>5, <2>2, <2>3
          DEF ReapFailsToRespawn, TypeOK, LoopOK, local, binary, Reaping
<1>6. CASE ReapFrees
  <2>1. cur \in 1..last /\ cur \in Slot /\ tab[cur] \in Entry
    BY <1>6, CurrentEntry DEF ReapFrees, Reaping
  <2>2. /\ [tab[cur] EXCEPT !.chan = NoChan] \in Entry
        /\ [tab[cur] EXCEPT !.chan = NoChan, !.pid = NoPid] \in Entry
    BY <2>1, EntryFacts
  <2>3. tab' \in [Slot -> Entry] /\ last' \in 0..ProcessesMax
    BY <1>6, <2>1, <2>2, TableAssumption DEF ReapFrees, TypeOK
  <2>4. sock' \in [Slot -> Pid \cup {NoPid}]
    BY <1>6, <2>1, ClosedTyped DEF ReapFrees
  <2> QED BY <1>6, <2>1, <2>3, <2>4 DEF ReapFrees, Reaping, TypeOK, LoopOK, local, binary
<1>7. CASE ReapDone
  BY <1>7 DEF ReapDone, TypeOK, LoopOK, local, binary, table, kernel
<1>8. CASE SignalSkips
  BY <1>8 DEF SignalSkips, TypeOK, LoopOK, local, binary, table, kernel
<1>9. CASE SignalSparesNew
  <2>1. cur \in Slot /\ tab[cur] \in Entry
    BY <1>9, CurrentEntry DEF SignalSparesNew
  <2>2. tab' \in [Slot -> Entry]
    BY <1>9, <2>1, EntryFacts DEF SignalSparesNew, TypeOK
  <2> QED BY <1>9, <2>1, <2>2 DEF SignalSparesNew, TypeOK, LoopOK, local, binary, kernel
<1>10. CASE SignalWrites
  <2>1. cur \in Slot /\ tab[cur] \in Entry
    BY <1>10, CurrentEntry DEF SignalWrites, Signalling
  <2>2. tab' \in [Slot -> Entry]
    <3>1. (tab[cur].exiting \/ job # "USR1") \in BOOLEAN
      BY <2>1 DEF Entry
    <3>2. [tab[cur] EXCEPT !.exiting = tab[cur].exiting \/ job # "USR1"] \in Entry
      BY <2>1, <3>1, EntryFacts
    <3> QED BY <1>10, <2>1, <3>2 DEF SignalWrites, TypeOK
  <2>3. mail' \in [Pid -> SUBSET Commands]
    BY <1>10, <2>1 DEF SignalWrites, TypeOK
  <2> QED BY <1>10, <2>1, <2>2, <2>3
          DEF SignalWrites, Signalling, TypeOK, LoopOK, local, binary
<1>11. CASE SignalKills
  <2>1. cur \in Slot /\ tab[cur] \in Entry
    BY <1>11, CurrentEntry DEF SignalKills, Signalling
  <2>2. tab' \in [Slot -> Entry]
    <3>1. (tab[cur].exiting \/ job # "USR1") \in BOOLEAN
      BY <2>1 DEF Entry
    <3>2. [tab[cur] EXCEPT !.exiting = tab[cur].exiting \/ job # "USR1"] \in Entry
      BY <2>1, <3>1, EntryFacts
    <3> QED BY <1>11, <2>1, <3>2 DEF SignalKills, TypeOK
  <2>3. sig' \in [Pid -> SUBSET Commands]
    BY <1>11 DEF SignalKills, Signalling, TypeOK, LoopOK
  <2>4. proc' \in [Pid -> {"none", "run", "joining", "zombie", "gone"}]
    BY <1>11 DEF SignalKills, TypeOK
  <2>5. pending' \subseteq Signals
    BY <1>11 DEF SignalKills, TypeOK, Signals
  <2> QED BY <1>11, <2>1, <2>2, <2>3, <2>4, <2>5
          DEF SignalKills, Signalling, TypeOK, LoopOK, local, binary
<1>12. CASE SignalFindsNoProcess
  <2>1. cur \in Slot /\ tab[cur] \in Entry
    BY <1>12, CurrentEntry DEF SignalFindsNoProcess, Signalling
  <2>2. [tab[cur] EXCEPT !.exited = TRUE, !.exiting = FALSE] \in Entry
    BY <2>1, EntryFacts
  <2>3. tab' \in [Slot -> Entry]
    BY <1>12, <2>1, <2>2 DEF SignalFindsNoProcess, TypeOK
  <2> QED BY <1>12, <2>1, <2>3
          DEF SignalFindsNoProcess, Signalling, TypeOK, LoopOK, Flags, local, binary, kernel
<1>13. CASE SignalDone
  BY <1>13 DEF SignalDone, TypeOK, LoopOK, local, binary, table, kernel
<1>14. CASE StartWorker
  <2>1. PICK s \in Slot :
          \/ Fork(s, [Unused EXCEPT !.role = Roles[cur],
                                    !.just_spawn = (job = "reload")], sock)
          \/ SpawnFails(s, tab[s].chan, sock)
    BY <1>14 DEF StartWorker
  <2>2. cur \in 1..Len(Roles)
    BY <1>14, RolesAssumption DEF StartWorker, TypeOK
  <2>3. [Unused EXCEPT !.role = Roles[cur], !.just_spawn = (job = "reload")] \in Entry
    BY <2>2, NewEntry
  <2>4. tab[s].chan \in Slot \cup {NoChan} /\ sock \in [Slot -> Pid \cup {NoPid}]
    BY DEF TypeOK, Entry
  <2>5. /\ tab' \in [Slot -> Entry] /\ last' \in 0..ProcessesMax
        /\ sock' \in [Slot -> Pid \cup {NoPid}]
        /\ mail' \in [Pid -> SUBSET Commands] /\ sig' \in [Pid -> SUBSET Commands]
        /\ proc' \in [Pid -> {"none", "run", "joining", "zombie", "gone"}]
        /\ budget' \in [Kinds -> Nat]
    BY <2>1, <2>3, <2>4, ForkTyped, SpawnFailsTyped
  <2> QED BY <1>14, <2>5 DEF StartWorker, TypeOK, LoopOK, local, binary
<1>15. CASE StartFindsTableFull
  BY <1>15 DEF StartFindsTableFull, TypeOK, LoopOK, local, binary, table, kernel
<1>16. CASE StartDone
  BY <1>16 DEF StartDone, TypeOK, LoopOK, binary, table, kernel
<1>17. CASE MasterExits
  BY <1>17 DEF MasterExits, DeletePid, TypeOK, LoopOK, local, table, kernel
<1>18. CASE MasterGoesOn
  BY <1>18 DEF MasterGoesOn, TypeOK, LoopOK, local, binary, table, kernel
<1>19. CASE Terminate
  BY <1>19, DelayAssumption, WorkerAssumption DEF Terminate, TypeOK, LoopOK, binary, table, kernel
<1>20. CASE Quit
  BY <1>20 DEF Quit, TypeOK, LoopOK, local, binary, table, kernel
<1>21. CASE Reconfigure
  BY <1>21 DEF Reconfigure, TypeOK, LoopOK, local, binary, table, kernel
<1>22. CASE Reopen
  BY <1>22 DEF Reopen, TypeOK, LoopOK, local, binary, table, kernel
<1>23. CASE ChangeBinary
  BY <1>23 DEF ChangeBinary, TypeOK, LoopOK, local, table, kernel
<1>24. CASE NoAccept
  BY <1>24 DEF NoAccept, TypeOK, LoopOK, local, binary, table, kernel
<1>25. CASE NotAsked
  BY <1>25 DEF NotAsked, Successor, TypeOK, LoopOK, local, binary, table, kernel
<1>26. CASE TimerFires
  <2>1. pending' \subseteq Signals
    BY <1>26 DEF TimerFires, TypeOK, Signals
  <2> QED BY <1>26, <2>1 DEF TimerFires, TypeOK, LoopOK, control, binary, table, kernel
<1>27. CASE OperatorSignals
  <2>1. pending' \subseteq Signals
    BY <1>27, SignalAssumption DEF OperatorSignals, TypeOK, Signals
  <2>2. budget' \in [Kinds -> Nat]
    BY <1>27 DEF OperatorSignals, Spend, TypeOK, Kinds
  <2> QED BY <1>27, <2>1, <2>2
          DEF OperatorSignals, TypeOK, LoopOK, control, local, binary, table, kernel
<1>28. ASSUME NEW p \in Pid, WorkerDies(p)  PROVE Typed'
  <2>1. pending' \subseteq Signals
    BY <1>28 DEF WorkerDies, TypeOK, Signals
  <2>2. budget' \in [Kinds -> Nat]
    BY <1>28 DEF WorkerDies, Spend, TypeOK, Kinds
  <2> QED BY <1>28, <2>1, <2>2 DEF WorkerDies, TypeOK, LoopOK, control, local, binary, table
<1>29. ASSUME NEW p \in Pid, WorkerLeaves(p)  PROVE Typed'
  <2>1. budget' \in [Kinds -> Nat]
    BY <1>29 DEF WorkerLeaves, Spend, TypeOK, Kinds
  <2> QED BY <1>29, <2>1 DEF WorkerLeaves, TypeOK, LoopOK, control, local, binary, table
<1>30. CASE UNCHANGED vars
  BY <1>30 DEF vars, TypeOK, LoopOK, control, local, binary, table, kernel
<1> QED
  BY <1>1, <1>2, <1>3, <1>4, <1>5, <1>6, <1>7, <1>8, <1>9, <1>10, <1>11, <1>12, <1>13,
     <1>14, <1>15, <1>16, <1>17, <1>18, <1>19, <1>20, <1>21, <1>22, <1>23, <1>24, <1>25,
     <1>26, <1>27, <1>28, <1>29, <1>30
     DEF Next, Master, Reap, Signal, Start, Body, Worker

\* The type invariant of the master and its workers.
THEOREM TypeCorrect == Spec => []TypeOK
<1>1. Typed => TypeOK
  BY DEF Typed
<1> QED BY <1>1, InitTyped, StepTyped, PTL DEF Spec

-----------------------------------------------------------------------------
(* No child is lost.                                                         *)

\* The entries a process needs stay while the processes do: what is enough
\* for a step that creates no process.
LEMMA TrackedKept ==
  ASSUME Tracked,
         \A p \in Pid : Exists(p)' => Exists(p),
         \A s \in Used : ~tab[s].exited =>
           /\ s \in Used' /\ tab'[s].pid = tab[s].pid
           /\ Exists(tab[s].pid)' => ~tab'[s].exited
  PROVE  Tracked'
<1> SUFFICES ASSUME NEW p \in Pid, Exists(p)'
             PROVE  \E s \in Used' : tab'[s].pid = p /\ ~tab'[s].exited
  BY DEF Tracked
<1>1. PICK s \in Used : tab[s].pid = p /\ ~tab[s].exited
  BY DEF Tracked
<1> QED BY <1>1

\* A fork into an entry that tracks no process keeps every process tracked.
LEMMA ForkTracks ==
  ASSUME TypeOK, Tracked, NEW s \in Slot, NEW e \in Entry, NEW open,
         s \in Used => tab[s].exited, s =< last + 1, Fork(s, e, open)
  PROVE  Tracked'
<1>1. PICK q \in Pid, c \in Slot :
        /\ proc' = [proc EXCEPT ![q] = "run"]
        /\ tab' = [tab EXCEPT ![s] = [e EXCEPT !.pid = q, !.chan = c, !.exited = FALSE]]
        /\ last' = IF s > last THEN s ELSE last
  BY DEF Fork
<1>2. tab'[s].pid = q /\ ~tab'[s].exited
  BY <1>1 DEF TypeOK, Entry
<1>3. s \in Used'
  BY <1>1, <1>2, NullFacts DEF Used, Slot, TypeOK
<1>4. ASSUME NEW p \in Pid, Exists(p)'
      PROVE  \E t \in Used' : tab'[t].pid = p /\ ~tab'[t].exited
  <2>1. CASE p = q
    BY <1>2, <1>3, <2>1
  <2>2. CASE p # q
    <3>1. Exists(p)
      BY <1>1, <1>4, <2>2 DEF Exists, TypeOK
    <3>2. PICK t \in Used : tab[t].pid = p /\ ~tab[t].exited
      BY <3>1 DEF Tracked
    <3>3. t # s /\ t \in Slot
      BY <3>2, TableAssumption DEF Used, Slot, TypeOK
    <3>4. tab'[t] = tab[t] /\ t \in Used'
      BY <1>1, <3>3 DEF Used, TypeOK, Slot
    <3> QED BY <3>2, <3>4
  <2> QED BY <2>1, <2>2
<1> QED BY <1>4 DEF Tracked

\* A spawn that fails changes the channel of an entry only.
LEMMA SpawnFailsTracks ==
  ASSUME TypeOK, Tracked, NEW s \in Slot, NEW had, NEW open, SpawnFails(s, had, open)
  PROVE  Tracked'
<1>1. PICK c : tab' = [tab EXCEPT ![s].chan = c]
  BY DEF SpawnFails
<1>2. \A t \in Slot : tab'[t].pid = tab[t].pid /\ tab'[t].exited = tab[t].exited
  BY <1>1 DEF TypeOK, Entry
<1>3. last' = last /\ proc' = proc
  BY DEF SpawnFails
<1>4. 1..last \subseteq Slot
  BY TableAssumption DEF TypeOK, Slot
<1> QED BY <1>2, <1>3, <1>4, TrackedKept DEF Used, Exists

\* Every step keeps every process tracked.
LEMMA StepTracked == Typed /\ Tracked /\ [Next]_vars => Tracked'
<1> SUFFICES ASSUME TypeOK, LoopOK, Tracked, [Next]_vars  PROVE Tracked'
  BY DEF Typed
<1>0. 1..last \subseteq Slot
  BY TableAssumption DEF TypeOK, Slot
<1>1. CASE UNCHANGED <<table, proc>>
  BY <1>1 DEF table, Tracked, Used, Exists
<1>2. CASE SigSuspend
  <2>1. CASE "CHLD" \in pending
    <3>1. last' = last
      BY <1>2 DEF SigSuspend
    <3>2. \A p \in Pid : Exists(p)' => Exists(p) /\ proc[p] # "zombie"
      BY <1>2, <2>1 DEF SigSuspend, GetStatus, Exists, TypeOK
    <3>3. \A s \in Slot : /\ tab'[s].pid = tab[s].pid
                          /\ proc[tab[s].pid] # "zombie" => tab'[s].exited = tab[s].exited
      BY <1>2, <2>1 DEF SigSuspend, GetStatus, TypeOK, Entry
    <3>4. \A s \in Used : tab[s].pid \in Pid
      BY <1>0 DEF Used, TypeOK, Entry
    <3> QED BY <1>0, <3>1, <3>2, <3>3, <3>4, TrackedKept DEF Used
  <2>2. CASE "CHLD" \notin pending
    BY <1>1, <1>2, <2>2 DEF SigSuspend, table
  <2> QED BY <2>1, <2>2
<1>3. CASE ReapRespawns
  <2>1. /\ Fork(cur, tab[cur], ChannelClosed(cur)) /\ tab[cur].exited
        /\ cur \in Slot /\ tab[cur] \in Entry /\ cur =< last
    BY <1>3, CurrentEntry DEF ReapRespawns, Reaping
  <2>2. cur =< last + 1
    BY <2>1 DEF TypeOK
  <2> QED BY <2>1, <2>2, ForkTracks
<1>4. CASE ReapFailsToRespawn
  <2>1. SpawnFails(cur, NoChan, ChannelClosed(cur)) /\ cur \in Slot
    BY <1>4, CurrentEntry DEF ReapFailsToRespawn, Reaping
  <2> QED BY <2>1, SpawnFailsTracks
<1>5. CASE ReapFrees
  <2>1. cur \in 1..last /\ tab[cur].exited /\ proc' = proc
    BY <1>5, CurrentEntry DEF ReapFrees, Reaping
  <2>2. \A s \in Slot : s # cur => tab'[s] = tab[s]
    BY <1>5 DEF ReapFrees, TypeOK
  <2>3. \A s \in 1..last : s # cur => s \in 1..last'
    BY <1>5, <2>1 DEF ReapFrees, TypeOK
  <2> QED BY <1>0, <2>1, <2>2, <2>3, TrackedKept DEF Used, Exists
<1>6. CASE SignalSparesNew
  <2>1. last' = last /\ proc' = proc
    BY <1>6 DEF SignalSparesNew, kernel
  <2>2. \A s \in Slot : tab'[s].pid = tab[s].pid /\ tab'[s].exited = tab[s].exited
    BY <1>6 DEF SignalSparesNew, TypeOK, Entry
  <2> QED BY <1>0, <2>1, <2>2, TrackedKept DEF Used, Exists
<1>7. CASE SignalWrites
  <2>1. last' = last /\ proc' = proc
    BY <1>7 DEF SignalWrites
  <2>2. \A s \in Slot : tab'[s].pid = tab[s].pid /\ tab'[s].exited = tab[s].exited
    BY <1>7 DEF SignalWrites, TypeOK, Entry
  <2> QED BY <1>0, <2>1, <2>2, TrackedKept DEF Used, Exists
<1>8. CASE SignalKills
  <2>1. last' = last
    BY <1>8 DEF SignalKills
  <2>2. \A p \in Pid : Exists(p)' => Exists(p)
    BY <1>8 DEF SignalKills, Exists, TypeOK
  <2>3. \A s \in Slot : tab'[s].pid = tab[s].pid /\ tab'[s].exited = tab[s].exited
    BY <1>8 DEF SignalKills, TypeOK, Entry
  <2> QED BY <1>0, <2>1, <2>2, <2>3, TrackedKept DEF Used
<1>9. CASE SignalFindsNoProcess
  <2>1. last' = last /\ proc' = proc /\ ~Exists(tab[cur].pid)
    BY <1>9 DEF SignalFindsNoProcess, Signalling, kernel
  <2>2. \A s \in Slot : tab'[s].pid = tab[s].pid
    BY <1>9 DEF SignalFindsNoProcess, TypeOK, Entry
  <2>3. \A s \in Slot : s # cur => tab'[s].exited = tab[s].exited
    BY <1>9 DEF SignalFindsNoProcess, TypeOK
  <2>4. \A p : Exists(p)' <=> Exists(p)
    BY <2>1 DEF Exists
  <2> QED BY <1>0, <2>1, <2>2, <2>3, <2>4, TrackedKept DEF Used
<1>10. CASE StartWorker
  <2>1. PICK s \in Slot :
          /\ IsFreeSlot(s)
          /\ \/ Fork(s, [Unused EXCEPT !.role = Roles[cur],
                                       !.just_spawn = (job = "reload")], sock)
             \/ SpawnFails(s, tab[s].chan, sock)
    BY <1>10 DEF StartWorker
  <2>2. s =< last + 1 /\ s \notin Used
    BY <2>1 DEF IsFreeSlot, Used
  <2>3. cur \in 1..Len(Roles)
    BY <1>10, RolesAssumption DEF StartWorker, TypeOK
  <2>4. [Unused EXCEPT !.role = Roles[cur], !.just_spawn = (job = "reload")] \in Entry
    BY <2>3, NewEntry
  <2> QED BY <2>1, <2>2, <2>4, ForkTracks, SpawnFailsTracks
<1>11. ASSUME NEW p \in Pid, WorkerDies(p)  PROVE Tracked'
  <2>1. UNCHANGED table /\ \A q \in Pid : Exists(q)' => Exists(q)
    BY <1>11 DEF WorkerDies, Running, Exists, TypeOK
  <2> QED BY <2>1, TrackedKept DEF Used, table
<1>12. ASSUME NEW p \in Pid, WorkerLeaves(p)  PROVE Tracked'
  <2>1. UNCHANGED table /\ \A q \in Pid : Exists(q)' => Exists(q)
    BY <1>12 DEF WorkerLeaves, Exists, TypeOK
  <2> QED BY <2>1, TrackedKept DEF Used, table
<1>13. \/ UNCHANGED <<table, proc>>
       \/ SigSuspend \/ ReapRespawns \/ ReapFailsToRespawn \/ ReapFrees
       \/ SignalSparesNew \/ SignalWrites \/ SignalKills \/ SignalFindsNoProcess
       \/ StartWorker \/ \E p \in Pid : WorkerDies(p) \/ WorkerLeaves(p)
  <2>1. CASE Arm \/ Body
    BY <2>1 DEF Arm, Body, MasterExits, MasterGoesOn, Terminate, Quit, Reconfigure,
                Reopen, ChangeBinary, NoAccept, NotAsked, kernel
  <2>2. CASE ReapSkips \/ ReapDone \/ SignalSkips \/ SignalDone
    BY <2>2 DEF ReapSkips, ReapDone, SignalSkips, SignalDone, kernel
  <2>3. CASE StartFindsTableFull \/ StartDone \/ TimerFires \/ OperatorSignals
    BY <2>3 DEF StartFindsTableFull, StartDone, TimerFires, OperatorSignals, kernel
  <2>4. CASE UNCHANGED vars
    BY <2>4 DEF vars, kernel
  <2> QED BY <2>1, <2>2, <2>3, <2>4 DEF Next, Master, Reap, Signal, Start, Worker
<1> QED BY <1>1, <1>2, <1>3, <1>4, <1>5, <1>6, <1>7, <1>8, <1>9, <1>10, <1>11, <1>12, <1>13

-----------------------------------------------------------------------------
(* live = 0 means that nothing is left to wait for.                          *)

\* A step that keeps the table's entries exited and does not clear live or
\* change the new binary keeps the meaning of live.
LEMMA LiveKept ==
  ASSUME LiveOK, last' = last, live' = live, UNCHANGED binary,
         \A s \in 1..last : /\ tab'[s].pid = tab[s].pid
                            /\ tab[s].exited => tab'[s].exited,
         pc \notin {"reap", "start"}, pc' \notin {"reap", "start", "exited"}
  PROVE  LiveOK'
  BY DEF LiveOK, Used, binary

\* Every step keeps the meaning of live.
LEMMA StepLive == Typed /\ LiveOK /\ [Next]_vars => LiveOK'
<1> SUFFICES ASSUME TypeOK, LoopOK, LiveOK, [Next]_vars  PROVE LiveOK'
  BY DEF Typed
<1> USE DEF Goto, Loop, NextSlot
<1>0. 1..last \subseteq Slot
  BY TableAssumption DEF TypeOK, Slot
<1>1. CASE Arm
  BY <1>1, LiveKept DEF Arm, binary, table
<1>2. CASE SigSuspend
  <2>1. last' = last /\ UNCHANGED binary /\ pc = "suspend"
    BY <1>2 DEF SigSuspend
  <2>2. \A s \in 1..last : /\ tab'[s].pid = tab[s].pid
                           /\ tab[s].exited => tab'[s].exited
    BY <1>0, <1>2 DEF SigSuspend, GetStatus, TypeOK, Entry
  <2>3. \/ pc' = "reap" /\ cur' = 1
        \/ pc' = "check" /\ live' = live
    BY <1>2 DEF SigSuspend
  <2>4. CASE pc' = "reap" /\ cur' = 1
    BY <2>1, <2>4 DEF LiveOK, Used, TypeOK, binary
  <2>5. CASE pc' = "check" /\ live' = live
    BY <2>1, <2>2, <2>5, LiveKept
  <2> QED BY <2>3, <2>4, <2>5
<1>3. CASE ReapSkips
  <2>1. /\ pc = "reap" /\ pc' = "reap" /\ cur' = cur + 1 /\ UNCHANGED <<tab, last, binary>>
        /\ live' = IF tab[cur].pid = NoPid THEN live ELSE 1
    BY <1>3 DEF ReapSkips, table
  <2> QED BY <2>1 DEF LiveOK, Used, TypeOK, binary
<1>4. CASE ReapRespawns
  BY <1>4 DEF ReapRespawns, Reaping, LiveOK, binary
<1>5. CASE ReapFailsToRespawn
  <2>1. /\ pc = "reap" /\ pc' = "reap" /\ cur' = cur + 1
        /\ live' = live /\ last' = last /\ tab[cur].exited /\ cur =< last
    BY <1>5 DEF ReapFailsToRespawn, Reaping, SpawnFails, local
  <2>2. \A s \in Slot : tab'[s].pid = tab[s].pid /\ tab'[s].exited = tab[s].exited
    BY <1>5 DEF ReapFailsToRespawn, SpawnFails, TypeOK, Entry
  <2>3. ASSUME live' = 0, NEW s \in Used', s < cur'  PROVE tab'[s].exited
    <3>1. s \in Used /\ s \in Slot
      BY <1>0, <2>1, <2>2 DEF Used
    <3>2. s < cur \/ s = cur
      BY <2>1, <2>3, <3>1 DEF TypeOK, Slot
    <3> QED BY <2>1, <2>2, <2>3, <3>1, <3>2 DEF LiveOK
  <2> QED BY <1>5, <2>1, <2>3 DEF LiveOK, ReapFailsToRespawn, binary
<1>6. CASE ReapFrees
  <2>1. /\ pc = "reap" /\ pc' = "reap" /\ cur' = cur + 1 /\ live' = live
        /\ tab[cur].exited /\ cur \in 1..last /\ last' \in {last, last - 1}
    BY <1>6, CurrentEntry DEF ReapFrees, Reaping, local
  <2>2. \A s \in Slot : /\ tab'[s].exited = tab[s].exited
                        /\ tab'[s].pid \in {tab[s].pid, NoPid}
    BY <1>6 DEF ReapFrees, TypeOK, Entry
  <2>3. \A s \in Used' : s \in Used
    BY <1>0, <2>1, <2>2 DEF Used, TypeOK
  <2>4. ASSUME live' = 0, NEW s \in Used', s < cur'  PROVE tab'[s].exited
    <3>1. s \in Used /\ s \in Slot
      BY <1>0, <2>3 DEF Used
    <3>2. s < cur \/ s = cur
      BY <2>1, <2>4, <3>1 DEF TypeOK, Slot
    <3> QED BY <2>1, <2>2, <2>4, <3>1, <3>2 DEF LiveOK
  <2> QED BY <1>6, <2>1, <2>4 DEF LiveOK, ReapFrees, binary
<1>7. CASE ReapDone
  <2>1. /\ pc = "reap" /\ pc' = "check" /\ cur > last /\ live' = live
        /\ UNCHANGED <<tab, last, binary>>
    BY <1>7 DEF ReapDone, local, table
  <2>2. \A s \in Used : s < cur
    BY <2>1 DEF Used, TypeOK
  <2> QED BY <2>1, <2>2 DEF LiveOK, Used, binary
<1>8. CASE SignalSkips
  BY <1>8, LiveKept DEF SignalSkips, local, binary, table
<1>9. CASE SignalSparesNew
  <2>1. \A s \in 1..last : tab'[s].pid = tab[s].pid /\ tab'[s].exited = tab[s].exited
    BY <1>0, <1>9 DEF SignalSparesNew, TypeOK, Entry
  <2> QED BY <1>9, <2>1, LiveKept DEF SignalSparesNew, local, binary
<1>10. CASE SignalWrites
  <2>1. \A s \in 1..last : tab'[s].pid = tab[s].pid /\ tab'[s].exited = tab[s].exited
    BY <1>0, <1>10 DEF SignalWrites, TypeOK, Entry
  <2> QED BY <1>10, <2>1, LiveKept DEF SignalWrites, Signalling, local, binary
<1>11. CASE SignalKills
  <2>1. \A s \in 1..last : tab'[s].pid = tab[s].pid /\ tab'[s].exited = tab[s].exited
    BY <1>0, <1>11 DEF SignalKills, TypeOK, Entry
  <2> QED BY <1>11, <2>1, LiveKept DEF SignalKills, Signalling, local, binary
<1>12. CASE SignalFindsNoProcess
  <2>1. \A s \in 1..last : /\ tab'[s].pid = tab[s].pid
                           /\ tab[s].exited => tab'[s].exited
    BY <1>0, <1>12 DEF SignalFindsNoProcess, TypeOK, Entry
  <2> QED BY <1>12, <2>1, LiveKept DEF SignalFindsNoProcess, Signalling, local, binary
<1>13. CASE SignalDone
  BY <1>13, LiveKept DEF SignalDone, LoopOK, local, binary, table
<1>14. CASE StartWorker
  BY <1>14 DEF StartWorker, LiveOK, local, binary
<1>15. CASE StartFindsTableFull
  BY <1>15 DEF StartFindsTableFull, LiveOK, local, binary
<1>16. CASE StartDone
  BY <1>16 DEF StartDone, LoopOK, LiveOK, binary
<1>17. CASE MasterExits
  BY <1>17 DEF MasterExits, DeletePid, LiveOK, Used, local, table
<1>18. CASE MasterGoesOn
  BY <1>18, LiveKept DEF MasterGoesOn, local, binary, table
<1>19. CASE Terminate
  BY <1>19, LiveKept DEF Terminate, binary, table
<1>20. CASE Quit
  BY <1>20, LiveKept DEF Quit, local, binary, table
<1>21. CASE Reconfigure
  BY <1>21 DEF Reconfigure, LiveOK, Used, local, binary, table
<1>22. CASE Reopen
  BY <1>22, LiveKept DEF Reopen, local, binary, table
<1>23. CASE ChangeBinary
  BY <1>23 DEF ChangeBinary, LiveOK, Used, TypeOK, local, table
<1>24. CASE NoAccept
  BY <1>24, LiveKept DEF NoAccept, local, binary, table
<1>25. CASE NotAsked
  BY <1>25, LiveKept DEF NotAsked, Successor, local, binary, table
<1>26. CASE UNCHANGED <<control, live, binary, table>>
  BY <1>26 DEF LiveOK, Used, control, binary, table
<1>27. CASE TimerFires \/ OperatorSignals \/ Worker \/ UNCHANGED vars
  BY <1>26, <1>27 DEF TimerFires, OperatorSignals, Worker, WorkerDies, WorkerLeaves, local, vars
<1> QED
  BY <1>1, <1>2, <1>3, <1>4, <1>5, <1>6, <1>7, <1>8, <1>9, <1>10, <1>11, <1>12, <1>13,
     <1>14, <1>15, <1>16, <1>17, <1>18, <1>19, <1>20, <1>21, <1>22, <1>23, <1>24, <1>25,
     <1>27
     DEF Next, Master, Reap, Signal, Start, Body

-----------------------------------------------------------------------------
(* The theorems.                                                             *)

\* The invariant holds at the start.
LEMMA InvInitial == Init => IInv
<1>1. ASSUME Init  PROVE Tracked /\ LiveOK
  BY <1>1 DEF Init, Tracked, Exists, LiveOK
<1> QED BY <1>1, InitTyped DEF IInv, Typed

\* Every step keeps the invariant.
LEMMA InvPreserved == IInv /\ [Next]_vars => IInv'
BY StepTyped, StepTracked, StepLive DEF IInv, Typed

\* The inductive invariant holds in every reachable state.
LEMMA Invariance == Spec => []IInv
BY InvInitial, InvPreserved, PTL DEF Spec

\* Whatever fails and whatever the operator asks, every child that exists has
\* an entry in unix_processes[] that is not marked exited.
THEOREM NoChildIsLost == Spec => []Tracked
<1>1. IInv => Tracked
  BY DEF IInv
<1> QED BY <1>1, Invariance, PTL

\* The master that exits without a failed second change of binary has no
\* child left: not one that runs, waits in exit or is not reaped.
THEOREM NoChildIsLeftBehind == Spec => []NoOrphan
<1>1. IInv => NoOrphan
  <2> SUFFICES ASSUME IInv, pc = "exited", newBinary = 0, NEW p \in Pid, Exists(p)
               PROVE  FALSE
    BY DEF NoOrphan
  <2>1. \A s \in Used : tab[s].exited
    BY DEF IInv, LiveOK
  <2> QED BY <2>1 DEF IInv, Tracked
<1> QED BY <1>1, Invariance, PTL

-----------------------------------------------------------------------------
(* As long as every spawn succeeds.                                          *)

\* No spawn has failed so far: none was made to, and fork has a pid to give.
NoneFailed == budget["spawn"] = Budget["spawn"] /\ \E p \in Pid : Unborn(p)

\* The channel of an entry is open and read by its own process.
OwnChannel == \A s \in Used : tab[s].chan \in Slot /\ sock[tab[s].chan] = tab[s].pid

OwnPid == \A s \in Used : /\ ~Unborn(tab[s].pid)
                          /\ \A t \in Used : tab[s].pid = tab[t].pid => s = t

\* A process that was waited for is found by the loop that reaps; only there
\* are entries marked exited.
ReapedAtOnce ==
  \A s \in Used : /\ ~tab[s].exited => Exists(tab[s].pid)
                  /\ tab[s].exited => pc = "reap" /\ s >= cur

Sound == OwnChannel /\ OwnPid /\ ReapedAtOnce /\ ExitingWasTold

-----------------------------------------------------------------------------
(* A spawn that failed leaves a trace.                                     *)

\* No process is unborn again and no budget grows.
LEMMA Monotone ==
  ASSUME TypeOK, [Next]_vars
  PROVE  /\ \A p \in Pid : Unborn(p)' => Unborn(p)
         /\ budget'["spawn"] =< budget["spawn"]
  <1> USE DEF Unborn
  <1>0. budget["spawn"] \in Nat /\ \A k \in Kinds : budget[k] \in Nat
    BY DEF TypeOK, Kinds
  <1>1. ASSUME UNCHANGED <<proc, budget>>
        PROVE  (\A p \in Pid : Unborn(p)' => Unborn(p)) /\ budget'["spawn"] =< budget["spawn"]
    BY <1>0, <1>1
  <1>2. ASSUME NEW k \in Kinds, Spend(k)  PROVE budget'["spawn"] =< budget["spawn"]
    BY <1>0, <1>2 DEF Spend, TypeOK, Kinds
  <1>3. ASSUME NEW s, NEW e, NEW open, Fork(s, e, open)
        PROVE  (\A p \in Pid : Unborn(p)' => Unborn(p)) /\ budget'["spawn"] =< budget["spawn"]
    BY <1>0, <1>3 DEF Fork, TypeOK
  <1>4. ASSUME NEW s, NEW h, NEW open, SpawnFails(s, h, open)
        PROVE  (\A p \in Pid : Unborn(p)' => Unborn(p)) /\ budget'["spawn"] =< budget["spawn"]
    <2>1. UNCHANGED proc
      BY <1>4 DEF SpawnFails
    <2>2. budget'["spawn"] =< budget["spawn"]
      BY <1>0, <1>2, <1>4 DEF SpawnFails, Kinds
    <2> QED BY <2>1, <2>2
  <1>5. CASE SigSuspend
    <2>1. UNCHANGED budget /\ (UNCHANGED proc \/ GetStatus)
      BY <1>5 DEF SigSuspend
    <2>2. \A p \in Pid : Unborn(p)' => Unborn(p)
      BY <2>1 DEF GetStatus
    <2> QED BY <1>0, <2>1, <2>2
  <1>6. CASE ReapRespawns
    BY <1>3, <1>6 DEF ReapRespawns
  <1>7. CASE ReapFailsToRespawn
    BY <1>4, <1>7 DEF ReapFailsToRespawn
  <1>8. CASE StartWorker
    BY <1>3, <1>4, <1>8 DEF StartWorker
  <1>9. CASE SignalKills
    <2>1. UNCHANGED budget
      BY <1>9 DEF SignalKills
    <2>2. UNCHANGED proc \/ proc' = [proc EXCEPT ![tab[cur].pid] = "zombie"]
      BY <1>9 DEF SignalKills
    <2> QED BY <1>0, <2>1, <2>2 DEF TypeOK
  <1>10. CASE Worker
    <2>1. PICK p \in Pid : WorkerDies(p) \/ WorkerLeaves(p)
      BY <1>10 DEF Worker
    <2>2. \A q \in Pid : Unborn(q)' => Unborn(q)
      BY <2>1 DEF WorkerDies, WorkerLeaves, TypeOK
    <2>3. budget'["spawn"] =< budget["spawn"]
      BY <1>0, <1>2, <2>1 DEF WorkerDies, WorkerLeaves, Kinds
    <2> QED BY <2>2, <2>3
  <1>11. CASE OperatorSignals
    BY <1>2, <1>11 DEF OperatorSignals, kernel, Kinds
  <1>12. CASE Arm \/ ReapSkips \/ ReapFrees \/ ReapDone
    BY <1>1, <1>12 DEF Arm, ReapSkips, ReapFrees, ReapDone, kernel
  <1>13. CASE SignalSkips \/ SignalSparesNew \/ SignalWrites \/ SignalFindsNoProcess \/ SignalDone
    BY <1>1, <1>13 DEF SignalSkips, SignalSparesNew, SignalWrites, SignalFindsNoProcess, SignalDone, kernel
  <1>14. CASE StartFindsTableFull \/ StartDone \/ TimerFires
    BY <1>1, <1>14 DEF StartFindsTableFull, StartDone, TimerFires, kernel
  <1>15. CASE Body
    BY <1>1, <1>15 DEF Body, MasterExits, MasterGoesOn, Terminate, Quit, Reconfigure, Reopen,
      ChangeBinary, NoAccept, NotAsked, kernel
  <1>16. CASE UNCHANGED vars
    BY <1>1, <1>16 DEF vars, kernel
  <1> QED
    BY <1>5, <1>6, <1>7, <1>8, <1>9, <1>10, <1>11, <1>12, <1>13, <1>14, <1>15, <1>16
    DEF Next, Master, Reap, Signal, Start

\* If none has failed after a step, none had before, and this one did not.
LEMMA NoneFailedBefore ==
  ASSUME TypeOK, budget["spawn"] =< Budget["spawn"], [Next]_vars, NoneFailed'
  PROVE  NoneFailed /\ \A s, h, open : ~SpawnFails(s, h, open)
  <1>1. budget["spawn"] \in Nat /\ Budget["spawn"] \in Nat
    BY BudgetAssumption DEF TypeOK, Kinds
  <1>2. budget'["spawn"] = Budget["spawn"] /\ \E p \in Pid : Unborn(p)'
    BY DEF NoneFailed
  <1>3. NoneFailed
    BY <1>1, <1>2, Monotone DEF NoneFailed
  <1>4. ASSUME NEW s, NEW h, NEW open, SpawnFails(s, h, open)  PROVE FALSE
    <2>1. UNCHANGED proc
      BY <1>4 DEF SpawnFails
    <2>2. Spend("spawn")
      BY <1>2, <1>4, <2>1 DEF SpawnFails, Unborn
    <2>3. budget'["spawn"] = budget["spawn"] - 1
      BY <2>2 DEF Spend, TypeOK, Kinds
    <2> QED BY <1>1, <1>2, <2>3
  <1> QED BY <1>3, <1>4
-----------------------------------------------------------------------------
(* Sound is kept.                                                          *)

\* Slots, pids and roles of the entries in use, and where the table ends.
LEMMA UsedFacts ==
  ASSUME TypeOK, NEW s \in Used
  PROVE  s \in Slot /\ s \in Nat /\ s >= 1 /\ s =< last /\ tab[s] \in Entry /\ tab[s].pid \in Pid
  <1>1. s \in 1..last /\ last \in 0..ProcessesMax /\ tab[s].pid # NoPid
    BY DEF Used, TypeOK
  <1>2. s \in Slot
    BY <1>1, TableAssumption DEF Slot
  <1> QED BY <1>1, <1>2 DEF TypeOK, Entry

\* Steps that leave the table alone.
LEMMA QuietSound ==
  ASSUME TypeOK, Sound, UNCHANGED <<table, sock>>,
         \A p \in Pid : /\ Exists(p) => Exists(p)'
                        /\ Running(p)' => Running(p)
                        /\ Unborn(p)' => Unborn(p)
                        /\ mail[p] \cup sig[p] \subseteq mail'[p] \cup sig'[p],
         \A s \in Used : tab[s].exited /\ pc = "reap" /\ s >= cur => pc' = "reap" /\ s >= cur'
  PROVE  Sound'
  <1>1. Used' = Used /\ tab' = tab
    BY DEF Used, table
  <1>2. \A s \in Used : tab[s].pid \in Pid
    BY UsedFacts
  <1>3. OwnChannel'
    BY <1>1 DEF Sound, OwnChannel
  <1>4. OwnPid'
    BY <1>1, <1>2 DEF Sound, OwnPid
  <1>5. ReapedAtOnce'
    BY <1>1, <1>2 DEF Sound, ReapedAtOnce
  <1>6. ExitingWasTold'
    BY <1>1, <1>2 DEF Sound, ExitingWasTold
  <1> QED BY <1>3, <1>4, <1>5, <1>6 DEF Sound

\* An entry whose pid and channel are new.
LEMMA ForkSound ==
  ASSUME TypeOK, Sound, NEW s \in Slot, NEW e \in Entry, e.exiting = FALSE,
         NEW open \in [Slot -> Pid \cup {NoPid}], Fork(s, e, open),
         \A r \in Used \ {s} : open[tab[r].chan] = sock[tab[r].chan],
         s =< last + 1,
         \A r \in Used \ {s} : tab[r].exited => pc' = "reap" /\ r >= cur'
  PROVE  Sound' /\ Used' = Used \cup {s}
  <1>1. PICK p \in Pid, c \in Slot :
          /\ Unborn(p) /\ open[c] = NoPid
          /\ proc' = [proc EXCEPT ![p] = "run"]
          /\ sock' = [open EXCEPT ![c] = p]
          /\ tab' = [tab EXCEPT ![s] = [e EXCEPT !.pid = p, !.chan = c, !.exited = FALSE]]
          /\ last' = IF s > last THEN s ELSE last
          /\ UNCHANGED <<mail, sig>>
    BY DEF Fork, IsNextPid, IsNextChan
  <1> DEFINE n == [e EXCEPT !.pid = p, !.chan = c, !.exited = FALSE]
  <1>2. n.pid = p /\ n.chan = c /\ n.exited = FALSE /\ n.exiting = FALSE
    BY DEF Entry
  <1> HIDE DEF n
  <1>3. tab'[s] = n /\ \A r \in Slot \ {s} : tab'[r] = tab[r]
    BY <1>1 DEF TypeOK, n
  <1>4. p # NoPid /\ last \in Nat /\ s \in Nat \ {0}
    BY NullFacts DEF TypeOK, Slot
  <1>5. Used' = Used \cup {s}
    <2>1. \A r \in 1..last : r \in Slot
      BY TableAssumption DEF TypeOK, Slot
    <2>2. \A r \in 1..last' : r \in 1..last \/ r = s
      BY <1>1, <1>4
    <2>3. s \in 1..last' /\ 1..last \subseteq 1..last'
      BY <1>1, <1>4
    <2>4. \A r : r \in Used' <=> r \in 1..last' /\ tab'[r].pid # NoPid
      BY DEF Used
    <2>5. \A r : r \in Used <=> r \in 1..last /\ tab[r].pid # NoPid
      BY DEF Used
    <2> QED BY <1>2, <1>3, <1>4, <2>1, <2>2, <2>3, <2>4, <2>5
  <1>6. \A r \in Used \ {s} : /\ r \in Slot /\ tab'[r] = tab[r] /\ tab[r].pid \in Pid
                              /\ tab[r].pid # p /\ tab[r].chan \in Slot
    BY <1>1, <1>3, UsedFacts DEF Sound, OwnPid, OwnChannel
  <1>7. /\ proc'[p] = "run" /\ \A q \in Pid \ {p} : proc'[q] = proc[q]
        /\ sock'[c] = p /\ \A d \in Slot \ {c} : sock'[d] = open[d]
    BY <1>1 DEF TypeOK
  <1>8. \A r \in Used \ {s} : tab[r].chan # c
    BY <1>1, <1>6, NullFacts DEF Sound, OwnChannel
  <1>9. OwnChannel'
    BY <1>2, <1>3, <1>5, <1>6, <1>7, <1>8 DEF Sound, OwnChannel
  <1>10. OwnPid'
    <2>1. \A r \in Used \ {s} : ~Unborn(tab[r].pid)'
      BY <1>6, <1>7 DEF Sound, OwnPid, Unborn
    <2>2. ~Unborn(tab[s].pid)'
      BY <1>2, <1>3, <1>7 DEF Unborn
    <2>3. \A r, t \in Used' : tab'[r].pid = tab'[t].pid => r = t
      BY <1>2, <1>3, <1>5, <1>6 DEF Sound, OwnPid
    <2> QED BY <1>5, <2>1, <2>2, <2>3 DEF OwnPid
  <1>11. ReapedAtOnce'
    <2>1. \A r \in Used \ {s} : ~tab'[r].exited => Exists(tab[r].pid)'
      BY <1>6, <1>7 DEF Sound, ReapedAtOnce, Exists
    <2>2. Exists(tab[s].pid)'
      BY <1>2, <1>3, <1>7 DEF Exists
    <2>3. \A r \in Used \ {s} : tab'[r].exited => pc' = "reap" /\ r >= cur'
      BY <1>6
    <2> QED BY <1>2, <1>3, <1>5, <2>1, <2>2, <2>3 DEF ReapedAtOnce
  <1>12. ExitingWasTold'
    <2>1. \A r \in Used \ {s} : Running(tab[r].pid)' => Running(tab[r].pid)
      BY <1>6, <1>7 DEF Running
    <2> QED BY <1>1, <1>2, <1>3, <1>5, <1>6, <2>1 DEF Sound, ExitingWasTold
  <1> QED BY <1>5, <1>9, <1>10, <1>11, <1>12 DEF Sound

\* A respawn keeps the set of entries in use: the entry gets a new process.
LEMMA RespawnSound ==
  ASSUME IInv, Sound, ReapRespawns  PROVE Sound' /\ Used' = Used
  <1>1. /\ TypeOK /\ pc = "reap" /\ cur =< last /\ tab[cur].pid # NoPid /\ tab[cur].exiting = FALSE
        /\ Fork(cur, tab[cur], ChannelClosed(cur)) /\ pc' = pc /\ cur' = cur + 1
    <2>1. tab[cur].exiting \in BOOLEAN
      BY CurrentEntry DEF IInv, ReapRespawns, Reaping, Entry
    <2> QED BY <2>1 DEF IInv, ReapRespawns, Reaping, Respawning, NextSlot
  <1>2. cur \in Slot /\ tab[cur] \in Entry /\ cur \in Used /\ last \in Nat /\ cur \in Nat
    BY <1>1, CurrentEntry DEF Used, TypeOK
  <1>3. ChannelClosed(cur) \in [Slot -> Pid \cup {NoPid}]
    BY <1>1, <1>2, ClosedTyped
  <1>4. \A r \in Used \ {cur} : ChannelClosed(cur)[tab[r].chan] = sock[tab[r].chan]
    <2>1. \A r \in Used \ {cur} : tab[r].chan \in Slot /\ tab[r].chan # tab[cur].chan
      BY <1>2 DEF Sound, OwnChannel, OwnPid
    <2> QED BY <2>1 DEF ChannelClosed
  <1>5. \A r \in Used \ {cur} : tab[r].exited => pc' = "reap" /\ r >= cur'
    <2>1. \A r \in Used : r \in Nat
      BY <1>1, UsedFacts
    <2> QED BY <1>1, <1>2, <2>1 DEF Sound, ReapedAtOnce
  <1>6. Sound' /\ Used' = Used \cup {cur}
    <2>1. cur =< last + 1 /\ tab[cur].exiting = FALSE
      BY <1>1, <1>2
    <2> QED BY <1>1, <1>2, <1>3, <1>4, <1>5, <2>1, ForkSound
  <1> QED BY <1>2, <1>6

\* A worker is started: its entry is as new as its process.
LEMMA StartSound ==
  ASSUME IInv, Sound, StartWorker, \A s, h, open : ~SpawnFails(s, h, open)
  PROVE  /\ Sound'
         /\ \E s \in Slot \ Used :
              /\ Used' = Used \cup {s} /\ \A r \in Used : tab'[r] = tab[r]
              /\ tab'[s].role = Roles[cur] /\ tab'[s].just_spawn = (job = "reload")
  <1> DEFINE e == [Unused EXCEPT !.role = Roles[cur], !.just_spawn = (job = "reload")]
  <1>1. PICK s \in Slot : IsFreeSlot(s) /\ Fork(s, e, sock)
    BY DEF StartWorker
  <1>2. TypeOK /\ pc = "start" /\ cur \in 1..Len(Roles) /\ sock \in [Slot -> Pid \cup {NoPid}]
    BY RolesAssumption DEF StartWorker, IInv, TypeOK
  <1>3. e \in Entry /\ e.exiting = FALSE
    <2>1. e \in Entry
      BY <1>2, NewEntry
    <2>2. e.exiting = FALSE
      BY DEF Unused
    <2> QED BY <2>1, <2>2
  <1>r. e.role = Roles[cur] /\ e.just_spawn = (job = "reload")
    BY DEF Unused
  <1> HIDE DEF e
  <1>4. s =< last + 1 /\ s \notin Used
    BY <1>1, <1>2 DEF IsFreeSlot, Used, TypeOK, Slot
  <1>5. \A r \in Used \ {s} : tab[r].exited => pc' = "reap" /\ r >= cur'
    BY <1>2 DEF Sound, ReapedAtOnce
  <1>6. Sound' /\ Used' = Used \cup {s}
    BY <1>1, <1>2, <1>3, <1>4, <1>5, ForkSound
  <1>7. PICK p \in Pid, c \in Slot :
          tab' = [tab EXCEPT ![s] = [e EXCEPT !.pid = p, !.chan = c, !.exited = FALSE]]
    BY <1>1 DEF Fork
  <1>8. tab'[s] = [e EXCEPT !.pid = p, !.chan = c, !.exited = FALSE]
        /\ \A r \in Slot \ {s} : tab'[r] = tab[r]
    BY <1>2, <1>7 DEF TypeOK
  <1>9. tab'[s].role = Roles[cur] /\ tab'[s].just_spawn = (job = "reload")
    BY <1>3, <1>r, <1>8 DEF Entry
  <1>10. \A r \in Used : r \in Slot
    BY <1>2, UsedFacts
  <1> QED BY <1>4, <1>6, <1>8, <1>9, <1>10

\* A freed entry leaves the table, and the end of the table may shrink over it.
LEMMA FreesSound ==
  ASSUME IInv, Sound, ReapFrees
  PROVE  Sound' /\ Used' = Used \ {cur} /\ \A r \in Used' : tab'[r] = tab[r]
  <1>1. /\ TypeOK /\ pc = "reap" /\ cur =< last /\ cur \in Slot /\ last \in Nat /\ cur \in Nat
        /\ tab[cur].pid # NoPid /\ pc' = pc /\ cur' = cur + 1
        /\ sock' = ChannelClosed(cur) /\ UNCHANGED <<mail, sig, proc>>
    BY CurrentEntry DEF IInv, ReapFrees, Reaping, NextSlot, TypeOK, Slot
  <1>2. cur \in Used
    BY <1>1 DEF Used, Slot
  <1>3. /\ \A r \in Slot \ {cur} : tab'[r] = tab[r]
        /\ \/ cur = last /\ last' = last - 1
           \/ last' = last /\ tab'[cur].pid = NoPid
    BY <1>1 DEF ReapFrees, TypeOK, Entry
  <1>4. \A r : r \in 1..last => r \in Slot
    BY <1>1, TableAssumption DEF TypeOK, Slot
  <1>5. Used' = Used \ {cur}
    <2>1. \A r : r \in Used' <=> r \in 1..last' /\ tab'[r].pid # NoPid
      BY DEF Used
    <2>2. \A r : r \in Used <=> r \in 1..last /\ tab[r].pid # NoPid
      BY DEF Used
    <2>3. CASE cur = last /\ last' = last - 1
      <3>1. \A r : r \in 1..last' <=> r \in 1..last /\ r # cur
        BY <1>1, <2>3
      <3> QED BY <1>3, <1>4, <2>1, <2>2, <3>1
    <2>4. CASE last' = last /\ tab'[cur].pid = NoPid
      BY <1>3, <1>4, <2>1, <2>2, <2>4
    <2> QED BY <1>3, <2>3, <2>4
  <1>6. \A r \in Used' : /\ r \in Used /\ r # cur /\ tab'[r] = tab[r] /\ r \in Nat
                         /\ tab[r].chan \in Slot /\ tab[r].chan # tab[cur].chan
    <2>1. \A r \in Used' : r \in Used /\ r # cur /\ r \in Slot /\ r \in Nat
      BY <1>1, <1>5, UsedFacts
    <2> QED BY <1>2, <1>3, <2>1 DEF Sound, OwnChannel, OwnPid
  <1>7. OwnChannel'
    BY <1>1, <1>6 DEF Sound, OwnChannel, ChannelClosed
  <1>8. OwnPid'
    BY <1>1, <1>6 DEF Sound, OwnPid, Unborn
  <1>9. ReapedAtOnce'
    BY <1>1, <1>6 DEF Sound, ReapedAtOnce, Exists
  <1>10. ExitingWasTold'
    BY <1>1, <1>6 DEF Sound, ExitingWasTold, Running
  <1> QED BY <1>5, <1>6, <1>7, <1>8, <1>9, <1>10 DEF Sound

\* A step of the loop that signals, which marks an entry.
LEMMA MarkSound ==
  ASSUME TypeOK, Sound, pc = "signal", cur \in Used, tab' \in [Slot -> Entry],
         UNCHANGED <<last, sock>>,
         \A r \in Slot \ {cur} : tab'[r] = tab[r],
         tab'[cur].pid = tab[cur].pid, tab'[cur].chan = tab[cur].chan,
         tab'[cur].exited = tab[cur].exited,
         \A p \in Pid : /\ Exists(p) => Exists(p)'
                        /\ Running(p)' => Running(p)
                        /\ Unborn(p)' => Unborn(p)
                        /\ mail[p] \cup sig[p] \subseteq mail'[p] \cup sig'[p],
         \A p \in Pid : p = tab[cur].pid /\ tab'[cur].exiting /\ ~tab[cur].exiting /\ Running(p)' =>
           (mail'[p] \cup sig'[p]) \cap {"QUIT", "TERM"} # {}
  PROVE  Sound' /\ Used' = Used
  <1>1. \A r \in Used : r \in Slot /\ tab[r].pid \in Pid
    BY UsedFacts
  <1>2. \A r \in 1..last : r \in Slot
    BY TableAssumption DEF TypeOK, Slot
  <1>3. \A r \in Slot : /\ tab'[r].pid = tab[r].pid /\ tab'[r].chan = tab[r].chan
                        /\ tab'[r].exited = tab[r].exited
    OBVIOUS
  <1>4. Used' = Used
    BY <1>2, <1>3 DEF Used
  <1>5. OwnChannel'
    BY <1>1, <1>3, <1>4 DEF Sound, OwnChannel
  <1>6. OwnPid'
    BY <1>1, <1>3, <1>4 DEF Sound, OwnPid
  <1>7. ReapedAtOnce'
    BY <1>1, <1>3, <1>4 DEF Sound, ReapedAtOnce
  <1>8. ExitingWasTold'
    <2> SUFFICES ASSUME NEW r \in Used, NEW p, p = tab[r].pid, tab'[r].exiting, Running(p)'
                 PROVE  (mail'[p] \cup sig'[p]) \cap {"QUIT", "TERM"} # {}
      BY <1>1, <1>3, <1>4 DEF ExitingWasTold
    <2>1. p \in Pid /\ Running(p)
      BY <1>1
    <2>2. CASE tab[r].exiting
      BY <2>1, <2>2 DEF Sound, ExitingWasTold
    <2>3. CASE ~tab[r].exiting
      <3>1. r = cur
        BY <1>1, <2>3
      <3> QED BY <2>1, <2>3, <3>1
    <2> QED BY <2>2, <2>3
  <1> QED BY <1>4, <1>5, <1>6, <1>7, <1>8 DEF Sound

\* What a step that signals starts from: its entry is in use and its process
\* exists.
LEMMA SignalledEntry ==
  ASSUME TypeOK, Sound, pc = "signal", cur =< last, tab[cur].pid # NoPid
  PROVE  /\ cur \in Used /\ cur \in Slot /\ tab[cur] \in Entry /\ tab[cur].pid \in Pid
         /\ Exists(tab[cur].pid) /\ sock[tab[cur].chan] = tab[cur].pid /\ tab[cur].chan \in Slot
  <1>1. cur \in Used
    BY CurrentEntry DEF Used
  <1> QED BY <1>1, CurrentEntry, UsedFacts DEF Sound, ReapedAtOnce, OwnChannel, Entry

\* A new worker is passed by: only its mark goes.
LEMMA SparesSound ==
  ASSUME IInv, Sound, SignalSparesNew
  PROVE  Sound' /\ Used' = Used
  <1>1. TypeOK /\ pc = "signal" /\ cur =< last /\ tab[cur].pid # NoPid
        /\ tab' = [tab EXCEPT ![cur].just_spawn = FALSE] /\ UNCHANGED <<last, sock, mail, sig, proc>>
    BY DEF IInv, SignalSparesNew, kernel
  <1>2. cur \in Used /\ cur \in Slot /\ tab[cur] \in Entry
    BY <1>1, SignalledEntry
  <1>3. [tab[cur] EXCEPT !.just_spawn = FALSE] \in Entry
    BY <1>2, EntryFacts
  <1>4. tab' \in [Slot -> Entry] /\ \A r \in Slot \ {cur} : tab'[r] = tab[r]
    BY <1>1, <1>2, <1>3 DEF TypeOK
  <1>5. /\ tab'[cur].pid = tab[cur].pid /\ tab'[cur].chan = tab[cur].chan
        /\ tab'[cur].exited = tab[cur].exited /\ tab'[cur].exiting = tab[cur].exiting
    BY <1>1, <1>2 DEF TypeOK, Entry
  <1>6. \A p \in Pid : /\ Exists(p) => Exists(p)'
                       /\ Running(p)' => Running(p)
                       /\ Unborn(p)' => Unborn(p)
    BY <1>1 DEF Exists, Running, Unborn
  <1> QED BY <1>1, <1>2, <1>4, <1>5, <1>6, MarkSound

\* Written or sent, the command reaches the process of the entry.
LEMMA TellsSound ==
  ASSUME IInv, Sound, SignalWrites \/ SignalKills
  PROVE  Sound' /\ Used' = Used
  <1>1. TypeOK /\ pc = "signal" /\ cur =< last /\ tab[cur].pid # NoPid
        /\ job \in Commands \cup {"KILL"}
        /\ tab' = [tab EXCEPT ![cur].exiting = @ \/ job # "USR1"] /\ UNCHANGED <<last, sock>>
    BY DEF IInv, LoopOK, SignalWrites, SignalKills, Signalling
  <1>2. /\ cur \in Used /\ cur \in Slot /\ tab[cur] \in Entry /\ tab[cur].pid \in Pid
        /\ sock[tab[cur].chan] = tab[cur].pid
    BY <1>1, SignalledEntry
  <1>x. tab[cur].exiting \in BOOLEAN
    BY <1>2 DEF Entry
  <1>3. [tab[cur] EXCEPT !.exiting = tab[cur].exiting \/ job # "USR1"] \in Entry
    BY <1>2, <1>x, EntryFacts
  <1>4. tab' \in [Slot -> Entry] /\ \A r \in Slot \ {cur} : tab'[r] = tab[r]
    BY <1>1, <1>2, <1>3 DEF TypeOK
  <1>5. /\ tab'[cur].pid = tab[cur].pid /\ tab'[cur].chan = tab[cur].chan
        /\ tab'[cur].exited = tab[cur].exited
        /\ tab'[cur].exiting = (tab[cur].exiting \/ job # "USR1")
    BY <1>1, <1>2 DEF TypeOK, Entry
  <1>6. CASE SignalWrites
    <2>1. /\ mail' = [mail EXCEPT ![tab[cur].pid] = @ \cup {job}]
          /\ UNCHANGED <<sig, proc>> /\ job \in Commands
      BY <1>2, <1>6 DEF SignalWrites
    <2>2. job \in mail'[tab[cur].pid] /\ \A p \in Pid : mail[p] \subseteq mail'[p]
      BY <1>1, <1>2, <2>1 DEF TypeOK
    <2>3. \A p \in Pid : /\ Exists(p) => Exists(p)'
                         /\ Running(p)' => Running(p)
                         /\ Unborn(p)' => Unborn(p)
                         /\ mail[p] \cup sig[p] \subseteq mail'[p] \cup sig'[p]
      BY <2>1, <2>2 DEF Exists, Running, Unborn
    <2>4. \A p : p = tab[cur].pid /\ tab'[cur].exiting /\ ~tab[cur].exiting =>
            (mail'[p] \cup sig'[p]) \cap {"QUIT", "TERM"} # {}
      BY <1>5, <2>1, <2>2 DEF Commands
    <2> QED BY <1>1, <1>2, <1>4, <1>5, <2>3, <2>4, MarkSound
  <1>7. CASE SignalKills /\ job # "KILL"
    <2>1. /\ sig' = [sig EXCEPT ![tab[cur].pid] = @ \cup {job}]
          /\ UNCHANGED <<mail, proc>> /\ job \in Commands
      BY <1>1, <1>7 DEF SignalKills
    <2>2. job \in sig'[tab[cur].pid] /\ \A p \in Pid : sig[p] \subseteq sig'[p]
      BY <1>1, <1>2, <2>1 DEF TypeOK
    <2>3. \A p \in Pid : /\ Exists(p) => Exists(p)'
                         /\ Running(p)' => Running(p)
                         /\ Unborn(p)' => Unborn(p)
                         /\ mail[p] \cup sig[p] \subseteq mail'[p] \cup sig'[p]
      BY <2>1, <2>2 DEF Exists, Running, Unborn
    <2>4. \A p : p = tab[cur].pid /\ tab'[cur].exiting /\ ~tab[cur].exiting =>
            (mail'[p] \cup sig'[p]) \cap {"QUIT", "TERM"} # {}
      BY <1>5, <2>1, <2>2 DEF Commands
    <2> QED BY <1>1, <1>2, <1>4, <1>5, <2>3, <2>4, MarkSound
  <1>8. CASE SignalKills /\ job = "KILL"
    <2>1. proc' = [proc EXCEPT ![tab[cur].pid] = "zombie"] /\ UNCHANGED <<mail, sig>>
      BY <1>8 DEF SignalKills
    <2>2. proc'[tab[cur].pid] = "zombie" /\ \A p \in Pid \ {tab[cur].pid} : proc'[p] = proc[p]
      BY <1>1, <1>2, <2>1 DEF TypeOK
    <2>3. \A p \in Pid : /\ Exists(p) => Exists(p)'
                         /\ Running(p)' => Running(p)
                         /\ Unborn(p)' => Unborn(p)
                         /\ mail[p] \cup sig[p] \subseteq mail'[p] \cup sig'[p]
      BY <2>1, <2>2 DEF Exists, Running, Unborn
    <2>4. \A p : p = tab[cur].pid => ~Running(p)'
      BY <2>2 DEF Running
    <2> QED BY <1>1, <1>2, <1>4, <1>5, <2>3, <2>4, MarkSound
  <1> QED BY <1>6, <1>7, <1>8

\* waitpid: every entry whose process is gone is marked, and reaping begins.
LEMMA GetStatusSound ==
  ASSUME IInv, Sound, SigSuspend, GetStatus, pc' = "reap", cur' = 1
  PROVE  Sound' /\ Used' = Used
         /\ \A r \in Used : /\ tab'[r].role = tab[r].role /\ tab'[r].exiting = tab[r].exiting
                            /\ tab'[r].just_spawn = tab[r].just_spawn
  <1>1. TypeOK /\ pc = "suspend" /\ UNCHANGED <<last, sock, mail, sig>>
    BY DEF IInv, SigSuspend
  <1>2. \A r \in 1..last : r \in Slot
    BY <1>1, TableAssumption DEF TypeOK, Slot
  <1>3. \A r \in Slot : /\ tab'[r].pid = tab[r].pid /\ tab'[r].chan = tab[r].chan
                        /\ tab'[r].exiting = tab[r].exiting
                        /\ tab'[r].just_spawn = tab[r].just_spawn /\ tab'[r].role = tab[r].role
                        /\ tab'[r].exited = (tab[r].exited \/ (r \in Used /\ proc[tab[r].pid] = "zombie"))
    <2> SUFFICES ASSUME NEW r \in Slot
                 PROVE  /\ tab'[r].pid = tab[r].pid /\ tab'[r].chan = tab[r].chan
                        /\ tab'[r].exiting = tab[r].exiting
                        /\ tab'[r].just_spawn = tab[r].just_spawn /\ tab'[r].role = tab[r].role
                        /\ tab'[r].exited = (tab[r].exited \/ (r \in Used /\ proc[tab[r].pid] = "zombie"))
      OBVIOUS
    <2>1. tab[r] \in Entry /\ tab[r].exited \in BOOLEAN
      BY <1>1 DEF TypeOK, Entry
    <2>2. tab'[r] = IF r \in Used /\ proc[tab[r].pid] = "zombie"
                    THEN [tab[r] EXCEPT !.exited = TRUE] ELSE tab[r]
      BY DEF GetStatus
    <2>3. CASE r \in Used /\ proc[tab[r].pid] = "zombie"
      BY <2>1, <2>2, <2>3 DEF Entry
    <2>4. CASE ~(r \in Used /\ proc[tab[r].pid] = "zombie")
      BY <2>1, <2>2, <2>4
    <2> QED BY <2>3, <2>4
  <1>4. Used' = Used
    BY <1>1, <1>2, <1>3 DEF Used
  <1>5. \A r \in Used : r \in Slot /\ r \in Nat /\ r >= 1 /\ tab[r].pid \in Pid
    BY <1>1, UsedFacts
  <1>6. \A p \in Pid : proc'[p] = IF proc[p] = "zombie" THEN "gone" ELSE proc[p]
    BY DEF GetStatus
  <1>7. OwnChannel'
    BY <1>1, <1>3, <1>4, <1>5 DEF Sound, OwnChannel
  <1>8. OwnPid'
    BY <1>3, <1>4, <1>5, <1>6 DEF Sound, OwnPid, Unborn
  <1>9. ReapedAtOnce'
    <2>1. \A r \in Used : ~tab'[r].exited => Exists(tab[r].pid) /\ proc[tab[r].pid] # "zombie"
      BY <1>3, <1>5 DEF Sound, ReapedAtOnce
    <2>2. \A r \in Used : \A p : p = tab[r].pid /\ ~tab'[r].exited => Exists(p)'
      BY <1>5, <1>6, <2>1 DEF Exists
    <2> QED BY <1>3, <1>4, <1>5, <2>2 DEF ReapedAtOnce
  <1>10. ExitingWasTold'
    BY <1>1, <1>3, <1>4, <1>5, <1>6 DEF Sound, ExitingWasTold, Running
  <1> QED BY <1>3, <1>4, <1>5, <1>7, <1>8, <1>9, <1>10 DEF Sound

\* Steps that look at one entry of a loop, or at none, and change none.
LEMMA SkipsSound ==
  ASSUME IInv, Sound, UNCHANGED <<table, kernel>>, pc # "reap" \/ ReapSkips \/ ReapDone
  PROVE  Sound'
  <1>1. TypeOK /\ last \in Nat /\ UNCHANGED <<table, sock, mail, sig, proc>>
    BY DEF IInv, TypeOK, kernel
  <1>2. \A p \in Pid : /\ Exists(p) => Exists(p)'
                       /\ Running(p)' => Running(p)
                       /\ Unborn(p)' => Unborn(p)
    BY <1>1 DEF Exists, Running, Unborn
  <1>3. \A s \in Used : s \in Nat /\ s =< last /\ tab[s].pid # NoPid
    BY <1>1, UsedFacts DEF Used
  <1>4. \A s \in Used : tab[s].exited /\ pc = "reap" /\ s >= cur => pc' = "reap" /\ s >= cur'
    <2>1. CASE pc # "reap"
      BY <2>1
    <2>2. CASE ReapSkips
      BY <1>1, <1>3, <2>2 DEF ReapSkips, NextSlot, TypeOK
    <2>3. CASE ReapDone
      BY <1>1, <1>3, <2>3 DEF ReapDone, TypeOK
    <2> QED BY <2>1, <2>2, <2>3
  <1> QED BY <1>1, <1>2, <1>4, QuietSound

\* What happens around the master.
LEMMA AroundSound ==
  ASSUME IInv, Sound, TimerFires \/ OperatorSignals \/ Worker
  PROVE  Sound'
  <1>1. TypeOK /\ UNCHANGED <<control, table, sock, mail, sig>>
    BY DEF IInv, TimerFires, OperatorSignals, Worker, WorkerDies, WorkerLeaves, kernel, binary
  <1>2. \A p \in Pid : /\ Exists(p) => Exists(p)'
                       /\ Running(p)' => Running(p)
                       /\ Unborn(p)' => Unborn(p)
    <2>1. CASE UNCHANGED proc
      BY <2>1 DEF Exists, Running, Unborn
    <2>2. CASE Worker
      <3>1. PICK q \in Pid : /\ Running(q)
                             /\ \/ proc' = [proc EXCEPT ![q] = "zombie"]
                                \/ proc' = [proc EXCEPT ![q] = "joining"]
        BY <2>2 DEF Worker, WorkerDies, WorkerLeaves, Running
      <3>2. /\ \A p \in Pid \ {q} : proc'[p] = proc[p]
            /\ proc'[q] \in {"zombie", "joining"} /\ proc[q] \in {"run", "joining"}
        BY <1>1, <3>1 DEF TypeOK, Running
      <3> QED BY <3>2 DEF Exists, Running, Unborn
    <2> QED BY <2>1, <2>2 DEF TimerFires, OperatorSignals, kernel
  <1> QED BY <1>1, <1>2, QuietSound DEF control

\* Every step keeps Sound, as long as no spawn fails.
LEMMA SoundKept ==
  ASSUME IInv, Sound, [Next]_vars, \A s, h, open : ~SpawnFails(s, h, open)
  PROVE  Sound'
  <1>1. CASE SigSuspend
    <2>1. CASE "CHLD" \in pending
      <3>1. "reap" \in Raises("CHLD")
        BY DEF Raises
      <3>2. GetStatus /\ pc' = "reap" /\ cur' = 1
        BY <1>1, <2>1, <3>1 DEF SigSuspend, Loop
      <3> QED BY <1>1, <3>2, GetStatusSound
    <2>2. CASE "CHLD" \notin pending
      <3>1. UNCHANGED <<table, kernel>> /\ pc # "reap"
        BY <1>1, <2>2 DEF SigSuspend, table, kernel
      <3> QED BY <3>1, SkipsSound
    <2> QED BY <2>1, <2>2
  <1>2. CASE ReapSkips \/ ReapDone
    BY <1>2, SkipsSound DEF ReapSkips, ReapDone
  <1>3. CASE ReapRespawns
    BY <1>3, RespawnSound
  <1>4. CASE ReapFailsToRespawn
    BY <1>4 DEF ReapFailsToRespawn
  <1>5. CASE ReapFrees
    BY <1>5, FreesSound
  <1>6. CASE Arm \/ SignalSkips \/ SignalDone \/ StartFindsTableFull \/ StartDone
    <2>1. UNCHANGED <<table, kernel>> /\ pc # "reap"
      BY <1>6 DEF Arm, SignalSkips, SignalDone, StartFindsTableFull, StartDone
    <2> QED BY <2>1, SkipsSound
  <1>7. CASE SignalSparesNew
    BY <1>7, SparesSound
  <1>8. CASE SignalWrites \/ SignalKills
    BY <1>8, TellsSound
  <1>9. CASE SignalFindsNoProcess
    BY <1>9, SignalledEntry DEF SignalFindsNoProcess, Signalling, IInv
  <1>10. CASE StartWorker
    BY <1>10, StartSound
  <1>11. CASE Body
    <2>1. UNCHANGED <<table, kernel>> /\ pc # "reap"
      BY <1>11 DEF Body, MasterExits, MasterGoesOn, Terminate, Quit, Reconfigure, Reopen,
        ChangeBinary, NoAccept, NotAsked, Successor
    <2> QED BY <2>1, SkipsSound
  <1>12. CASE TimerFires \/ OperatorSignals \/ Worker
    BY <1>12, AroundSound
  <1>13. CASE UNCHANGED vars
    BY <1>13, QuietSound DEF vars, control, kernel, Exists, Running, Unborn, IInv
  <1> QED
    BY <1>1, <1>2, <1>3, <1>4, <1>5, <1>6, <1>7, <1>8, <1>9, <1>10, <1>11, <1>12, <1>13
    DEF Next, Master, Reap, Signal, Start

\* At the start the table is empty.
LEMMA InitSound == Init => Sound /\ Used = {}
  <1> SUFFICES ASSUME Init  PROVE Sound /\ Used = {}
    OBVIOUS
  <1>1. Used = {}
    BY DEF Init, Used
  <1> QED BY <1>1 DEF Sound, OwnChannel, OwnPid, ReapedAtOnce, ExitingWasTold

-----------------------------------------------------------------------------
(* Reloads and respawns never double a role.                               *)

Pairwise(S) ==
  \A s, t \in S :
    tab[s].role = tab[t].role /\ ~tab[s].exiting /\ ~tab[t].exiting => s = t

Fresh     == {s \in Used : tab[s].just_spawn}
Starting  == pc = "start" /\ job = "reload"
Telling   == pc = "signal" /\ after = "reopen"
Reloading == Starting \/ Telling

\* The entry is of a role that this loop has come by.
Started(s) == \E k \in 1..Len(Roles) : k < cur /\ tab[s].role = Roles[k]

\* Only during a reload is anybody spared, and once.
Sparing ==
  /\ ~Reloading => \A s \in Used : ~tab[s].just_spawn
  /\ Starting => after = "reopen"
  /\ Telling => job = "QUIT" /\ \A s \in Used : tab[s].just_spawn => s >= cur

\* While a reload starts workers there is one of each role among the new ones
\* and one among the old; while it tells the old to leave, one among those it
\* has come by and the new ones.
OneEach ==
  newBinary = 0 =>
    /\ ~Reloading => Pairwise(Used)
    /\ pc = "start" /\ job = "first" => \A s \in Used : Started(s)
    /\ Starting => Pairwise(Fresh) /\ Pairwise(Used \ Fresh) /\ \A s \in Fresh : Started(s)
    /\ Telling => Pairwise({s \in Used : tab[s].just_spawn \/ s < cur})

RolesOK == Sparing /\ OneEach

\* Steps away from a reload, after which a worker that was told to leave still is.
LEMMA AwayKept ==
  ASSUME TypeOK, RolesOK, ~Reloading, ~Reloading', pc' # "start" \/ newBinary' # 0,
         newBinary' = 0 => newBinary = 0, Used' \subseteq Used,
         \A s \in Used' : /\ tab'[s].role = tab[s].role /\ tab'[s].just_spawn = tab[s].just_spawn
                          /\ tab[s].exiting => tab'[s].exiting
  PROVE  RolesOK'
  <1>1. Sparing'
    BY DEF RolesOK, Sparing, Reloading
  <1>2. ASSUME newBinary' = 0  PROVE Pairwise(Used)'
    <2>1. Pairwise(Used)
      BY <1>2 DEF RolesOK, OneEach
    <2> QED BY <2>1 DEF Pairwise
  <1>3. OneEach'
    BY <1>2 DEF OneEach, Reloading
  <1> QED BY <1>1, <1>3 DEF RolesOK

\* Steps that leave the loop and the table alone.
LEMMA StillKept ==
  ASSUME RolesOK, UNCHANGED <<control, table, newBinary>>
  PROVE  RolesOK'
  <1>1. /\ pc' = pc /\ cur' = cur /\ job' = job /\ after' = after /\ tab' = tab /\ Used' = Used
        /\ newBinary' = newBinary
    BY DEF control, table, Used
  <1>2. Fresh' = Fresh /\ Reloading' = Reloading /\ Telling' = Telling /\ Starting' = Starting
    BY <1>1 DEF Fresh, Reloading, Telling, Starting
  <1>3. Sparing'
    BY <1>1, <1>2 DEF RolesOK, Sparing
  <1>4. OneEach'
    BY <1>1, <1>2 DEF RolesOK, OneEach, Pairwise, Started
  <1> QED BY <1>3, <1>4 DEF RolesOK

\* A step of the loop that starts workers: the entry it may add is of a role
\* that none of those it began with is of.
LEMMA StartKept ==
  ASSUME IInv, RolesOK, Sound, StartWorker, \A s, h, open : ~SpawnFails(s, h, open)
  PROVE  RolesOK'
  <1>1. /\ pc = "start" /\ pc' = "start" /\ cur \in 1..Len(Roles) /\ cur' = cur + 1 /\ cur \in Nat
        /\ job' = job /\ after' = after /\ newBinary' = newBinary /\ job \in {"first", "rebinary", "reload"}
        /\ job = "rebinary" => newBinary # 0
    BY RolesAssumption DEF StartWorker, NextSlot, binary, IInv, TypeOK, LoopOK, LiveOK
  <1>2. PICK s \in Slot \ Used :
          /\ Used' = Used \cup {s} /\ \A r \in Used : tab'[r] = tab[r]
          /\ tab'[s].role = Roles[cur] /\ tab'[s].just_spawn = (job = "reload")
    BY StartSound
  <1>3. \A r \in Used : Started(r) => tab'[r].role # Roles[cur]
    BY <1>1, <1>2, RolesAssumption DEF Started
  <1>4. \A r \in Used : Started(r) => Started(r)'
    BY <1>1, <1>2 DEF Started
  <1>5. Started(s)'
    BY <1>1, <1>2 DEF Started
  <1>6. CASE job = "reload"
    <2>1. Starting /\ Starting' /\ ~Telling' /\ Fresh' = Fresh \cup {s} /\ (Used \ Fresh)' = Used \ Fresh
      BY <1>1, <1>2, <1>6 DEF Starting, Telling, Fresh
    <2>2. Sparing'
      BY <1>1, <2>1 DEF RolesOK, Sparing, Reloading
    <2>3. ASSUME newBinary = 0
          PROVE  Pairwise(Fresh)' /\ Pairwise(Used \ Fresh)' /\ \A r \in Fresh' : Started(r)'
      <3>1. Pairwise(Fresh) /\ Pairwise(Used \ Fresh) /\ \A r \in Fresh : Started(r)
        BY <2>1, <2>3 DEF RolesOK, OneEach
      <3>2. Fresh \subseteq Used
        BY DEF Fresh
      <3>3. \A r \in Fresh' : Started(r)'
        BY <1>4, <1>5, <2>1, <3>1, <3>2
      <3>4. Pairwise(Fresh)'
        BY <1>2, <1>3, <2>1, <3>1, <3>2 DEF Pairwise
      <3>5. Pairwise(Used \ Fresh)'
        BY <1>2, <2>1, <3>1 DEF Pairwise
      <3> QED BY <3>3, <3>4, <3>5
    <2>4. OneEach'
      BY <1>1, <1>6, <2>1, <2>3 DEF OneEach, Reloading
    <2> QED BY <2>2, <2>4 DEF RolesOK
  <1>7. CASE job # "reload"
    <2>1. ~Reloading /\ ~Reloading' /\ ~Telling' /\ ~Starting'
      BY <1>1, <1>7 DEF Reloading, Starting, Telling
    <2>2. Sparing'
      BY <1>2, <1>7, <2>1 DEF RolesOK, Sparing
    <2>3. ASSUME newBinary = 0  PROVE Pairwise(Used)' /\ \A r \in Used' : Started(r)'
      <3>1. job = "first"
        BY <1>1, <1>7, <2>3
      <3>2. Pairwise(Used) /\ \A r \in Used : Started(r)
        BY <1>1, <2>1, <2>3, <3>1 DEF RolesOK, OneEach
      <3>3. \A r \in Used' : Started(r)'
        BY <1>2, <1>4, <1>5, <3>2
      <3>4. Pairwise(Used)'
        BY <1>2, <1>3, <3>2 DEF Pairwise
      <3> QED BY <3>3, <3>4
    <2>4. OneEach'
      BY <1>1, <2>1, <2>3 DEF OneEach
    <2> QED BY <2>2, <2>4 DEF RolesOK
  <1> QED BY <1>6, <1>7

\* A start that finds the table full leaves it as it is.
LEMMA StartFullKept ==
  ASSUME IInv, RolesOK, StartFindsTableFull
  PROVE  RolesOK'
  <1>1. /\ pc = "start" /\ pc' = pc /\ cur' = cur + 1 /\ cur \in Nat /\ job' = job /\ after' = after
        /\ newBinary' = newBinary /\ tab' = tab /\ Used' = Used
    BY DEF StartFindsTableFull, NextSlot, binary, table, IInv, TypeOK, Used
  <1>2. \A s \in Used : Started(s) => Started(s)'
    BY <1>1 DEF Started
  <1>3. Fresh' = Fresh /\ Reloading' = Reloading /\ ~Telling' /\ Starting' = Starting /\ Fresh \subseteq Used
    BY <1>1 DEF Fresh, Reloading, Telling, Starting
  <1>4. Sparing'
    BY <1>1, <1>3 DEF RolesOK, Sparing
  <1>5. OneEach'
    BY <1>1, <1>2, <1>3 DEF RolesOK, OneEach, Pairwise
  <1> QED BY <1>4, <1>5 DEF RolesOK

\* The last of the starts: a reload goes on to tell the old workers.
LEMMA StartDoneKept ==
  ASSUME IInv, RolesOK, StartDone
  PROVE  RolesOK'
  <1>1. /\ pc = "start" /\ newBinary' = newBinary /\ tab' = tab /\ Used' = Used
        /\ \/ job # "reload" /\ pc' = "arm"
           \/ job = "reload" /\ pc' = "signal" /\ job' = "QUIT" /\ cur' = 1 /\ after' = after
    BY DEF StartDone, Goto, Loop, binary, table, Used
  <1>2. CASE job # "reload"
    BY <1>1, <1>2, AwayKept DEF Reloading, Starting, Telling, IInv
  <1>3. CASE job = "reload"
    <2>0. after' = "reopen"
      BY <1>1, <1>3 DEF RolesOK, Sparing, Starting
    <2>1. Starting /\ Telling' /\ ~Starting' /\ Fresh' = Fresh
      BY <1>1, <1>3, <2>0 DEF Starting, Telling, Fresh
    <2>2. \A s \in Used : s >= cur' /\ ~(s < cur') /\ s \in Nat
      BY <1>1, <1>3, UsedFacts DEF IInv
    <2>3. Sparing'
      BY <1>1, <1>3, <2>1, <2>2 DEF Sparing, Reloading
    <2>4. {s \in Used : tab[s].just_spawn \/ s < cur}' = Fresh
      BY <1>1, <2>2 DEF Fresh
    <2>5. OneEach'
      BY <1>1, <2>1, <2>4 DEF RolesOK, OneEach, Reloading, Pairwise
    <2> QED BY <2>3, <2>5 DEF RolesOK
  <1> QED BY <1>1, <1>2, <1>3

\* Reconfigure begins the loop that starts workers, for a reload when there is
\* no new binary.
LEMMA ReconfigureKept ==
  ASSUME IInv, RolesOK, Reconfigure
  PROVE  RolesOK'
  <1>1. /\ pc = "reconfigure" /\ newBinary' = newBinary /\ tab' = tab /\ Used' = Used
        /\ \/ newBinary # 0 /\ pc' = "start" /\ job' = "rebinary"
           \/ pc' = "start" /\ job' = "reload" /\ after' = "reopen"
           \/ pc' = "arm"
    BY DEF Reconfigure, Goto, Loop, binary, table, Used
  <1>2. ~Reloading
    BY <1>1 DEF Reloading, Starting, Telling
  <1>3. CASE job' # "reload" \/ pc' = "arm"
    <2>1. ~Reloading'
      BY <1>1, <1>3 DEF Reloading, Starting, Telling
    <2> QED BY <1>1, <1>2, <1>3, <2>1, AwayKept DEF IInv
  <1>4. CASE pc' = "start" /\ job' = "reload" /\ after' = "reopen"
    <2>1. Starting' /\ ~Telling'
      BY <1>4 DEF Starting, Telling
    <2>2. \A s \in Used : ~tab[s].just_spawn
      BY <1>2 DEF RolesOK, Sparing
    <2>3. Fresh' = {} /\ (Used \ Fresh)' = Used
      BY <1>1, <2>2 DEF Fresh
    <2>4. Sparing'
      BY <1>4, <2>1 DEF Sparing, Reloading
    <2>5. newBinary = 0 => Pairwise(Used)
      BY <1>2 DEF RolesOK, OneEach
    <2>6. OneEach'
      BY <1>1, <1>4, <2>1, <2>3, <2>5 DEF OneEach, Reloading, Pairwise
    <2> QED BY <2>4, <2>6 DEF RolesOK
  <1> QED BY <1>1, <1>3, <1>4

\* A step of the loop that tells the old workers to leave: the entry it passes
\* is of a new worker, or not in use, or now of one that leaves.
LEMMA TellingKept ==
  ASSUME TypeOK, RolesOK, Telling, cur =< last, Used' = Used, NextSlot, newBinary' = newBinary,
         \A s \in Used \ {cur} : tab'[s] = tab[s],
         cur \in Used =>
           /\ tab'[cur].role = tab[cur].role /\ ~tab'[cur].just_spawn
           /\ tab'[cur].exiting \/ (tab[cur].just_spawn /\ tab'[cur].exiting = tab[cur].exiting)
  PROVE  RolesOK'
  <1>1. /\ pc' = pc /\ job' = job /\ after' = after /\ cur' = cur + 1 /\ cur \in Nat
        /\ Telling' /\ ~Starting'
    BY DEF NextSlot, TypeOK, Telling, Starting
  <1>2. \A s \in Used : s \in Nat
    BY UsedFacts
  <1>3. Sparing'
    BY <1>1, <1>2 DEF RolesOK, Sparing, Reloading
  <1>4. ASSUME newBinary = 0  PROVE Pairwise({s \in Used : tab[s].just_spawn \/ s < cur})'
    <2>1. \A s, t \in Used :
           (tab[s].just_spawn \/ s < cur) /\ (tab[t].just_spawn \/ t < cur)
           /\ tab[s].role = tab[t].role /\ ~tab[s].exiting /\ ~tab[t].exiting => s = t
      <3>1. Pairwise({s \in Used : tab[s].just_spawn \/ s < cur})
        BY <1>4 DEF RolesOK, OneEach
      <3> QED BY <3>1 DEF Pairwise
    <2>2. \A s \in Used : /\ tab'[s].just_spawn \/ s < cur'
                          /\ ~tab'[s].exiting
                          => /\ tab[s].just_spawn \/ s < cur
                             /\ ~tab[s].exiting /\ tab'[s].role = tab[s].role
      BY <1>1, <1>2
    <2>3. \A s, t \in Used :
           (tab'[s].just_spawn \/ s < cur') /\ (tab'[t].just_spawn \/ t < cur')
           /\ tab'[s].role = tab'[t].role /\ ~tab'[s].exiting /\ ~tab'[t].exiting => s = t
      <3> SUFFICES ASSUME NEW s \in Used, NEW t \in Used,
                          tab'[s].just_spawn \/ s < cur', tab'[t].just_spawn \/ t < cur',
                          tab'[s].role = tab'[t].role, ~tab'[s].exiting, ~tab'[t].exiting
                   PROVE  s = t
        OBVIOUS
      <3>1. (tab[s].just_spawn \/ s < cur) /\ ~tab[s].exiting /\ tab'[s].role = tab[s].role
        BY <2>2
      <3>2. (tab[t].just_spawn \/ t < cur) /\ ~tab[t].exiting /\ tab'[t].role = tab[t].role
        BY <2>2
      <3> QED BY <2>1, <3>1, <3>2
    <2> QED BY <2>3 DEF Pairwise
  <1>5. pc' # "start"
    BY <1>1 DEF Telling
  <1>6. OneEach'
    BY <1>1, <1>4, <1>5 DEF OneEach, Reloading
  <1> QED BY <1>3, <1>6 DEF RolesOK

\* Every step of the loop that signals keeps the roles.
LEMMA SignalKept ==
  ASSUME IInv, RolesOK, Sound, Signal
  PROVE  RolesOK'
  <1>1. TypeOK /\ pc = "signal" /\ after \in {"arm", "quit", "reopen", "change_binary"}
        /\ newBinary' = newBinary /\ last \in Nat /\ cur \in Nat
    BY DEF IInv, LoopOK, TypeOK, Signal, SignalSkips, SignalSparesNew, SignalWrites, SignalKills,
      SignalFindsNoProcess, SignalDone, Signalling, binary
  <1>2. ~SignalFindsNoProcess
    BY <1>1, SignalledEntry DEF SignalFindsNoProcess, Signalling
  <1>3. CASE SignalDone
    <2>1. cur > last /\ pc' = after /\ after' = "none" /\ tab' = tab /\ Used' = Used
      BY <1>3 DEF SignalDone, Goto, table, Used
    <2>2. ~Reloading' /\ ~Telling' /\ ~Starting'
      BY <1>1, <2>1 DEF Reloading, Starting, Telling
    <2>3. CASE after # "reopen"
      BY <1>1, <2>1, <2>2, <2>3, AwayKept DEF Reloading, Starting, Telling
    <2>4. CASE after = "reopen"
      <3>1. Telling
        BY <1>1, <2>4 DEF Telling
      <3>2. \A s \in Used : s < cur /\ ~tab[s].just_spawn
        <4>1. \A s \in Used : s \in Nat /\ s =< last
          BY <1>1, UsedFacts
        <4> QED BY <1>1, <2>1, <3>1, <4>1 DEF RolesOK, Sparing
      <3>3. Sparing'
        BY <2>1, <2>2, <3>2 DEF Sparing
      <3>4. newBinary = 0 => Pairwise(Used)
        <4>1. {s \in Used : tab[s].just_spawn \/ s < cur} = Used
          BY <3>2
        <4> QED BY <3>1, <4>1 DEF RolesOK, OneEach
      <3>5. pc' # "start"
        BY <1>1, <2>1
      <3>6. OneEach'
        BY <1>1, <2>1, <2>2, <3>4, <3>5 DEF OneEach, Pairwise
      <3> QED BY <3>3, <3>6 DEF RolesOK
    <2> QED BY <2>3, <2>4
  <1>4. CASE SignalSkips
    <2>1. cur =< last /\ NextSlot /\ tab' = tab /\ Used' = Used /\ pc' = pc /\ after' = after
      BY <1>4 DEF SignalSkips, NextSlot, table, Used
    <2>2. cur \in Used => ~tab[cur].just_spawn /\ tab[cur].exiting
      BY <1>4 DEF SignalSkips, Used
    <2>3. CASE Telling
      BY <1>1, <2>1, <2>2, <2>3, TellingKept
    <2>4. CASE ~Telling
      BY <1>1, <2>1, <2>4, AwayKept DEF Reloading, Starting, Telling
    <2> QED BY <2>3, <2>4
  <1>5. CASE SignalSparesNew
    <2>1. /\ cur =< last /\ NextSlot /\ tab[cur].pid # NoPid /\ tab[cur].just_spawn
          /\ tab' = [tab EXCEPT ![cur].just_spawn = FALSE]
      BY <1>5 DEF SignalSparesNew
    <2>2. cur \in Used /\ cur \in Slot /\ tab[cur] \in Entry /\ Used' = Used
      BY <1>1, <1>5, <2>1, SignalledEntry, SparesSound
    <2>3. \A s \in Used \ {cur} : tab'[s] = tab[s]
      <3>1. \A s \in Used : s \in Slot
        BY <1>1, UsedFacts
      <3> QED BY <1>1, <2>1, <3>1 DEF TypeOK
    <2>4. tab'[cur].role = tab[cur].role /\ ~tab'[cur].just_spawn /\ tab'[cur].exiting = tab[cur].exiting
      BY <1>1, <2>1, <2>2 DEF TypeOK, Entry
    <2>5. Telling
      BY <1>1, <2>1, <2>2 DEF RolesOK, Sparing, Reloading, Starting, Telling
    <2> QED BY <1>1, <2>1, <2>2, <2>3, <2>4, <2>5, TellingKept
  <1>6. CASE SignalWrites \/ SignalKills
    <2>1. /\ cur =< last /\ NextSlot /\ tab[cur].pid # NoPid /\ ~tab[cur].just_spawn
          /\ tab' = [tab EXCEPT ![cur].exiting = @ \/ job # "USR1"]
      BY <1>6 DEF SignalWrites, SignalKills, Signalling
    <2>2. cur \in Used /\ cur \in Slot /\ tab[cur] \in Entry /\ Used' = Used
      BY <1>1, <1>6, <2>1, SignalledEntry, TellsSound
    <2>3. \A s \in Used : s \in Slot
      BY <1>1, UsedFacts
    <2>4. \A s \in Used \ {cur} : tab'[s] = tab[s]
      BY <1>1, <2>1, <2>3 DEF TypeOK
    <2>5. /\ tab'[cur].role = tab[cur].role /\ tab'[cur].just_spawn = tab[cur].just_spawn
          /\ tab'[cur].exiting = (tab[cur].exiting \/ job # "USR1")
      BY <1>1, <2>1, <2>2 DEF TypeOK, Entry
    <2>6. CASE Telling
      <3>1. tab'[cur].exiting
        BY <2>5, <2>6 DEF RolesOK, Sparing
      <3> QED BY <1>1, <2>1, <2>2, <2>4, <2>5, <2>6, <3>1, TellingKept
    <2>7. CASE ~Telling
      <3>1. ~Reloading /\ ~Reloading' /\ pc' # "start"
        BY <1>1, <2>1, <2>7 DEF Reloading, Starting, Telling, NextSlot
      <3>2. \A s \in Used : /\ tab'[s].role = tab[s].role /\ tab'[s].just_spawn = tab[s].just_spawn
                            /\ tab[s].exiting => tab'[s].exiting
        BY <2>4, <2>5
      <3> QED BY <1>1, <2>2, <3>1, <3>2, AwayKept
    <2> QED BY <2>6, <2>7
  <1> QED BY <1>2, <1>3, <1>4, <1>5, <1>6 DEF Signal

\* A reap respawns an entry in its role, frees it or leaves it.
LEMMA ReapKept ==
  ASSUME IInv, RolesOK, Sound, Reap, \A s, h, open : ~SpawnFails(s, h, open)
  PROVE  RolesOK'
  <1>1. TypeOK /\ pc = "reap" /\ pc' \in {"reap", "check"} /\ newBinary' = newBinary
    BY DEF IInv, Reap, ReapSkips, ReapRespawns, ReapFailsToRespawn, ReapFrees, ReapDone, Reaping,
      NextSlot, Goto, binary
  <1>2. ~Reloading /\ ~Reloading' /\ pc' # "start"
    BY <1>1 DEF Reloading, Starting, Telling
  <1>3. CASE ReapSkips \/ ReapDone
    <2>1. tab' = tab /\ Used' = Used
      BY <1>3 DEF ReapSkips, ReapDone, table, Used
    <2> QED BY <1>1, <1>2, <2>1, AwayKept
  <1>4. CASE ReapRespawns
    <2>1. Used' = Used
      BY <1>4, RespawnSound
    <2>2. cur \in Slot /\ tab[cur] \in Entry
      BY <1>1, <1>4, CurrentEntry DEF ReapRespawns, Reaping
    <2>3. PICK p \in Pid, c \in Slot :
            tab' = [tab EXCEPT ![cur] = [tab[cur] EXCEPT !.pid = p, !.chan = c, !.exited = FALSE]]
      BY <1>4 DEF ReapRespawns, Fork
    <2>4. /\ \A s \in Slot \ {cur} : tab'[s] = tab[s]
          /\ tab'[cur] = [tab[cur] EXCEPT !.pid = p, !.chan = c, !.exited = FALSE]
      BY <1>1, <2>2, <2>3 DEF TypeOK
    <2>5. /\ tab'[cur].role = tab[cur].role /\ tab'[cur].just_spawn = tab[cur].just_spawn
          /\ tab'[cur].exiting = tab[cur].exiting
      BY <2>2, <2>4 DEF Entry
    <2>6. \A s \in Used : s \in Slot
      BY <1>1, UsedFacts
    <2> QED BY <1>1, <1>2, <2>1, <2>4, <2>5, <2>6, AwayKept
  <1>5. CASE ReapFrees
    <2>1. Used' \subseteq Used /\ \A s \in Used' : tab'[s] = tab[s]
      BY <1>5, FreesSound
    <2> QED BY <1>1, <1>2, <2>1, AwayKept
  <1>6. ~ReapFailsToRespawn
    BY DEF ReapFailsToRespawn
  <1> QED BY <1>3, <1>4, <1>5, <1>6 DEF Reap

\* Once process_new_binary is -1 it stays: the pid file keeps its other name.
LEMMA BodyKept ==
  ASSUME IInv, RolesOK, Body
  PROVE  RolesOK'
  <1>1. CASE Reconfigure
    BY <1>1, ReconfigureKept
  <1>2. CASE ~Reconfigure
    <2>1. /\ TypeOK /\ pc \notin {"start", "signal"} /\ tab' = tab /\ Used' = Used
          /\ pc' # "start"
          /\ pc' = "signal" => after' # "reopen"
      BY <1>2 DEF IInv, Body, MasterExits, MasterGoesOn, Terminate, Quit, Reopen, ChangeBinary, NoAccept,
        NotAsked, Successor, Goto, Loop, table, Used
    <2>2. newBinary' = 0 => newBinary = 0
      BY <1>2 DEF IInv, LiveOK, Body, MasterExits, MasterGoesOn, Terminate, Quit, Reopen, ChangeBinary,
        NoAccept, NotAsked, binary
    <2>3. ~Reloading /\ ~Reloading'
      BY <2>1 DEF Reloading, Starting, Telling
    <2> QED BY <2>1, <2>2, <2>3, AwayKept
  <1> QED BY <1>1, <1>2

\* Every step keeps the roles, as long as no spawn fails.
LEMMA RolesKept ==
  ASSUME IInv, Sound, RolesOK, [Next]_vars, \A s, h, open : ~SpawnFails(s, h, open)
  PROVE  RolesOK'
  <1>1. CASE Arm \/ SigSuspend
    <2>1. /\ TypeOK /\ pc \in {"arm", "suspend"} /\ pc' \in {"suspend", "reap", "check"}
          /\ newBinary' = newBinary
      BY <1>1 DEF IInv, Arm, SigSuspend, Goto, Loop, binary
    <2>2. ~Reloading /\ ~Reloading' /\ pc' # "start"
      BY <2>1 DEF Reloading, Starting, Telling
    <2>3. CASE SigSuspend /\ "CHLD" \in pending
      <3>1. "reap" \in Raises("CHLD")
        BY DEF Raises
      <3>2. GetStatus /\ pc' = "reap" /\ cur' = 1
        BY <2>3, <3>1 DEF SigSuspend, Loop
      <3> QED BY <2>1, <2>2, <2>3, <3>2, GetStatusSound, AwayKept
    <2>4. CASE ~(SigSuspend /\ "CHLD" \in pending)
      <3>1. tab' = tab /\ Used' = Used
        BY <1>1, <2>4 DEF Arm, SigSuspend, table, Used
      <3> QED BY <2>1, <2>2, <3>1, AwayKept
    <2> QED BY <2>3, <2>4
  <1>2. CASE Reap
    BY <1>2, ReapKept
  <1>3. CASE Signal
    BY <1>3, SignalKept
  <1>4. CASE Start
    BY <1>4, StartKept, StartFullKept, StartDoneKept DEF Start
  <1>5. CASE Body
    BY <1>5, BodyKept
  <1>6. CASE TimerFires \/ OperatorSignals \/ Worker \/ UNCHANGED vars
    <2>1. UNCHANGED <<control, table, newBinary>>
      BY <1>6 DEF TimerFires, OperatorSignals, Worker, WorkerDies, WorkerLeaves, vars, binary
    <2> QED BY <2>1, StillKept
  <1> QED BY <1>1, <1>2, <1>3, <1>4, <1>5, <1>6 DEF Next, Master

-----------------------------------------------------------------------------
(* The theorems.                                                           *)

\* While no spawn has failed, the table and the kernel agree and the roles are
\* as Sparing and OneEach say.
Inv == /\ IInv /\ budget["spawn"] =< Budget["spawn"]
       /\ NoneFailed => Sound /\ RolesOK

\* The invariant holds at the start.
LEMMA InvInit == Init => Inv
  <1> SUFFICES ASSUME Init  PROVE Inv
    OBVIOUS
  <1>1. IInv /\ Sound /\ Used = {}
    BY InitSound, InvInitial
  <1>2. pc = "start" /\ job = "first" /\ budget = Budget
    BY DEF Init
  <1>3. budget["spawn"] =< Budget["spawn"]
    BY <1>2, BudgetAssumption DEF Kinds
  <1>4. RolesOK
    BY <1>1, <1>2 DEF RolesOK, Sparing, OneEach, Reloading, Starting, Telling, Pairwise
  <1> QED BY <1>1, <1>3, <1>4 DEF Inv

\* Every step keeps the invariant.
LEMMA InvStep == Inv /\ [Next]_vars => Inv'
  <1> SUFFICES ASSUME Inv, [Next]_vars  PROVE Inv'
    OBVIOUS
  <1>1. IInv /\ TypeOK /\ budget["spawn"] =< Budget["spawn"]
    BY DEF Inv, IInv
  <1>2. IInv'
    BY <1>1, InvPreserved
  <1>3. budget'["spawn"] =< Budget["spawn"]
    <2>1. budget["spawn"] \in Nat /\ Budget["spawn"] \in Nat /\ budget'["spawn"] \in Nat
      BY <1>1, <1>2, BudgetAssumption DEF IInv, TypeOK, Kinds
    <2> QED BY <1>1, <2>1, Monotone
  <1>4. ASSUME NoneFailed'  PROVE Sound' /\ RolesOK'
    <2>1. NoneFailed /\ \A s, h, open : ~SpawnFails(s, h, open)
      BY <1>1, <1>4, NoneFailedBefore
    <2> QED BY <1>1, <2>1, SoundKept, RolesKept DEF Inv
  <1> QED BY <1>2, <1>3, <1>4 DEF Inv

\* The invariant holds in every reachable state.
LEMMA SpawnsInvariance == Spec => []Inv
  BY InvInit, InvStep, PTL DEF Spec

\* As long as no spawn has failed, no two entries hold the same channel: a
\* command written to an entry's channel reaches its worker and no other
\* (unix_spawn_process, unix_reap_children).
THEOREM ChannelsStayApart == Spec => [](NoneFailed => ChannelsApart)
  <1>1. Inv => (NoneFailed => ChannelsApart)
    BY DEF Inv, Sound, OwnChannel, OwnPid, ChannelsApart
  <1> QED BY <1>1, SpawnsInvariance, PTL

\* As long as no spawn has failed, a worker that is marked exiting and runs was
\* told by its channel or by a signal: none is passed over by
\* signal_worker_process that knows of nothing.
THEOREM ExitingWorkerWasTold == Spec => [](NoneFailed => ExitingWasTold)
  <1>1. Inv => (NoneFailed => ExitingWasTold)
    BY DEF Inv, Sound
  <1> QED BY <1>1, SpawnsInvariance, PTL

\* As long as no spawn has failed, reloads, respawns and full tables never leave
\* a role with two workers that stay, nor anybody spared, for the next stop
\* (nodes_start_worker_process, signal_worker_process).
THEOREM RolesStaySingle == Spec => [](NoneFailed => OneActivePerRole)
  <1>1. Inv => (NoneFailed => OneActivePerRole)
    <2> SUFFICES ASSUME Inv, NoneFailed, pc = "suspend"  PROVE OneActivePerRole
      BY DEF OneActivePerRole, SparedOnce
    <2>1. ~Reloading /\ RolesOK
      BY DEF Inv, Reloading, Starting, Telling
    <2> QED BY <2>1 DEF RolesOK, Sparing, OneEach, Pairwise, OneActivePerRole, SparedOnce
  <1> QED BY <1>1, SpawnsInvariance, PTL

-----------------------------------------------------------------------------
(* Who is killed was told to terminate.                                    *)

\* The process of this entry has been told to terminate, if there is one.
WarnedAt(s) == Exists(tab[s].pid) => "TERM" \in mail[tab[s].pid] \cup sig[tab[s].pid]

TermRound == pc = "signal" /\ job = "TERM"

\* Where no reload is ever asked for, nobody is started or spared once a stop
\* was, the delay starts with the first round of TERM, and from its end on all
\* that are left have been told.
WarnInv ==
  /\ "HUP" \notin pending /\ "reconfigure" \notin flags
  /\ pc = "start" => job = "first" /\ "terminate" \notin flags
  /\ "terminate" \notin flags => delay = 0
  /\ delay = 0 => sigio = 0
  /\ \A s \in Slot : ~tab[s].just_spawn
  /\ pc = "signal" /\ job \in {"TERM", "KILL"} => delay # 0
  /\ TermRound => \A s \in Used : s < cur => WarnedAt(s)
  /\ delay # 0 /\ ~TermRound => \A s \in Used : WarnedAt(s)

\* Who was told stays told, as long as an entry keeps its process.
LEMMA WarnedKept ==
  ASSUME TypeOK,
         \A s \in Used' : s \in Used /\ tab'[s].pid = tab[s].pid,
         \A p \in Pid : /\ Exists(p)' => Exists(p)
                        /\ mail[p] \cup sig[p] \subseteq mail'[p] \cup sig'[p]
  PROVE  \A s \in Used' : WarnedAt(s) => WarnedAt(s)'
<1>1. ASSUME NEW s \in Used', WarnedAt(s), Exists(tab[s].pid)'  PROVE "TERM" \in (mail[tab[s].pid] \cup sig[tab[s].pid])'
  <2>1. s \in Used /\ tab'[s].pid = tab[s].pid /\ tab[s].pid \in Pid
    BY UsedFacts
  <2>2. Exists(tab[s].pid)
    BY <1>1, <2>1 DEF Exists
  <2>3. "TERM" \in mail[tab[s].pid] \cup sig[tab[s].pid]
    BY <1>1, <2>2 DEF WarnedAt
  <2>4. QED  BY <2>1, <2>3
<1>2. QED  BY <1>1 DEF WarnedAt, Exists

\* Steps into which no round of TERM and no KILL goes and that end none.
LEMMA WarnAway ==
  ASSUME TypeOK, WarnInv, ~TermRound, pc' # "start", delay' = delay, sigio' = sigio,
         pc' = "signal" => job' \notin {"TERM", "KILL"} \/ (pc = "signal" /\ job' = job),
         "HUP" \notin pending', "reconfigure" \notin flags',
         "terminate" \in flags => "terminate" \in flags',
         \A s \in Slot : tab'[s].just_spawn = tab[s].just_spawn,
         \A s \in Used' : s \in Used /\ tab'[s].pid = tab[s].pid,
         \A p \in Pid : /\ Exists(p)' => Exists(p)
                        /\ mail[p] \cup sig[p] \subseteq mail'[p] \cup sig'[p]
  PROVE  WarnInv'
<1>1. \A s \in Used' : WarnedAt(s) => WarnedAt(s)'
  BY WarnedKept
<1>2. ~TermRound'
  BY DEF TermRound
<1>3. delay' # 0 => \A s \in Used' : WarnedAt(s)'
  BY <1>1 DEF WarnInv
<1>4. pc' = "signal" /\ job' \in {"TERM", "KILL"} => delay' # 0
  BY DEF WarnInv
<1>5. QED  BY <1>2, <1>3, <1>4 DEF WarnInv

\* Nothing of the table and of what processes were told changes.
LEMMA StillTold ==
  ASSUME UNCHANGED <<table, kernel>>
  PROVE  /\ \A s \in Slot : tab'[s].just_spawn = tab[s].just_spawn
         /\ \A s \in Used' : s \in Used /\ tab'[s].pid = tab[s].pid
         /\ \A p \in Pid : /\ Exists(p)' => Exists(p)
                           /\ mail[p] \cup sig[p] \subseteq mail'[p] \cup sig'[p]
         /\ \A s : WarnedAt(s)' = WarnedAt(s)
         /\ Used' = Used
  BY DEF table, kernel, Used, Exists, WarnedAt

\* The top of the loop doubles a delay that has begun, and no other.
LEMMA ArmWarns ==
  ASSUME TypeOK, WarnInv, Arm
  PROVE  WarnInv'
<1>1. /\ pc = "arm" /\ pc' = "suspend" /\ pending' = pending /\ UNCHANGED <<table, kernel>>
      /\ "terminate" \in flags' <=> "terminate" \in flags
      /\ "reconfigure" \in flags' => "reconfigure" \in flags
  BY DEF Arm, Goto
<1>2. delay \in Nat /\ DelayCap \in Nat /\ DelayCap # 0
  BY DelayAssumption DEF TypeOK
<1>3. (delay = 0 <=> delay' = 0) /\ (delay = 0 => sigio' = sigio)
  BY <1>2 DEF Arm
<1>4. ~TermRound /\ ~TermRound'
  BY <1>1 DEF TermRound
<1>5. Used' = Used /\ \A s \in Used : WarnedAt(s)' = WarnedAt(s)
  BY <1>1, StillTold
<1>6. tab' = tab
  BY <1>1 DEF table
<1>7. QED  BY <1>1, <1>3, <1>4, <1>5, <1>6 DEF WarnInv

\* The handlers ask for no reload where no HUP comes.
LEMMA SigSuspendWarns ==
  ASSUME TypeOK, WarnInv, SigSuspend
  PROVE  WarnInv'
<1>1. /\ pc = "suspend" /\ pc' \in {"reap", "check"} /\ pending' = {} /\ delay' = delay /\ sigio' = sigio
      /\ UNCHANGED <<last, mail, sig>>
      /\ GetStatus \/ UNCHANGED <<proc, tab>>
  BY DEF SigSuspend, Goto, Loop
<1>2. "terminate" \in flags => "terminate" \in flags'
  BY DEF SigSuspend
<1>3. "reconfigure" \notin flags'
  <2>1. \A s \in pending : "reconfigure" \notin Raises(s)
    BY DEF WarnInv, Raises, TypeOK, Signals
  <2>2. "reconfigure" \notin flags \cup UNION {Raises(s) : s \in pending}
    BY <2>1 DEF WarnInv
  <2>3. QED  BY <2>2 DEF SigSuspend
<1>4. \A s \in Slot : tab'[s].just_spawn = tab[s].just_spawn /\ tab'[s].pid = tab[s].pid
  BY <1>1 DEF GetStatus, TypeOK, Entry
<1>5. \A s \in Used' : s \in Used /\ tab'[s].pid = tab[s].pid
  <2>1. 1 .. last \subseteq Slot
    BY TableAssumption DEF TypeOK, Slot
  <2>2. QED  BY <1>1, <1>4, <2>1 DEF Used
<1>6. \A p \in Pid : /\ Exists(p)' => Exists(p)
                     /\ mail[p] \cup sig[p] \subseteq mail'[p] \cup sig'[p]
  BY <1>1 DEF GetStatus, TypeOK, Exists
<1>7. QED
  BY <1>1, <1>2, <1>3, <1>4, <1>5, <1>6, WarnAway DEF TermRound

\* Nobody is respawned once a stop is asked for.
LEMMA ReapWarns ==
  ASSUME IInv, WarnInv, Reap
  PROVE  WarnInv'
<1> USE DEF TermRound
<1>1. TypeOK
  BY DEF IInv
<1>2. CASE ReapSkips \/ ReapDone
  <2>1. /\ UNCHANGED <<table, kernel>> /\ pending' = pending /\ flags' = flags
        /\ delay' = delay /\ sigio' = sigio /\ pc = "reap" /\ pc' \in {"reap", "check"}
    BY <1>2 DEF ReapSkips, ReapDone, NextSlot, Goto, local
  <2>2. "HUP" \notin pending' /\ "reconfigure" \notin flags'
    BY <2>1 DEF WarnInv
  <2>3. QED  BY <1>1, <2>1, <2>2, StillTold, WarnAway
<1>3. CASE ReapRespawns \/ ReapFailsToRespawn
  <2>1. /\ pc = "reap" /\ pc' = "reap" /\ pending' = pending /\ flags' = flags
        /\ delay' = delay /\ sigio' = sigio /\ "terminate" \notin flags /\ cur =< last
    BY <1>3 DEF ReapRespawns, ReapFailsToRespawn, Reaping, Respawning, NextSlot, Stopping, local
  <2>2. delay' = 0
    BY <2>1 DEF WarnInv
  <2>3. cur \in Slot /\ tab[cur] \in Entry
    BY <1>1, <2>1, CurrentEntry
  <2>4. \A s \in Slot : ~tab'[s].just_spawn
    <3>1. CASE ReapRespawns
      <4>1. Fork(cur, tab[cur], ChannelClosed(cur))
        BY <3>1 DEF ReapRespawns
      <4>2. PICK p \in Pid, c \in Slot :
              tab' = [tab EXCEPT ![cur] = [tab[cur] EXCEPT !.pid = p, !.chan = c, !.exited = FALSE]]
        BY <4>1 DEF Fork
      <4>3. [tab[cur] EXCEPT !.pid = p, !.chan = c, !.exited = FALSE].just_spawn = tab[cur].just_spawn
        BY <2>3 DEF Entry
      <4>4. QED  BY <4>2, <4>3, <1>1, <2>3 DEF WarnInv, TypeOK
    <3>2. CASE ReapFailsToRespawn
      <4>1. PICK c : tab' = [tab EXCEPT ![cur].chan = c]
        BY <3>2 DEF ReapFailsToRespawn, SpawnFails
      <4>2. [tab[cur] EXCEPT !.chan = c].just_spawn = tab[cur].just_spawn
        BY <2>3 DEF Entry
      <4>3. QED  BY <4>1, <4>2, <1>1, <2>3 DEF WarnInv, TypeOK
    <3>3. QED  BY <1>3, <3>1, <3>2
  <2>5. QED  BY <2>1, <2>2, <2>4 DEF WarnInv
<1>4. CASE ReapFrees
  <2>1. /\ pc = "reap" /\ pc' = "reap" /\ pending' = pending /\ flags' = flags
        /\ delay' = delay /\ sigio' = sigio /\ UNCHANGED <<mail, sig, proc>> /\ cur =< last
    BY <1>4 DEF ReapFrees, Reaping, NextSlot, local
  <2>2. cur \in Slot /\ tab[cur] \in Entry /\ last \in Nat /\ cur \in Nat
    BY <1>1, <2>1, CurrentEntry DEF TypeOK
  <2>3. \A s \in Slot : tab'[s].just_spawn = tab[s].just_spawn
    BY <1>4, <1>1, <2>2 DEF ReapFrees, TypeOK, Entry
  <2>4. \A s \in Used' : s \in Used /\ tab'[s].pid = tab[s].pid
    <3>1. CASE cur = last
      <4>1. last' = last - 1 /\ tab' = [tab EXCEPT ![cur].chan = NoChan]
        BY <3>1, <1>4 DEF ReapFrees
      <4>2. \A s \in Slot : tab'[s].pid = tab[s].pid
        BY <4>1, <1>1, <2>2 DEF TypeOK, Entry
      <4>3. 1 .. last' \subseteq 1 .. last /\ 1 .. last \subseteq Slot
        BY <4>1, <2>2, <1>1, TableAssumption DEF TypeOK, Slot
      <4>4. QED  BY <4>2, <4>3 DEF Used
    <3>2. CASE cur # last
      <4>1. last' = last /\ tab' = [tab EXCEPT ![cur].chan = NoChan, ![cur].pid = NoPid]
        BY <3>2, <1>4 DEF ReapFrees
      <4>2. tab'[cur].pid = NoPid /\ \A s \in Slot \ {cur} : tab'[s] = tab[s]
        BY <4>1, <1>1, <2>2 DEF TypeOK, Entry
      <4>3. 1 .. last \subseteq Slot
        BY <1>1, TableAssumption DEF TypeOK, Slot
      <4>4. QED  BY <4>1, <4>2, <4>3 DEF Used
    <3>3. QED  BY <3>1, <3>2
  <2>5. \A p \in Pid : /\ Exists(p)' => Exists(p)
                       /\ mail[p] \cup sig[p] \subseteq mail'[p] \cup sig'[p]
    BY <2>1 DEF Exists
  <2>6. "HUP" \notin pending' /\ "reconfigure" \notin flags'
    BY <2>1 DEF WarnInv
  <2>7. QED  BY <1>1, <2>1, <2>3, <2>4, <2>5, <2>6, WarnAway
<1>5. QED  BY <1>2, <1>3, <1>4 DEF Reap

\* Only the first start is left, before any stop.
LEMMA StartWarns ==
  ASSUME IInv, WarnInv, Start
  PROVE  WarnInv'
<1> USE DEF TermRound
<1>1. TypeOK
  BY DEF IInv
<1>2. /\ pc = "start" /\ job = "first" /\ "terminate" \notin flags /\ delay = 0
  BY DEF WarnInv, Start, StartWorker, StartFindsTableFull, StartDone
<1>3. /\ pending' = pending /\ flags' = flags /\ delay' = delay /\ sigio' = sigio
      /\ pc' = "arm" \/ (pc' = "start" /\ job' = job)
  BY <1>2 DEF Start, StartWorker, StartFindsTableFull, StartDone, NextSlot, Goto, local
<1>4. \A s \in Slot : ~tab'[s].just_spawn
  <2>1. CASE StartWorker
    <3>1. PICK t \in Slot : \/ Fork(t, [Unused EXCEPT !.role = Roles[cur], !.just_spawn = (job = "reload")], sock)
                            \/ SpawnFails(t, tab[t].chan, sock)
      BY <2>1 DEF StartWorker
    <3>2. tab[t] \in Entry
      BY <1>1 DEF TypeOK
    <3>3. CASE SpawnFails(t, tab[t].chan, sock)
      <4>1. PICK c : tab' = [tab EXCEPT ![t].chan = c]
        BY <3>3 DEF SpawnFails
      <4>2. [tab[t] EXCEPT !.chan = c].just_spawn = tab[t].just_spawn
        BY <3>2 DEF Entry
      <4>3. QED  BY <4>1, <4>2, <1>1 DEF WarnInv, TypeOK
    <3>4. CASE Fork(t, [Unused EXCEPT !.role = Roles[cur], !.just_spawn = (job = "reload")], sock)
      <4> DEFINE e == [Unused EXCEPT !.role = Roles[cur], !.just_spawn = (job = "reload")]
      <4>1. e.just_spawn = FALSE
        BY <1>2 DEF Unused
      <4>2. PICK p \in Pid, c \in Slot :
              tab' = [tab EXCEPT ![t] = [e EXCEPT !.pid = p, !.chan = c, !.exited = FALSE]]
        BY <3>4 DEF Fork
      <4>3. [e EXCEPT !.pid = p, !.chan = c, !.exited = FALSE].just_spawn = e.just_spawn
        BY DEF Unused
      <4> HIDE DEF e
      <4>4. QED  BY <4>1, <4>2, <4>3, <1>1 DEF WarnInv, TypeOK
    <3>5. QED  BY <3>1, <3>3, <3>4
  <2>2. CASE StartFindsTableFull \/ StartDone
    BY <2>2 DEF StartFindsTableFull, StartDone, table, WarnInv
  <2>3. QED  BY <2>1, <2>2 DEF Start
<1>5. QED  BY <1>2, <1>3, <1>4 DEF WarnInv

\* A round of TERM tells the process of the entry it is at, and KILL tells
\* nobody but leaves what was told.
LEMMA SignalTellsWarns ==
  ASSUME IInv, Sound, WarnInv, SignalWrites \/ SignalKills
  PROVE  WarnInv'
<1>1. TypeOK /\ pc = "signal" /\ cur =< last /\ tab[cur].pid # NoPid
      /\ job \in Commands \cup {"KILL"}
      /\ tab' = [tab EXCEPT ![cur].exiting = @ \/ job # "USR1"] /\ UNCHANGED <<last, sock>>
  BY DEF IInv, LoopOK, SignalWrites, SignalKills, Signalling
<1>2. /\ pc' = pc /\ job' = job /\ cur' = cur + 1 /\ flags' = flags /\ delay' = delay /\ sigio' = sigio
      /\ pending' \subseteq pending \cup {"CHLD"}
  BY DEF SignalWrites, SignalKills, NextSlot, local
<1>3. /\ cur \in Used /\ cur \in Slot /\ tab[cur] \in Entry /\ tab[cur].pid \in Pid
      /\ sock[tab[cur].chan] = tab[cur].pid
  BY <1>1, SignalledEntry
<1>4. \A s \in Slot : tab'[s].just_spawn = tab[s].just_spawn /\ tab'[s].pid = tab[s].pid
  BY <1>1, <1>3 DEF TypeOK, Entry
<1>5. Used' = Used /\ Used \subseteq Slot
  BY <1>1, <1>4, TableAssumption DEF Used, TypeOK, Slot
<1>6. /\ \A p \in Pid : /\ Exists(p)' => Exists(p)
                        /\ mail[p] \cup sig[p] \subseteq mail'[p] \cup sig'[p]
      /\ job = "TERM" => "TERM" \in mail'[tab[cur].pid] \cup sig'[tab[cur].pid]
  <2>1. CASE SignalWrites
    <3>1. mail' = [mail EXCEPT ![tab[cur].pid] = @ \cup {job}] /\ UNCHANGED <<sig, proc>>
      BY <1>3, <2>1 DEF SignalWrites
    <3>2. job \in mail'[tab[cur].pid] /\ \A p \in Pid : mail[p] \subseteq mail'[p]
      BY <1>1, <1>3, <3>1 DEF TypeOK
    <3>3. QED  BY <3>1, <3>2 DEF Exists
  <2>2. CASE SignalKills /\ job # "KILL"
    <3>1. sig' = [sig EXCEPT ![tab[cur].pid] = @ \cup {job}] /\ UNCHANGED <<mail, proc>>
      BY <2>2 DEF SignalKills
    <3>2. job \in sig'[tab[cur].pid] /\ \A p \in Pid : sig[p] \subseteq sig'[p]
      BY <1>1, <1>3, <3>1 DEF TypeOK
    <3>3. QED  BY <3>1, <3>2 DEF Exists
  <2>3. CASE SignalKills /\ job = "KILL"
    <3>1. proc' = [proc EXCEPT ![tab[cur].pid] = "zombie"] /\ UNCHANGED <<mail, sig>> /\ Exists(tab[cur].pid)
      BY <2>3 DEF SignalKills
    <3>2. \A p \in Pid \ {tab[cur].pid} : proc'[p] = proc[p]
      BY <3>1, <1>3, <1>1 DEF TypeOK
    <3>3. \A p \in Pid : Exists(p)' => Exists(p)
      BY <3>1, <3>2 DEF Exists
    <3>4. QED  BY <3>1, <3>3, <2>3
  <2>4. QED  BY <2>1, <2>2, <2>3
<1>7. \A s \in Used' : WarnedAt(s) => WarnedAt(s)'
  BY <1>1, <1>4, <1>5, <1>6, WarnedKept
<1>8. job = "TERM" => \A s \in Used : s = cur => WarnedAt(s)'
  BY <1>3, <1>4, <1>6 DEF WarnedAt
<1>9. TermRound' <=> TermRound
  BY <1>2 DEF TermRound
<1>10. TermRound' => \A s \in Used' : s < cur' => WarnedAt(s)'
  <2> SUFFICES ASSUME TermRound, NEW s \in Used, s < cur + 1  PROVE WarnedAt(s)'
    BY <1>2, <1>5, <1>9
  <2>1. s = cur \/ s < cur
    BY <1>1, <1>5, <1>3 DEF Slot
  <2>2. QED  BY <2>1, <1>5, <1>7, <1>8 DEF WarnInv, TermRound
<1>11. delay' # 0 /\ ~TermRound' => \A s \in Used' : WarnedAt(s)'
  BY <1>2, <1>5, <1>7, <1>9 DEF WarnInv
<1>12. QED
  BY <1>1, <1>2, <1>4, <1>10, <1>11 DEF WarnInv

\* The other steps of the loop that signals.
LEMMA SignalOtherWarns ==
  ASSUME IInv, WarnInv, SignalSkips \/ SignalSparesNew \/ SignalFindsNoProcess \/ SignalDone
  PROVE  WarnInv'
<1>1. TypeOK /\ LoopOK
  BY DEF IInv
<1>2. CASE SignalSparesNew
  <2>1. cur \in Slot /\ tab[cur].just_spawn
    BY <1>1, <1>2, CurrentEntry DEF SignalSparesNew
  <2>2. QED  BY <2>1 DEF WarnInv
<1>3. CASE SignalSkips \/ SignalFindsNoProcess
  <2>1. /\ pc = "signal" /\ pc' = pc /\ job' = job /\ cur' = cur + 1 /\ cur =< last
        /\ delay' = delay /\ sigio' = sigio /\ pending' = pending
        /\ flags' = flags \/ flags' = flags \cup {"reap"}
        /\ UNCHANGED <<last, kernel>>
    BY <1>3 DEF SignalSkips, SignalFindsNoProcess, Signalling, NextSlot, local, table
  <2>2. cur \in Slot /\ tab[cur] \in Entry
    BY <1>1, <2>1, CurrentEntry
  <2>3. \A s \in Slot : tab'[s].just_spawn = tab[s].just_spawn /\ tab'[s].pid = tab[s].pid
    BY <1>1, <1>3, <2>2 DEF SignalSkips, SignalFindsNoProcess, table, TypeOK, Entry
  <2>4. Used' = Used /\ Used \subseteq Slot
    BY <2>1, <2>3, <1>1, TableAssumption DEF Used, TypeOK, Slot
  <2>5. \A s \in Used : WarnedAt(s)' <=> WarnedAt(s)
    BY <2>1, <2>3, <2>4 DEF WarnedAt, kernel, Exists
  <2>6. job = "TERM" /\ cur \in Used => WarnedAt(cur)
    BY <1>3, <2>1 DEF SignalSkips, SignalFindsNoProcess, Signalling, Used, WarnedAt, WarnInv
  <2>7. TermRound' <=> TermRound
    BY <2>1 DEF TermRound
  <2>8. TermRound' => \A s \in Used' : s < cur' => WarnedAt(s)'
    <3> SUFFICES ASSUME TermRound, NEW s \in Used, s < cur + 1  PROVE WarnedAt(s)
      BY <2>1, <2>4, <2>5, <2>7
    <3>1. s = cur \/ s < cur
      BY <2>2, <2>4 DEF Slot
    <3>2. QED  BY <3>1, <2>6 DEF WarnInv, TermRound
  <2>9. delay' # 0 /\ ~TermRound' => \A s \in Used' : WarnedAt(s)'
    BY <2>1, <2>4, <2>5, <2>7 DEF WarnInv
  <2>10. "HUP" \notin pending' /\ "reconfigure" \notin flags' /\ ("terminate" \notin flags' => delay' = 0)
    BY <2>1 DEF WarnInv
  <2>11. QED  BY <2>1, <2>3, <2>8, <2>9, <2>10 DEF WarnInv
<1>4. CASE SignalDone
  <2>1. /\ pc = "signal" /\ cur > last /\ pc' = after /\ job' = "none"
        /\ UNCHANGED <<table, kernel>> /\ delay' = delay /\ sigio' = sigio /\ pending' = pending /\ flags' = flags
    BY <1>4 DEF SignalDone, Goto, local
  <2>2. pc' \notin {"start", "signal"}
    BY <2>1, <1>1 DEF LoopOK
  <2>3. TermRound => \A s \in Used : WarnedAt(s)
    <3>1. \A s \in Used : s < cur
      BY <2>1, <1>1 DEF Used, TypeOK
    <3>2. QED  BY <3>1 DEF WarnInv
  <2>4. ~TermRound'
    BY <2>2 DEF TermRound
  <2>5. delay' # 0 => \A s \in Used' : WarnedAt(s)'
    BY <2>1, <2>3, StillTold DEF WarnInv
  <2>6. tab' = tab
    BY <2>1 DEF table
  <2>7. QED  BY <2>1, <2>2, <2>4, <2>5, <2>6 DEF WarnInv
<1>5. QED  BY <1>2, <1>3, <1>4

\* The first round is one of TERM: no delay is beyond the longest before it.
LEMMA TerminateWarns ==
  ASSUME TypeOK, WarnInv, Terminate
  PROVE  WarnInv'
<1>1. /\ pc = "terminate" /\ "terminate" \in flags /\ pending' = pending /\ flags' = flags
      /\ UNCHANGED <<table, kernel>> /\ delay' = (IF delay = 0 THEN FirstDelay ELSE delay)
  BY DEF Terminate
<1>2. delay \in Nat /\ FirstDelay \in Nat \ {0} /\ KillDelay \in Nat /\ FirstDelay =< KillDelay /\ sigio \in Nat
  BY DelayAssumption DEF TypeOK
<1>3. delay' # 0
  BY <1>1, <1>2
<1>4. delay # 0 => \A s \in Used' : WarnedAt(s)'
  BY <1>1, StillTold DEF WarnInv, TermRound
<1>5. tab' = tab
  BY <1>1 DEF table
<1>6. CASE sigio > 0
  <2>1. pc' = "arm"
    BY <1>6 DEF Terminate, Goto
  <2>2. delay # 0
    BY <1>2, <1>6 DEF WarnInv
  <2>3. QED  BY <1>1, <1>3, <1>4, <1>5, <2>1, <2>2 DEF WarnInv, TermRound
<1>7. CASE ~(sigio > 0)
  <2>1. /\ pc' = "signal" /\ cur' = 1
        /\ job' = (IF delay' > KillDelay THEN "KILL" ELSE "TERM")
    BY <1>7 DEF Terminate, Loop
  <2>2. CASE delay' > KillDelay
    <3>1. delay # 0
      BY <1>1, <1>2, <2>2
    <3>2. ~TermRound'
      BY <2>1, <2>2 DEF TermRound
    <3>3. QED  BY <1>1, <1>3, <1>4, <1>5, <2>1, <3>1, <3>2 DEF WarnInv
  <2>3. CASE ~(delay' > KillDelay)
    <3>1. TermRound'
      BY <2>1, <2>3 DEF TermRound
    <3>2. \A s \in Used' : ~(s < cur')
      <4>1. \A s \in Used' : s \in Int /\ s >= 1
        BY DEF Used
      <4>2. QED  BY <4>1, <2>1
    <3>3. QED  BY <1>1, <1>3, <1>5, <2>1, <3>1, <3>2 DEF WarnInv
  <2>4. QED  BY <2>2, <2>3
<1>8. QED  BY <1>6, <1>7

\* The rest of the loop tells QUIT and USR1 only.
LEMMA BodyWarns ==
  ASSUME TypeOK, WarnInv, Body, ~Terminate
  PROVE  WarnInv'
<1>1. ~Reconfigure
  BY DEF Reconfigure, WarnInv
<1>2. /\ UNCHANGED <<table, kernel>> /\ delay' = delay /\ sigio' = sigio /\ pending' = pending
      /\ pc # "signal" /\ pc' # "start" /\ (pc' = "signal" => job' \in {"QUIT", "USR1"})
      /\ flags' \subseteq flags /\ ("terminate" \in flags => "terminate" \in flags')
  <2>1. CASE MasterExits \/ MasterGoesOn
    BY <2>1 DEF MasterExits, MasterGoesOn, Goto, local
  <2>2. CASE Quit \/ Reopen \/ NoAccept
    BY <2>2 DEF Quit, Reopen, NoAccept, Loop, local
  <2>3. CASE ChangeBinary
    BY <2>3 DEF ChangeBinary, Goto, local
  <2>4. CASE NotAsked
    BY <2>4 DEF NotAsked, Goto, Successor, local
  <2>5. QED  BY <1>1, <2>1, <2>2, <2>3, <2>4 DEF Body
<1>3. "HUP" \notin pending' /\ "reconfigure" \notin flags' /\ ~TermRound
  BY <1>2 DEF WarnInv, TermRound
<1>4. QED  BY <1>2, <1>3, StillTold, WarnAway

\* Around the master processes end, and the operator asks for no reload.
LEMMA AroundWarns ==
  ASSUME TypeOK, WarnInv, TimerFires \/ OperatorSignals \/ Worker \/ UNCHANGED vars, "HUP" \notin OpSignals
  PROVE  WarnInv'
<1>1. /\ UNCHANGED <<control, flags, delay, sigio, table, mail, sig>>
  BY DEF TimerFires, OperatorSignals, Worker, WorkerDies, WorkerLeaves, vars, local, kernel
<1>2. "HUP" \notin pending'
  BY DEF WarnInv, TimerFires, OperatorSignals, Worker, WorkerDies, WorkerLeaves, vars
<1>3. \A p \in Pid : Exists(p)' => Exists(p)
  <2>1. CASE TimerFires \/ OperatorSignals \/ UNCHANGED vars
    BY <2>1 DEF TimerFires, OperatorSignals, vars, kernel, Exists
  <2>2. CASE Worker
    BY <2>2 DEF Worker, WorkerDies, WorkerLeaves, TypeOK, Exists, Running
  <2>3. QED  BY <2>1, <2>2
<1>4. tab' = tab /\ Used' = Used /\ pc' = pc /\ job' = job /\ cur' = cur
  BY <1>1 DEF table, Used, control
<1>5. \A s \in Used : WarnedAt(s) => WarnedAt(s)'
  BY <1>1, <1>3, <1>4, WarnedKept
<1>6. TermRound' <=> TermRound
  BY <1>4 DEF TermRound
<1>7. QED  BY <1>1, <1>2, <1>4, <1>5, <1>6 DEF WarnInv

\* Every step keeps the invariant where no reload is asked for.
LEMMA WarnStep ==
  ASSUME "HUP" \notin OpSignals
  PROVE  IInv /\ Sound /\ WarnInv /\ [Next]_vars => WarnInv'
<1> SUFFICES ASSUME IInv, Sound, WarnInv, [Next]_vars PROVE WarnInv'
  OBVIOUS
<1>1. TypeOK
  BY DEF IInv
<1>2. CASE Arm \/ SigSuspend \/ Reap \/ Start
  BY <1>1, <1>2, ArmWarns, SigSuspendWarns, ReapWarns, StartWarns
<1>3. CASE Signal
  BY <1>3, SignalTellsWarns, SignalOtherWarns DEF Signal
<1>4. CASE Body
  BY <1>1, <1>4, TerminateWarns, BodyWarns
<1>5. CASE TimerFires \/ OperatorSignals \/ Worker \/ UNCHANGED vars
  BY <1>1, <1>5, AroundWarns
<1>6. QED  BY <1>2, <1>3, <1>4, <1>5 DEF Next, Master

\* At the start nobody is there to be told.
LEMMA WarnInit == Init => WarnInv
<1> SUFFICES ASSUME Init PROVE WarnInv
  OBVIOUS
<1>1. Used = {}
  BY DEF Init, Used
<1>2. QED  BY <1>1 DEF Init, WarnInv, TermRound, Unused

\* What a step of KILL finds.
LEMMA KillFinds ==
  ASSUME IInv, WarnInv, NEW p \in Pid, SignalKills, job = "KILL", Running(p), ~Running(p)'
  PROVE  "TERM" \in mail[p] \cup sig[p]
<1>1. /\ pc = "signal" /\ cur =< last /\ tab[cur].pid # NoPid
      /\ proc' = [proc EXCEPT ![tab[cur].pid] = "zombie"]
  BY DEF SignalKills, Signalling
<1>2. cur \in Used /\ p = tab[cur].pid
  <2>1. cur \in 1 .. last
    BY <1>1, CurrentEntry DEF IInv
  <2>2. p = tab[cur].pid
    BY <1>1 DEF Running, IInv, TypeOK
  <2>3. QED  BY <2>1, <2>2, <1>1 DEF Used
<1>3. delay # 0 /\ ~TermRound
  BY <1>1 DEF WarnInv, TermRound
<1>4. QED  BY <1>2, <1>3 DEF WarnInv, WarnedAt, Exists, Running

\* Where the operator asks for no reload, the master kills nobody it did not
\* tell to terminate before, as long as no spawn fails.
THEOREM KilledWorkerWasWarned ==
  ASSUME "HUP" \notin OpSignals
  PROVE  Spec /\ []NoneFailed => KilledWasWarned
<1>1. Inv /\ NoneFailed => IInv /\ Sound
  BY DEF Inv
<1>2. IInv /\ Sound /\ WarnInv /\ [Next]_vars => WarnInv'
  BY WarnStep
<1>3. Spec /\ []NoneFailed => []WarnInv
  BY <1>1, <1>2, SpawnsInvariance, WarnInit, PTL DEF Spec
<1>4. IInv /\ WarnInv /\ [Next]_vars =>
        [\A p \in Pid : SignalKills /\ job = "KILL" /\ Running(p) /\ ~Running(p)'
           => "TERM" \in mail[p] \cup sig[p]]_vars
  BY KillFinds
<1>5. QED  BY <1>1, <1>3, <1>4, SpawnsInvariance, PTL DEF Spec, KilledWasWarned
=============================================================================
