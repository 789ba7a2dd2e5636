----------------------------- MODULE Supervisor -----------------------------
(***************************************************************************)
(* The master process of hystack on Unix: its signal loop                  *)
(* (nodes_cycle::master_process), the process table unix_processes[], the  *)
(* operations on that table (unix_spawn_process, signal_worker_process,    *)
(* unix_reap_children, unix_process_get_status) and the workers it forks.  *)
(*                                                                         *)
(* Every signal of the loop is blocked except inside sigsuspend, so the    *)
(* handlers run in SigSuspend only; a worker may die, the operator may     *)
(* send a signal and the interval timer may fire between any two steps of  *)
(* the loop, and each iteration over the table is a step of its own.       *)
(*                                                                         *)
(* A worker that decides to leave calls ::exit, whose static destructors   *)
(* join the logging thread; nobody interrupts that thread (see             *)
(* ErrorLog), so the worker stays in that join until it is killed: the *)
(* state "joining".  Exit statuses are therefore never seen by waitpid and *)
(* re_spawn keeps the value 1 that both spawn types give it.               *)
(*                                                                         *)
(* unix_channel_write hands sendmsg a msghdr whose control fields are      *)
(* uninitialised: on an open channel the call may succeed or fail.         *)
(***************************************************************************)
EXTENDS Integers, Sequences, FiniteSets

CONSTANTS
  Pid,              \* process ids fork may return, in the order it returns them
  ProcessesMax,     \* PROCESSES_MAX, the length of unix_processes[]
  Roles,            \* the worker cycles nodes_start_worker_process starts, in order, each once
  WorkerProcesses,  \* ccf->worker_processes
  FirstDelay,       \* delay of the first round of TERM, 50 ms in the code
  KillDelay,        \* delay beyond which KILL replaces TERM, 1000 ms in the code
  DelayCap,         \* bound: delay stops doubling here, above KillDelay
  Daemonized,       \* process_daemonized
  ParentIsLauncher, \* getppid() == process_parent
  OpSignals,        \* the signals the operator sends
  Budget            \* bound: crashes, failing inits and spawns, operator signals

Kinds  == {"crash", "init", "spawn", "signal"}
NoPid  == 0
NoChan == 0
Slot   == 1..ProcessesMax
RoleSet == {Roles[k] : k \in 1..Len(Roles)}

ASSUME PidAssumption    == Pid \subseteq Nat \ {NoPid}
ASSUME TableAssumption  == ProcessesMax \in Nat \ {0}
ASSUME RolesAssumption  ==
  /\ Roles \in Seq(STRING) /\ Len(Roles) > 0
  /\ \A i, j \in 1..Len(Roles) : Roles[i] = Roles[j] => i = j
ASSUME WorkerAssumption == WorkerProcesses \in Nat
ASSUME DelayAssumption  ==
  /\ FirstDelay \in Nat \ {0} /\ KillDelay \in Nat /\ DelayCap \in Nat
  /\ FirstDelay =< KillDelay /\ KillDelay < DelayCap
ASSUME SwitchAssumption == Daemonized \in BOOLEAN /\ ParentIsLauncher \in BOOLEAN
ASSUME SignalAssumption ==
  OpSignals \subseteq {"TERM", "QUIT", "HUP", "USR1", "USR2", "WINCH"}
ASSUME BudgetAssumption == Budget \in [Kinds -> Nat]

VARIABLES
  pc,        \* where the master is in its loop
  cur,       \* index of the loop that pc is in
  job,       \* what the start or signal loop is doing
  after,     \* where that loop returns to
  pending,   \* signals raised and not yet handled by the master
  flags,     \* the process_* variables the handlers set
  live,      \* the local variable live
  delay,     \* the local variable delay, in ms
  sigio,     \* the local variable sigio
  timer,     \* the interval timer: idle or armed
  newBinary, \* process_new_binary
  pidFile,   \* name the pid file has
  tab,       \* unix_processes[]
  last,      \* unix_process_last
  sock,      \* which worker reads the socket pair with this number
  mail,      \* commands written to a worker's channel and still in it
  sig,       \* signals delivered to a worker
  proc,      \* what the kernel knows of each process
  budget     \* faults and operator signals left

control == <<pc, cur, job, after>>
local   == <<live, delay, sigio, timer>>
binary  == <<newBinary, pidFile>>
table   == <<tab, last>>
kernel  == <<sock, mail, sig, proc>>
vars    == <<control, pending, flags, local, binary, table, kernel, budget>>

Commands == {"QUIT", "TERM", "USR1"}
Flags    == {"reap", "terminate", "quit", "reconfigure", "reopen",
             "change_binary", "no_accept", "sigalrm"}
Signals  == {"TERM", "QUIT", "HUP", "USR1", "USR2", "WINCH", "CHLD", "ALRM"}
Points   == {"arm", "suspend", "reap", "check", "terminate", "quit",
             "reconfigure", "reopen", "change_binary", "no_accept",
             "start", "signal", "exited"}
Entry    == [pid: Pid \cup {NoPid}, exited: BOOLEAN, exiting: BOOLEAN,
             just_spawn: BOOLEAN, chan: Slot \cup {NoChan},
             role: RoleSet \cup {"none"}]

Unused == [pid |-> NoPid, exited |-> FALSE, exiting |-> FALSE,
           just_spawn |-> FALSE, chan |-> NoChan, role |-> "none"]

Used == {s \in 1..last : tab[s].pid # NoPid}

\* The process exists: it runs, it waits in exit, or it waits to be reaped.
Exists(p)  == proc[p] \in {"run", "joining", "zombie"}
Running(p) == proc[p] \in {"run", "joining"}
Unborn(p)  == proc[p] = "none"

Stopping == flags \cap {"terminate", "quit"} # {}

Spend(kind) == /\ budget[kind] > 0
               /\ budget' = [budget EXCEPT ![kind] = @ - 1]

Goto(point) == pc' = point /\ cur' = 1 /\ job' = "none" /\ after' = "none"
Loop(point, what, return) ==
  pc' = point /\ cur' = 1 /\ job' = what /\ after' = return
NextSlot == cur' = cur + 1 /\ UNCHANGED <<pc, job, after>>

-----------------------------------------------------------------------------
(* Spawning: unix_spawn_process.                                           *)

IsFreeSlot(s) ==
  /\ s =< last + 1
  /\ s =< last => tab[s].pid = NoPid
  /\ \A r \in 1..(s - 1) : tab[r].pid # NoPid

IsNextPid(p) == Unborn(p) /\ \A q \in Pid : q < p => ~Unborn(q)

\* socketpair returns the lowest numbers that are not open.
IsNextChan(c, open) == open[c] = NoPid /\ \A d \in 1..(c - 1) : open[d] # NoPid

\* fork succeeded: the entry of slot s becomes e with the new process in it;
\* open is sock when the call is made.
Fork(s, e, open) ==
  \E p \in Pid, c \in Slot :
    /\ IsNextPid(p) /\ IsNextChan(c, open)
    /\ proc' = [proc EXCEPT ![p] = "run"]
    /\ sock' = [open EXCEPT ![c] = p]
    /\ tab' = [tab EXCEPT ![s] = [e EXCEPT !.pid = p, !.chan = c, !.exited = FALSE]]
    /\ last' = IF s > last THEN s ELSE last
    /\ UNCHANGED <<mail, sig, budget>>

\* socketpair failed and the entry keeps the channel it had, or fork failed
\* and the new pair was closed again without forgetting its numbers.
SpawnFails(s, had, open) ==
  /\ \/ Spend("spawn")
     \/ (\A p \in Pid : ~Unborn(p)) /\ UNCHANGED budget
  /\ \/ tab' = [tab EXCEPT ![s].chan = had]
     \/ \E c \in Slot : IsNextChan(c, open) /\ tab' = [tab EXCEPT ![s].chan = c]
  /\ sock' = open
  /\ UNCHANGED <<last, mail, sig, proc>>

-----------------------------------------------------------------------------
(* The handlers: unix_signal_handler and unix_process_get_status.          *)

Raises(s) ==
  CASE s = "TERM"  -> {"terminate"}
    [] s = "QUIT"  -> {"quit"}
    [] s = "HUP"   -> {"reconfigure"}
    [] s = "USR1"  -> {"reopen"}
    [] s = "USR2"  -> IF ParentIsLauncher \/ newBinary > 0 THEN {} ELSE {"change_binary"}
    [] s = "WINCH" -> IF Daemonized THEN {"no_accept"} ELSE {}
    [] s = "ALRM"  -> {"sigalrm"}
    [] OTHER       -> {"reap"}

\* Mutant of GetStatus: waitpid is called once, however many have died.
GetStatusOnce ==
  \E p \in Pid :
    /\ proc[p] = "zombie"
    /\ proc' = [proc EXCEPT ![p] = "gone"]
    /\ tab' = [s \in Slot |-> IF s \in Used /\ tab[s].pid = p
                               THEN [tab[s] EXCEPT !.exited = TRUE] ELSE tab[s]]

\* waitpid until it returns nothing: every zombie leaves the kernel's table
\* and the entry that holds its pid is marked exited.
GetStatus ==
  /\ proc' = [p \in Pid |-> IF proc[p] = "zombie" THEN "gone" ELSE proc[p]]
  /\ tab' = [s \in Slot |->
               IF s \in Used /\ proc[tab[s].pid] = "zombie"
               THEN [tab[s] EXCEPT !.exited = TRUE] ELSE tab[s]]

\* sigsuspend returns once a signal was handled; every pending one is.
SigSuspend ==
  /\ pc = "suspend" /\ pending # {}
  /\ pending' = {}
  /\ IF "CHLD" \in pending THEN GetStatus ELSE UNCHANGED <<proc, tab>>
  /\ LET raised == flags \cup UNION {Raises(s) : s \in pending}
     IN  /\ flags' = raised \ {"reap"}
         /\ IF "reap" \in raised
            THEN Loop("reap", "none", "check") /\ live' = 0
            ELSE Goto("check") /\ UNCHANGED live
  /\ UNCHANGED <<delay, sigio, timer, binary, last, sock, mail, sig, budget>>

\* Mutant of Arm: the delay is not doubled.
ArmKeepsDelay ==
  /\ pc = "arm"
  /\ IF delay = 0
     THEN UNCHANGED <<flags, sigio, timer>>
     ELSE /\ timer' = "armed"
          /\ flags' = flags \ {"sigalrm"}
          /\ sigio' = IF "sigalrm" \in flags THEN 0 ELSE sigio
  /\ Goto("suspend")
  /\ UNCHANGED <<pending, live, delay, binary, table, kernel, budget>>

\* The top of the loop: double the delay once it has passed, rearm the timer.
Arm ==
  /\ pc = "arm"
  /\ IF delay = 0
     THEN UNCHANGED <<flags, delay, sigio, timer>>
     ELSE /\ timer' = "armed"
          /\ flags' = flags \ {"sigalrm"}
          /\ IF "sigalrm" \in flags
             THEN /\ sigio' = 0
                  /\ delay' = IF 2 * delay =< DelayCap THEN 2 * delay ELSE DelayCap
             ELSE UNCHANGED <<delay, sigio>>
  /\ Goto("suspend")
  /\ UNCHANGED <<pending, live, binary, table, kernel, budget>>

-----------------------------------------------------------------------------
(* Reaping: unix_reap_children, one entry a step; its result is live.      *)

\* Mutant of ChannelClosed: the last entry's channel is closed instead.
LastChannelClosed(s) == [d \in Slot |-> IF d = tab[last].chan THEN NoPid ELSE sock[d]]

\* Whoever owns the descriptors the entry holds, they are closed.
ChannelClosed(s) == [d \in Slot |-> IF d = tab[s].chan THEN NoPid ELSE sock[d]]

ReapSkips ==
  /\ pc = "reap" /\ cur =< last
  /\ tab[cur].pid = NoPid \/ ~tab[cur].exited
  /\ live' = IF tab[cur].pid = NoPid THEN live ELSE 1
  /\ NextSlot
  /\ UNCHANGED <<pending, flags, delay, sigio, timer, binary, table, kernel, budget>>

Reaping == pc = "reap" /\ cur =< last /\ tab[cur].pid # NoPid /\ tab[cur].exited
Respawning == ~tab[cur].exiting /\ ~Stopping

ReapRespawns ==
  /\ Reaping /\ Respawning
  /\ Fork(cur, tab[cur], ChannelClosed(cur))
  /\ live' = 1
  /\ NextSlot
  /\ UNCHANGED <<pending, flags, delay, sigio, timer, binary>>

\* The entry stays marked exited and keeps its dead pid.
ReapFailsToRespawn ==
  /\ Reaping /\ Respawning
  /\ SpawnFails(cur, NoChan, ChannelClosed(cur))
  /\ NextSlot
  /\ UNCHANGED <<pending, flags, local, binary>>

\* Mutant of ReapFrees: the table is shortened whichever entry is freed.
ReapFreesByShrinking ==
  /\ Reaping /\ ~Respawning
  /\ sock' = ChannelClosed(cur)
  /\ last' = last - 1
  /\ tab' = [tab EXCEPT ![cur].chan = NoChan, ![cur].pid = NoPid]
  /\ NextSlot
  /\ UNCHANGED <<pending, flags, local, binary, mail, sig, proc, budget>>

\* The last entry is dropped from the table, any other becomes a hole in it.
ReapFrees ==
  /\ Reaping /\ ~Respawning
  /\ sock' = ChannelClosed(cur)
  /\ IF cur = last
     THEN /\ last' = last - 1
          /\ tab' = [tab EXCEPT ![cur].chan = NoChan]
     ELSE /\ last' = last
          /\ tab' = [tab EXCEPT ![cur].chan = NoChan, ![cur].pid = NoPid]
  /\ NextSlot
  /\ UNCHANGED <<pending, flags, local, binary, mail, sig, proc, budget>>

ReapDone ==
  /\ pc = "reap" /\ cur > last
  /\ Goto("check")
  /\ UNCHANGED <<pending, flags, local, binary, table, kernel, budget>>

-----------------------------------------------------------------------------
(* Signalling: signal_worker_process(job), one entry a step.               *)

SignalSkips ==
  /\ pc = "signal" /\ cur =< last
  /\ \/ tab[cur].pid = NoPid
     \/ ~tab[cur].just_spawn /\ tab[cur].exiting /\ job = "QUIT"
  /\ NextSlot
  /\ UNCHANGED <<pending, flags, local, binary, table, kernel, budget>>

\* A worker of this very reload is passed over once.
SignalSparesNew ==
  /\ pc = "signal" /\ cur =< last
  /\ tab[cur].pid # NoPid /\ tab[cur].just_spawn
  /\ tab' = [tab EXCEPT ![cur].just_spawn = FALSE]
  /\ NextSlot
  /\ UNCHANGED <<pending, flags, local, binary, last, kernel, budget>>

Signalling == /\ pc = "signal" /\ cur =< last
              /\ tab[cur].pid # NoPid /\ ~tab[cur].just_spawn
              /\ ~(tab[cur].exiting /\ job = "QUIT")

ChannelOpen(s) == tab[s].chan # NoChan /\ sock[tab[s].chan] # NoPid

\* Mutant of SignalWrites: a worker told to reopen its logs is marked exiting.
SignalWritesAlwaysExiting ==
  /\ Signalling /\ job \in Commands /\ ChannelOpen(cur)
  /\ mail' = [mail EXCEPT ![sock[tab[cur].chan]] = @ \cup {job}]
  /\ tab' = [tab EXCEPT ![cur].exiting = TRUE]
  /\ NextSlot
  /\ UNCHANGED <<pending, flags, local, binary, last, sock, sig, proc, budget>>

SignalWrites ==
  /\ Signalling /\ job \in Commands /\ ChannelOpen(cur)
  /\ mail' = [mail EXCEPT ![sock[tab[cur].chan]] = @ \cup {job}]
  /\ tab' = [tab EXCEPT ![cur].exiting = @ \/ job # "USR1"]
  /\ NextSlot
  /\ UNCHANGED <<pending, flags, local, binary, last, sock, sig, proc, budget>>

\* kill: always for KILL, for a command when the write failed, which it may
\* do on an open channel too.
SignalKills ==
  /\ Signalling /\ Exists(tab[cur].pid)
  /\ tab' = [tab EXCEPT ![cur].exiting = @ \/ job # "USR1"]
  /\ LET p == tab[cur].pid
     IN  IF job # "KILL"
         THEN sig' = [sig EXCEPT ![p] = @ \cup {job}] /\ UNCHANGED <<pending, proc>>
         ELSE /\ proc' = [proc EXCEPT ![p] = "zombie"]
              /\ pending' = IF Running(p) THEN pending \cup {"CHLD"} ELSE pending
              /\ UNCHANGED sig
  /\ NextSlot
  /\ UNCHANGED <<flags, local, binary, last, sock, mail, budget>>

\* kill failed with ESRCH: the process was waited for and not replaced.
SignalFindsNoProcess ==
  /\ Signalling /\ ~Exists(tab[cur].pid)
  /\ tab' = [tab EXCEPT ![cur].exited = TRUE, ![cur].exiting = FALSE]
  /\ flags' = flags \cup {"reap"}
  /\ NextSlot
  /\ UNCHANGED <<pending, local, binary, last, kernel, budget>>

SignalDone ==
  /\ pc = "signal" /\ cur > last
  /\ Goto(after)
  /\ UNCHANGED <<pending, flags, local, binary, table, kernel, budget>>

-----------------------------------------------------------------------------
(* Starting workers: nodes_start_worker_process, one role a step.          *)

StartWorker ==
  /\ pc = "start" /\ cur =< Len(Roles)
  /\ \E s \in Slot :
       /\ IsFreeSlot(s)
       /\ \/ Fork(s, [Unused EXCEPT !.role = Roles[cur],
                                    !.just_spawn = (job = "reload")], sock)
          \/ SpawnFails(s, tab[s].chan, sock)
  /\ NextSlot
  /\ UNCHANGED <<pending, flags, local, binary>>

StartFindsTableFull ==
  /\ pc = "start" /\ cur =< Len(Roles)
  /\ \A s \in Slot : ~IsFreeSlot(s)
  /\ NextSlot
  /\ UNCHANGED <<pending, flags, local, binary, table, kernel, budget>>

\* Mutant of StartDone: the workers found are not told to quit.
StartDoneTellsNobody ==
  /\ pc = "start" /\ cur > Len(Roles)
  /\ live' = IF job = "reload" THEN 1 ELSE live
  /\ Goto("arm")
  /\ UNCHANGED <<pending, flags, delay, sigio, timer, binary, table, kernel, budget>>

\* Only a reload tells the workers it found to quit and sets live.
StartDone ==
  /\ pc = "start" /\ cur > Len(Roles)
  /\ IF job = "reload"
     THEN live' = 1 /\ Loop("signal", "QUIT", after)
     ELSE live' = live /\ Goto("arm")
  /\ UNCHANGED <<pending, flags, delay, sigio, timer, binary, table, kernel, budget>>

-----------------------------------------------------------------------------
(* The body of the loop after sigsuspend, in its order.                    *)

\* core::delete_pid, called after the pool with the name of the file in it was
\* destroyed: the name may be read intact or not.  With process_new_binary set
\* it is that of the renamed file.
DeletePid ==
  \/ UNCHANGED pidFile
  \/ /\ pidFile = (IF newBinary # 0 THEN "oldbin" ELSE "pid")
     /\ pidFile' = "none"

\* Mutant of MasterExits: live is not looked at.
MasterExitsWithWorkers ==
  /\ pc = "check" /\ Stopping
  /\ DeletePid
  /\ Goto("exited")
  /\ UNCHANGED <<pending, flags, local, newBinary, table, kernel, budget>>

\* master_process_exit
MasterExits ==
  /\ pc = "check" /\ live = 0 /\ Stopping
  /\ DeletePid
  /\ Goto("exited")
  /\ UNCHANGED <<pending, flags, local, newBinary, table, kernel, budget>>

MasterGoesOn ==
  /\ pc = "check" /\ ~(live = 0 /\ Stopping)
  /\ Goto("terminate")
  /\ UNCHANGED <<pending, flags, local, binary, table, kernel, budget>>

\* Mutant of Terminate: the comparison with the longest delay is reversed.
TerminateReversed ==
  /\ pc = "terminate" /\ "terminate" \in flags
  /\ delay' = IF delay = 0 THEN FirstDelay ELSE delay
  /\ IF sigio > 0
     THEN sigio' = sigio - 1 /\ Goto("arm")
     ELSE /\ sigio' = WorkerProcesses + 2
          /\ Loop("signal", IF delay' < KillDelay THEN "KILL" ELSE "TERM", "quit")
  /\ UNCHANGED <<pending, flags, live, timer, binary, table, kernel, budget>>

Terminate ==
  /\ pc = "terminate" /\ "terminate" \in flags
  /\ delay' = IF delay = 0 THEN FirstDelay ELSE delay
  /\ IF sigio > 0
     THEN sigio' = sigio - 1 /\ Goto("arm")
     ELSE /\ sigio' = WorkerProcesses + 2
          /\ Loop("signal", IF delay' > KillDelay THEN "KILL" ELSE "TERM", "quit")
  /\ UNCHANGED <<pending, flags, live, timer, binary, table, kernel, budget>>

Quit ==
  /\ pc = "quit" /\ "quit" \in flags
  /\ Loop("signal", "QUIT", "arm")
  /\ UNCHANGED <<pending, flags, local, binary, table, kernel, budget>>

\* add_to_conf may fail, and then the old cycle is kept and nothing else done.
Reconfigure ==
  /\ pc = "reconfigure" /\ "reconfigure" \in flags
  /\ flags' = flags \ {"reconfigure"}
  /\ IF newBinary # 0
     THEN Loop("start", "rebinary", "arm")
     ELSE Loop("start", "reload", "reopen") \/ Goto("arm")
  /\ UNCHANGED <<pending, local, binary, table, kernel, budget>>

Reopen ==
  /\ pc = "reopen" /\ "reopen" \in flags
  /\ flags' = flags \ {"reopen"}
  /\ Loop("signal", "USR1", "change_binary")
  /\ UNCHANGED <<pending, local, binary, table, kernel, budget>>

\* core::exec_new_binary: process_mgr::execute starts nothing and returns 0;
\* the rename before it succeeds once.
ChangeBinary ==
  /\ pc = "change_binary" /\ "change_binary" \in flags
  /\ flags' = flags \ {"change_binary"}
  /\ IF pidFile = "pid"
     THEN pidFile' = "oldbin" /\ newBinary' = 0
     ELSE pidFile' = pidFile /\ newBinary' = -1
  /\ Goto("no_accept")
  /\ UNCHANGED <<pending, local, table, kernel, budget>>

NoAccept ==
  /\ pc = "no_accept" /\ "no_accept" \in flags
  /\ flags' = flags \ {"no_accept"}
  /\ Loop("signal", "QUIT", "arm")
  /\ UNCHANGED <<pending, local, binary, table, kernel, budget>>

Successor == [terminate |-> "quit", quit |-> "reconfigure",
              reconfigure |-> "reopen", reopen |-> "change_binary",
              change_binary |-> "no_accept", no_accept |-> "arm"]

NotAsked ==
  /\ pc \in DOMAIN Successor /\ pc \notin flags
  /\ Goto(Successor[pc])
  /\ UNCHANGED <<pending, flags, local, binary, table, kernel, budget>>

-----------------------------------------------------------------------------
(* What happens around the master.                                         *)

TimerFires ==
  /\ timer = "armed" /\ pc # "exited"
  /\ timer' = "idle"
  /\ pending' = pending \cup {"ALRM"}
  /\ UNCHANGED <<control, flags, live, delay, sigio, binary, table, kernel, budget>>

OperatorSignals ==
  /\ pc # "exited"
  /\ Spend("signal")
  /\ \E s \in OpSignals : pending' = pending \cup {s}
  /\ UNCHANGED <<control, flags, local, binary, table, kernel>>

\* A worker dies of a fault, or of a KILL nobody here sent.
WorkerDies(p) ==
  /\ Running(p)
  /\ Spend("crash")
  /\ proc' = [proc EXCEPT ![p] = "zombie"]
  /\ pending' = IF pc = "exited" THEN pending ELSE pending \cup {"CHLD"}
  /\ UNCHANGED <<control, flags, local, binary, table, sock, mail, sig>>

\* The cycle of a worker sees process_terminate or process_quit, or the
\* initialisation of the worker failed: it calls exit and waits in it.
WorkerLeaves(p) ==
  /\ proc[p] = "run"
  /\ \/ sig[p] \cap {"TERM", "QUIT"} # {} /\ UNCHANGED budget
     \/ Spend("init")
  /\ proc' = [proc EXCEPT ![p] = "joining"]
  /\ UNCHANGED <<control, pending, flags, local, binary, table, sock, mail, sig>>

-----------------------------------------------------------------------------
Init ==
  /\ pc = "start" /\ cur = 1 /\ job = "first" /\ after = "arm"
  /\ pending = {} /\ flags = {}
  /\ live = 1 /\ delay = 0 /\ sigio = 0 /\ timer = "idle"
  /\ newBinary = 0 /\ pidFile = "pid"
  /\ tab = [s \in Slot |-> Unused] /\ last = 0
  /\ sock = [c \in Slot |-> NoPid]
  /\ mail = [p \in Pid |-> {}] /\ sig = [p \in Pid |-> {}]
  /\ proc = [p \in Pid |-> "none"]
  /\ budget = Budget

Reap    == ReapSkips \/ ReapRespawns \/ ReapFailsToRespawn \/ ReapFrees \/ ReapDone
Signal  == SignalSkips \/ SignalSparesNew \/ SignalWrites \/ SignalKills
           \/ SignalFindsNoProcess \/ SignalDone
Start   == StartWorker \/ StartFindsTableFull \/ StartDone
Body    == MasterExits \/ MasterGoesOn \/ Terminate \/ Quit \/ Reconfigure
           \/ Reopen \/ ChangeBinary \/ NoAccept \/ NotAsked
Master  == Arm \/ SigSuspend \/ Reap \/ Signal \/ Start \/ Body
Worker  == \E p \in Pid : WorkerDies(p) \/ WorkerLeaves(p)

Next == Master \/ TimerFires \/ OperatorSignals \/ Worker

Spec == Init /\ [][Next]_vars

\* The master is scheduled and its timer expires; nothing makes a worker die
\* or the operator act.
FairSpec == Spec /\ WF_vars(Master) /\ WF_vars(TimerFires)

-----------------------------------------------------------------------------
(* Properties.                                                             *)

\* Every variable has its type.
TypeOK ==
  /\ pc \in Points /\ cur \in Nat \ {0} /\ after \in Points \cup {"none"}
  /\ job \in Commands \cup {"KILL", "first", "rebinary", "reload", "none"}
  /\ pending \subseteq Signals /\ flags \subseteq Flags
  /\ live \in {0, 1} /\ delay \in Nat /\ sigio \in Nat /\ timer \in {"idle", "armed"}
  /\ newBinary \in {0, -1} /\ pidFile \in {"pid", "oldbin", "none"}
  /\ tab \in [Slot -> Entry] /\ last \in 0..ProcessesMax
  /\ sock \in [Slot -> Pid \cup {NoPid}]
  /\ mail \in [Pid -> SUBSET Commands] /\ sig \in [Pid -> SUBSET Commands]
  /\ proc \in [Pid -> {"none", "run", "joining", "zombie", "gone"}]
  /\ budget \in [Kinds -> Nat]

\* No child is ever lost: a process that exists has an entry that is not
\* marked exited, whatever respawns, reuses of holes and failed forks did.
Tracked == \A p \in Pid : Exists(p) => \E s \in Used : tab[s].pid = p /\ ~tab[s].exited

\* The master leaves no child behind when it exits on a stop or a quit,
\* unless a second USR2 set process_new_binary to -1.
NoOrphan == pc = "exited" /\ newBinary = 0 => \A p \in Pid : ~Exists(p)

\* The loops of signal_worker_process and nodes_start_worker_process have
\* something to do and a place to return to.
LoopOK ==
  /\ pc \in {"signal", "start"} =>
       after \in {"arm", "quit", "reopen", "change_binary"}
  /\ pc = "signal" => job \in Commands \cup {"KILL"}
  /\ pc = "start" => job \in {"first", "rebinary", "reload"}

\* What live = 0 means: every entry that is left is marked exited; inside
\* unix_reap_children, every entry already passed.  A reload starts workers
\* before it sets live again, a start under a new binary never sets it.  The
\* new binary is given up for good: its pid file keeps the other name.
LiveOK ==
  /\ pc = "start" /\ job = "first" => live = 1
  /\ pc = "start" /\ job = "rebinary" => newBinary # 0
  /\ pc = "reap" /\ live = 0 => \A s \in Used : s < cur => tab[s].exited
  /\ pc \notin {"reap", "start"} /\ live = 0 /\ newBinary = 0 =>
       \A s \in Used : tab[s].exited
  /\ pc = "exited" => live = 0
  /\ newBinary # 0 => pidFile # "pid"

\* The inductive invariant behind Tracked and NoOrphan.
IInv == TypeOK /\ LoopOK /\ Tracked /\ LiveOK

\* No two entries hold the numbers of the same channel, so that no command
\* reaches another worker and closing one entry's channel spares the others.
ChannelsApart ==
  \A s, t \in Used : tab[s].chan = tab[t].chan /\ tab[s].chan # NoChan => s = t

\* A worker the table says is leaving and that still runs was told to.
ExitingWasTold ==
  \A s \in Used : tab[s].exiting /\ Running(tab[s].pid)
    => (mail[tab[s].pid] \cup sig[tab[s].pid]) \cap {"QUIT", "TERM"} # {}

\* Between two iterations no entry is still marked just_spawn, which would
\* hide its worker from the next stop (core_cycle.cpp:196).
SparedOnce == pc = "suspend" => \A s \in Used : ~tab[s].just_spawn

\* Between two iterations nobody is spared any more and every role has at
\* most one worker that is not told to leave: reloads and respawns together
\* never double a role.
OneActivePerRole ==
  /\ SparedOnce
  /\ pc = "suspend" /\ newBinary = 0 =>
       \A s, t \in Used :
         /\ tab[s].role = tab[t].role
         /\ ~tab[s].exiting /\ ~tab[t].exiting
         => s = t

\* The master kills only a worker that it told to terminate before.
KilledWasWarned ==
  [][\A p \in Pid : SignalKills /\ job = "KILL" /\ Running(p) /\ ~Running(p)'
       => "TERM" \in mail[p] \cup sig[p]]_vars

Served(r) == \E s \in Used :
  tab[s].role = r /\ ~tab[s].exiting /\ proc[tab[s].pid] = "run"

\* Every role gets a worker again after its worker died.
EveryRoleServed == \A r \in RoleSet : ~Served(r) ~> Served(r) \/ Stopping

\* A stop ends: the rounds of TERM turn into KILL and the master exits.
StopCompletes == "terminate" \in flags ~> pc = "exited"

\* A quit ends.
QuitCompletes == "quit" \in flags ~> pc = "exited"
=============================================================================
