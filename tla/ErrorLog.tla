------------------------------ MODULE ErrorLog ------------------------------
(***************************************************************************)
(* The error log of a worker process: logs_print and its buffer            *)
(* (logs_handler_write_buffer), the thread that writes the buffer to the   *)
(* file (logs_print_task on the thread_task logs_thread), the signal       *)
(* handler that logs too, and the end of the process.                      *)
(*                                                                         *)
(* errlog_init_process gives logs_thread the task logs_print_task, which   *)
(* loops while logs_thread_tasks_flag is set; errlog_exit_process clears   *)
(* the flag; ::exit then destroys the static logs_thread, whose destructor *)
(* joins the thread.  No one calls set_interupt or notify on it.           *)
(*                                                                         *)
(* One configured log is modelled, with records of its level.  A record is *)
(* its number; its bytes are counted, not kept.                            *)
(***************************************************************************)
EXTENDS ThreadTask

CONSTANTS
  Log,         \* the thread_task logs_thread
  PrintTask,   \* logs_thread_task
  PageSize,    \* const_logs_page_size
  Slack,       \* room kept for what logs_stream adds, 0x3f
  Prefix,      \* what logs_stream adds: time, process, level, newline
  SizeMod,     \* number of values of the u_short size
  MaxFile,     \* LOG_MAX_FILESIZE
  Lengths,     \* lengths of the messages
  Inherited,   \* what the buffer held when the master forked the worker
  OpenMayFail, \* opening the file may fail
  MaxRecords,  \* bound: records after which the main thread logs no more
  MaxSignals   \* bound: signals the worker gets

ASSUME LogAssumption    == Thread = {Log} /\ Item = {PrintTask}
ASSUME SizeAssumption   ==
  /\ PageSize \in Nat /\ Slack \in Nat /\ Prefix \in 0..Slack
  /\ SizeMod \in Nat \ {0} /\ MaxFile \in Nat
  /\ Lengths \subseteq 0..(SizeMod - 1)
ASSUME BufferAssumption ==
  /\ Inherited \in [recs: Seq({0}), used: 0..(PageSize + 1)]
  /\ OpenMayFail \in BOOLEAN /\ MaxRecords \in Nat /\ MaxSignals \in Nat

VARIABLES
  wpc,     \* the worker: init, started, cycle, exit, exited, crashed
  flag,    \* logs_thread_tasks_flag
  round,   \* logs_print_task::run has read the flag and not yet flushed
  freed,   \* the pool that holds the log and its buffer was destroyed
  mutex,   \* who holds log->mutex: free, main, handler
  handlers, \* the signal handlers on the main thread, the innermost last:
            \* each wants the mutex or holds it
  buffer,  \* the records between ptr_start and ptr_last, and their bytes
  disk,    \* the file, its size, and the file kept as .bak
  printed, \* records logged so far
  signals  \* signals got so far

logVars == <<round, mutex, handlers, buffer, disk, printed, signals>>
vars    == <<threadVars, wpc, flag, freed, logVars>>

Capacity == PageSize + 1

\* The code that runs on the main thread is its own.
Uninterrupted == handlers = <<>>

Innermost == handlers[Len(handlers)]

-----------------------------------------------------------------------------
(* Writing.                                                                *)

\* logs_stream::write appends and renames a file that was too long before.
Written(d, recs, bytes) ==
  IF d.size > MaxFile
  THEN [file |-> <<>>, size |-> 0, bak |-> d.file \o recs]
  ELSE [d EXCEPT !.file = @ \o recs, !.size = @ + bytes]

\* What is on disk after a write: as before when the file cannot be opened.
Outcomes(d, recs, bytes) ==
  {Written(d, recs, bytes)} \cup (IF OpenMayFail THEN {d} ELSE {})

\* Mutant of WriteBuffer: no room is kept for what logs_stream adds.
WriteBufferWithoutSlack(len) ==
  LET rec  == <<printed + 1>>
      need == len % SizeMod
      full == need > Capacity - buffer.used
      room == IF full THEN [recs |-> <<>>, used |-> 0] ELSE buffer
  IN  /\ disk' \in IF full THEN Outcomes(disk, rec, len + Prefix) ELSE {disk}
      /\ buffer' = [recs |-> room.recs \o rec, used |-> room.used + len + Prefix]
      /\ printed' = printed + 1

\* Mutant of WriteBuffer: the record that does not fit goes to the file ahead
\* of the buffered ones, which stay.
WriteBufferAhead(len) ==
  LET rec == <<printed + 1>>
  IN  /\ IF (len % SizeMod) + Slack > Capacity - buffer.used
         THEN disk' \in Outcomes(disk, rec, len + Prefix) /\ UNCHANGED buffer
         ELSE /\ disk' = disk
              /\ buffer' = [recs |-> buffer.recs \o rec, used |-> buffer.used + len + Prefix]
      /\ printed' = printed + 1

\* logs_handler_write_buffer on a message of this length.  A record that does
\* not fit goes to the file, the buffer is emptied and the record put in it.
WriteBuffer(len) ==
  LET rec  == <<printed + 1>>
      need == (len % SizeMod) + Slack
      full == need > Capacity - buffer.used
      long == need > PageSize
      room == IF full THEN [recs |-> <<>>, used |-> 0] ELSE buffer
  IN  /\ \E d \in IF full THEN Outcomes(disk, rec, len + Prefix) ELSE {disk} :
           disk' \in IF long THEN Outcomes(d, rec, len + Prefix) ELSE {d}
      /\ buffer' = IF long THEN [recs |-> <<>>, used |-> 0]
                   ELSE [recs |-> room.recs \o rec, used |-> room.used + len + Prefix]
      /\ printed' = printed + 1

\* logs_print on the main thread takes the mutex, writes and gives it back; a
\* signal may come in between.
PrintLocks ==
  /\ wpc = "cycle" /\ Uninterrupted /\ mutex = "free" /\ printed < MaxRecords
  /\ mutex' = "main"
  /\ UNCHANGED <<round, handlers, buffer, disk, printed, signals>>

PrintWrites ==
  /\ mutex = "main" /\ Uninterrupted
  /\ \E len \in Lengths : WriteBuffer(len)
  /\ mutex' = "free"
  /\ UNCHANGED <<round, handlers, signals>>

\* unix_signal_handler interrupts the main thread, wherever it is, and logs
\* (its three messages are one here).  Its mask is empty: a signal of another
\* kind interrupts the handler too, and runs it again on top.
SignalArrives ==
  /\ wpc # "exited" /\ signals < MaxSignals
  /\ signals' = signals + 1
  /\ handlers' = Append(handlers, "wants")
  /\ UNCHANGED <<round, mutex, buffer, disk, printed>>

HandlerLocks ==
  /\ ~Uninterrupted /\ Innermost = "wants" /\ mutex = "free"
  /\ handlers' = [handlers EXCEPT ![Len(handlers)] = "holds"] /\ mutex' = "handler"
  /\ UNCHANGED <<round, buffer, disk, printed, signals>>

\* Mutant of HandlerWrites: an early return leaves the mutex locked.
HandlerKeepsMutex ==
  /\ ~Uninterrupted /\ Innermost = "holds"
  /\ \E len \in Lengths : WriteBuffer(len)
  /\ handlers' = SubSeq(handlers, 1, Len(handlers) - 1)
  /\ UNCHANGED <<round, mutex, signals>>

HandlerWrites ==
  /\ ~Uninterrupted /\ Innermost = "holds"
  /\ \E len \in Lengths : WriteBuffer(len)
  /\ handlers' = SubSeq(handlers, 1, Len(handlers) - 1) /\ mutex' = "free"
  /\ UNCHANGED <<round, signals>>

\* logs_print_task::run: the flag is read, then the buffer written and emptied
\* under the mutex.
RoundStarts ==
  /\ rpc[Log] = "run" /\ flag /\ ~round
  /\ round' = TRUE
  /\ UNCHANGED <<mutex, handlers, buffer, disk, printed, signals>>

Flush ==
  /\ round /\ mutex = "free"
  /\ round' = FALSE
  /\ disk' \in Outcomes(disk, buffer.recs, buffer.used)
  /\ buffer' = [recs |-> <<>>, used |-> 0]
  /\ UNCHANGED <<mutex, handlers, printed, signals>>

\* The loop is left once the flag is read cleared; nothing is flushed then.
PrintTaskEnds == ~round /\ ~flag /\ FinishTask(Log)

-----------------------------------------------------------------------------
(* The worker's main thread, between its log calls.                        *)

Free == Uninterrupted /\ mutex # "main"

InitProcess ==
  /\ wpc = "init" /\ Free
  /\ flag' = TRUE
  /\ AddTask(Log, PrintTask)
  /\ wpc' = "started"
  /\ UNCHANGED freed

InitStarts ==
  /\ wpc = "started" /\ Free
  /\ StartThread(Log)
  /\ wpc' = "cycle"
  /\ UNCHANGED <<flag, freed>>

\* nodes_worker_process_exit: exit_process of every module, then the pool of
\* the cycle is destroyed and ::exit called.
WorkerExit ==
  /\ wpc = "cycle" /\ Free
  /\ flag' = FALSE
  /\ freed' = TRUE
  /\ wpc' = "exit"
  /\ UNCHANGED threadVars

\* The exit(2) of nodes_worker_process_init, with errlog initialised.
InitFails ==
  /\ wpc = "cycle" /\ Free
  /\ wpc' = "exit"
  /\ UNCHANGED <<threadVars, flag, freed>>

\* Mutant of JoinReturns: the thread is detached instead.
JoinDetaches ==
  /\ wpc = "exit" /\ Free
  /\ wpc' = "exited"
  /\ UNCHANGED <<threadVars, flag, freed>>

\* The destructor of logs_thread.
JoinReturns ==
  /\ wpc = "exit" /\ Free /\ Joined(Log)
  /\ wpc' = "exited"
  /\ UNCHANGED <<threadVars, flag, freed>>

\* The log, its mutex and its buffer are used in freed memory: they may still
\* read as before (the other actions) or bring the process down.
UseOfFreed ==
  /\ freed /\ (round \/ ~Uninterrupted)
  /\ wpc' = "crashed"
  /\ UNCHANGED <<threadVars, flag, freed>>

Main   == UseOfFreed \/ InitProcess \/ InitStarts \/ WorkerExit \/ InitFails \/ JoinReturns
Writer == PrintLocks \/ PrintWrites \/ SignalArrives \/ HandlerLocks \/ HandlerWrites
Rounds == RoundStarts \/ Flush
Runner == ThreadStep(Log) \/ PrintTaskEnds

Init ==
  /\ ThreadInit /\ wpc = "init" /\ flag = FALSE /\ round = FALSE /\ freed = FALSE
  /\ mutex = "free" /\ handlers = <<>>
  /\ buffer = Inherited
  /\ disk = [file |-> <<>>, size |-> 0, bak |-> <<>>]
  /\ printed = 0 /\ signals = 0

Alive == wpc # "crashed"

Next == \/ Alive /\ Main /\ UNCHANGED logVars
        \/ Alive /\ (Writer \/ Rounds) /\ UNCHANGED <<threadVars, wpc, flag, freed>>
        \/ Alive /\ (Runner \/ WakeSpuriously(Log)) /\ UNCHANGED <<wpc, flag, freed, logVars>>

Spec == Init /\ [][Next]_vars

\* The thread runs, and a thread that has the mutex gives it back.
FairSpec ==
  /\ Spec
  /\ WF_vars((InitProcess \/ InitStarts \/ JoinReturns) /\ UNCHANGED logVars)
  /\ WF_vars(Alive /\ Runner /\ UNCHANGED <<wpc, flag, freed, logVars>>)
  /\ WF_vars(Alive /\ Rounds /\ UNCHANGED <<threadVars, wpc, flag, freed>>)
  /\ WF_vars(/\ Alive /\ (PrintWrites \/ HandlerLocks \/ HandlerWrites)
             /\ UNCHANGED <<threadVars, wpc, flag, freed>>)

-----------------------------------------------------------------------------
(* Properties.                                                             *)

TypeOK ==
  /\ ThreadTypeOK
  /\ wpc \in {"init", "started", "cycle", "exit", "exited", "crashed"}
  /\ flag \in BOOLEAN /\ round \in BOOLEAN /\ freed \in BOOLEAN
  /\ mutex \in {"free", "main", "handler"} /\ handlers \in Seq({"wants", "holds"})
  /\ buffer \in [recs: Seq(Nat), used: Nat]
  /\ disk \in [file: Seq(Nat), size: Nat, bak: Seq(Nat)]
  /\ printed \in Nat /\ signals \in Nat

\* A worker that calls exit never gets out of it: the thread it joins waits on
\* a condition nobody signals.  The state "joining" of Supervisor rests on this.
NeverLeaves == wpc # "exited"

\* memcpy stays inside the buffer, whatever the lengths of the messages, as
\* long as they fit the u_short they are passed in.
BufferFits == buffer.used =< Capacity

Ordered(s) == \A i, j \in 1..Len(s) : i =< j => s[i] =< s[j]

\* In an ordered sequence: no record but an inherited one is there three times.
TwiceAtMost(s) == \A i \in 1..(Len(s) - 2) : s[i] = s[i + 2] => s[i] = 0

\* The records come to disk in the order in which they were logged, whichever
\* of the flush, the overflow and the long record writes them, and none more
\* than twice.
DiskOrdered ==
  LET recs == (disk.bak \o disk.file) \o buffer.recs IN
  Ordered(recs) /\ TwiceAtMost(recs)

\* The innermost handler waits for the mutex of the code it interrupted, which
\* is the main thread's own or a handler's.
SelfDeadlock ==
  ~Uninterrupted /\ Innermost = "wants" /\ (mutex = "main" \/ \E h \in 1..(Len(handlers) - 1) : handlers[h] = "holds")

\* What is buffered leaves the buffer, unless the worker is on its way out or
\* its own signal handler has blocked it.
BufferDrains ==
  buffer.recs # <<>> ~> buffer.recs = <<>> \/ wpc \in {"exit", "crashed"} \/ SelfDeadlock
=============================================================================
