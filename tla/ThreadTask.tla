----------------------------- MODULE ThreadTask -----------------------------
(***************************************************************************)
(* The class thread_task: one worker thread with a task list, a mutex, a   *)
(* condition variable and an atomic flag.  Objects are indexed by Thread;  *)
(* the modules that own them (ThreadCollection, ErrorLog) extend this  *)
(* one with the caller's side.                                             *)
(*                                                                         *)
(* The mutex is held by the thread itself exactly between the evaluation   *)
(* of the wait predicate and the wait, or the end of the pop; add_task     *)
(* holds it for its whole body and is one step.  set_interupt and notify   *)
(* do not take it.                                                         *)
(***************************************************************************)
EXTENDS Integers, Sequences

CONSTANTS
  Thread,   \* the thread_task objects
  Item,     \* the tasks given to them
  NoItem    \* no task

ASSUME ItemAssumption == NoItem \notin Item

VARIABLES
  rpc,      \* where the thread of an object is
  tasks,    \* the list tasks
  running,  \* the task the thread has taken and not finished
  interupt  \* the flag interupt

threadVars == <<rpc, tasks, running, interupt>>

ThreadPoints == {"new", "test", "lock", "block", "waiting", "take", "run", "done"}

Locked(i) == rpc[i] \in {"block", "take"}

At(i, from, to) == rpc[i] = from /\ rpc' = [rpc EXCEPT ![i] = to]

\* notify_one moves a waiting thread on to its mutex and is lost otherwise.
Woken(i) == IF rpc[i] = "waiting" THEN [rpc EXCEPT ![i] = "lock"] ELSE rpc

-----------------------------------------------------------------------------
(* The callers' operations.                                                *)

StartThread(i) ==
  /\ At(i, "new", "test")
  /\ UNCHANGED <<tasks, running, interupt>>

\* Mutant of AddTask: the thread is not notified.
AddTaskSilently(i, t) ==
  /\ ~Locked(i)
  /\ tasks' = [tasks EXCEPT ![i] = Append(@, t)]
  /\ UNCHANGED <<rpc, running, interupt>>

AddTask(i, t) ==
  /\ ~Locked(i)
  /\ tasks' = [tasks EXCEPT ![i] = Append(@, t)]
  /\ rpc' = Woken(i)
  /\ UNCHANGED <<running, interupt>>

SetInterupt(i) ==
  /\ interupt' = [interupt EXCEPT ![i] = TRUE]
  /\ UNCHANGED <<rpc, tasks, running>>

Notify(i) ==
  /\ rpc' = Woken(i)
  /\ UNCHANGED <<tasks, running, interupt>>

\* join returns only then.
Joined(i) == rpc[i] = "done"

-----------------------------------------------------------------------------
(* The thread: the lambda of thread_task::start.                           *)

TestInterupt(i) ==
  /\ \/ interupt[i]  /\ At(i, "test", "done")
     \/ ~interupt[i] /\ At(i, "test", "lock")
  /\ UNCHANGED <<tasks, running, interupt>>

\* Mutant of EvaluatePredicate: the predicate does not look at the tasks.
EvaluateInterupt(i) ==
  /\ IF interupt[i] THEN At(i, "lock", "take") ELSE At(i, "lock", "block")
  /\ UNCHANGED <<tasks, running, interupt>>

\* With the mutex, the predicate of cond.wait.
EvaluatePredicate(i) ==
  /\ IF interupt[i] \/ tasks[i] # <<>> THEN At(i, "lock", "take") ELSE At(i, "lock", "block")
  /\ UNCHANGED <<tasks, running, interupt>>

\* The wait releases the mutex; what happened since the predicate was
\* evaluated without the mutex has gone unnoticed.
Block(i) ==
  /\ At(i, "block", "waiting")
  /\ UNCHANGED <<tasks, running, interupt>>

\* The wait may return without a notification.
WakeSpuriously(i) ==
  /\ At(i, "waiting", "lock")
  /\ UNCHANGED <<tasks, running, interupt>>

\* Mutant of TakeTask: the list is taken from its end.
TakeLast(i) ==
  /\ tasks[i] # <<>>
  /\ At(i, "take", "run")
  /\ running' = [running EXCEPT ![i] = tasks[i][Len(tasks[i])]]
  /\ tasks' = [tasks EXCEPT ![i] = SubSeq(@, 1, Len(@) - 1)]
  /\ UNCHANGED interupt

TakeTask(i) ==
  /\ tasks[i] # <<>>
  /\ At(i, "take", "run")
  /\ running' = [running EXCEPT ![i] = Head(tasks[i])]
  /\ tasks' = [tasks EXCEPT ![i] = Tail(@)]
  /\ UNCHANGED interupt

TakeNothing(i) ==
  /\ tasks[i] = <<>>
  /\ At(i, "take", "test")
  /\ UNCHANGED <<tasks, running, interupt>>

FinishTask(i) ==
  /\ At(i, "run", "test")
  /\ running' = [running EXCEPT ![i] = NoItem]
  /\ UNCHANGED <<tasks, interupt>>

\* What the thread does of itself, apart from ending its task.
ThreadStep(i) == TestInterupt(i) \/ EvaluatePredicate(i) \/ Block(i)
                 \/ TakeTask(i) \/ TakeNothing(i)

ThreadInit ==
  /\ rpc = [i \in Thread |-> "new"]
  /\ tasks = [i \in Thread |-> <<>>]
  /\ running = [i \in Thread |-> NoItem]
  /\ interupt = [i \in Thread |-> FALSE]

ThreadTypeOK ==
  /\ rpc \in [Thread -> ThreadPoints]
  /\ tasks \in [Thread -> Seq(Item)]
  /\ running \in [Thread -> Item \cup {NoItem}]
  /\ interupt \in [Thread -> BOOLEAN]
=============================================================================
