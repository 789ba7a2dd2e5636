----------------------------- MODULE ThreadPool -----------------------------
(***************************************************************************)
(* thread_pool.cpp: threads that take tasks from one list under a lock,    *)
(* and a count of the idle ones that is a plain unsigned char: -- and ++   *)
(* are a read and a write.  The constructor sets it to the size wanted.    *)
(***************************************************************************)
EXTENDS Naturals, Sequences, FiniteSets

CONSTANTS
  PoolThread,  \* the threads of the pool
  MaxTasks     \* bound: tasks added

ASSUME ThreadPoolAssumption ==
  IsFiniteSet(PoolThread) /\ Cardinality(PoolThread) < 256 /\ MaxTasks \in Nat

VARIABLES
  tasks,  \* the list, of task numbers
  stop,   \* stop
  idle,   \* idlethreadcount
  tpc,    \* where each thread is
  held,   \* the count a thread has read and is about to change
  mine,   \* the task a thread has taken, 0 if none
  begun,  \* history: how often each task was run, in the order they were added
  raced   \* history: whether two changes of the count overlapped

threadPoolVars == <<tasks, stop, idle, tpc, held, mine, begun, raced>>

ThreadPoolInit ==
  /\ tasks = <<>> /\ stop = FALSE
  /\ idle = Cardinality(PoolThread)
  /\ tpc = [t \in PoolThread |-> "loop"]
  /\ held = [t \in PoolThread |-> 0] /\ mine = [t \in PoolThread |-> 0]
  /\ begun = <<>> /\ raced = FALSE

Goes(t, from, to) == tpc[t] = from /\ tpc' = [tpc EXCEPT ![t] = to]

\* add_task, also after the destructor has begun.
AddTask ==
  /\ Len(begun) < MaxTasks
  /\ tasks' = Append(tasks, Len(begun) + 1)
  /\ begun' = Append(begun, 0)
  /\ UNCHANGED <<stop, idle, tpc, held, mine, raced>>

\* thread_work: the test of the loop comes before the lock and the wait, which
\* a notification or 500 microseconds end.
PassesLoop(t) ==
  /\ Goes(t, "loop", IF stop THEN "gone" ELSE "wait")
  /\ UNCHANGED <<tasks, stop, idle, held, mine, begun, raced>>

Take(t) ==
  /\ Goes(t, "wait", "idle--") /\ tasks # <<>>
  /\ mine' = [mine EXCEPT ![t] = Head(tasks)] /\ tasks' = Tail(tasks)
  /\ UNCHANGED <<stop, idle, held, begun, raced>>

TimesOut(t) ==
  /\ Goes(t, "wait", "loop") /\ tasks = <<>>
  /\ UNCHANGED <<tasks, stop, idle, held, mine, begun, raced>>

Changing == {"idle-- write", "idle++ write"}
Reads(t, from, to) ==
  /\ Goes(t, from, to)
  /\ held' = [held EXCEPT ![t] = idle]
  /\ raced' = (raced \/ \E u \in PoolThread \ {t} : tpc[u] \in Changing)
  /\ UNCHANGED <<tasks, stop, idle, mine, begun>>

LessIdleRead(t) == Reads(t, "idle--", "idle-- write")
MoreIdleRead(t) == Reads(t, "idle++", "idle++ write")

LessIdle(t) ==
  /\ Goes(t, "idle-- write", "handle")
  /\ idle' = (held[t] + 255) % 256
  /\ UNCHANGED <<tasks, stop, held, mine, begun, raced>>

\* handle: an exception of a task ends the process.
Handle(t) ==
  /\ Goes(t, "handle", "idle++")
  /\ begun' = [begun EXCEPT ![mine[t]] = @ + 1] /\ mine' = [mine EXCEPT ![t] = 0]
  /\ UNCHANGED <<tasks, stop, idle, held, raced>>

MoreIdleForgets(t) ==
  /\ Goes(t, "idle++ write", "loop")
  /\ UNCHANGED <<tasks, stop, idle, held, mine, begun, raced>>
MoreIdle(t) ==
  /\ Goes(t, "idle++ write", "loop")
  /\ idle' = (held[t] + 1) % 256
  /\ UNCHANGED <<tasks, stop, held, mine, begun, raced>>

\* ~thread_pool; it then joins every thread.
Stop ==
  /\ ~stop /\ stop' = TRUE
  /\ UNCHANGED <<tasks, idle, tpc, held, mine, begun, raced>>

ThreadPoolNext ==
  \/ AddTask \/ Stop
  \/ \E t \in PoolThread : PassesLoop(t) \/ Take(t) \/ TimesOut(t) \/ LessIdleRead(t) \/ LessIdle(t)
                           \/ Handle(t) \/ MoreIdleRead(t) \/ MoreIdle(t)

ThreadPoolSpec == ThreadPoolInit /\ [][ThreadPoolNext]_threadPoolVars

-----------------------------------------------------------------------------
Busy == {t \in PoolThread : tpc[t] \in {"handle", "idle++", "idle++ write"}}

\* The count of idle threads is that of the threads that are not at work, until
\* two changes of it overlapped (thread_work: the change is not atomic and not
\* under the lock); from then on it may be wrong for good.
IdleIsCounted == ~raced => idle = Cardinality(PoolThread) - Cardinality(Busy)

\* The list holds the tasks added last, in the order they were added; of those
\* before them each was run once or is with the one thread that took it: none is
\* lost or run twice, but for what the destructor leaves in the list
\* (thread_work, ~thread_pool).
OutOfList == Len(begun) - Len(tasks)
TasksKept ==
  /\ Len(tasks) <= Len(begun)
  /\ \A k \in 1..Len(tasks) : tasks[k] = OutOfList + k /\ begun[tasks[k]] = 0
  /\ \A i \in 1..OutOfList : begun[i] = IF \E t \in PoolThread : mine[t] = i THEN 0 ELSE 1
  /\ \A t \in PoolThread : mine[t] <= OutOfList
  /\ \A t, u \in PoolThread : mine[t] = mine[u] /\ mine[t] # 0 => t = u

\* The pool serves what was added, once and in order, and counts its idle
\* threads right as long as two changes of the count never met.
PoolServes == TasksKept /\ IdleIsCounted
=============================================================================
