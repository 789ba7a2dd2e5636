-------------------------- MODULE ThreadCollection --------------------------
(***************************************************************************)
(* thread_collection: Size thread_task objects, tasks dispatched to them   *)
(* by index modulo Size, and a destructor that sets every flag, notifies   *)
(* every thread and then joins them in turn.                               *)
(*                                                                         *)
(* A task is the pair of its index and its rank among the tasks of that    *)
(* index.  Dispatchers run concurrently with the threads; the object is    *)
(* destroyed only when nobody dispatches any more.                         *)
(***************************************************************************)
EXTENDS ThreadTask, FiniteSets

CONSTANTS
  Size,      \* number of threads, a uint8_t
  Index,     \* the indices tasks are dispatched under
  MaxTasks   \* bound: tasks dispatched under one index

ASSUME SizeAssumption  == Size \in 1..255 /\ Thread = 0..(Size - 1)
ASSUME IndexAssumption == Index \subseteq Nat
ASSUME BoundAssumption == MaxTasks \in Nat
ASSUME TaskAssumption  == Item = Index \X (1..MaxTasks)

VARIABLES
  opc,   \* where the owner is: create, open, interupt, notify, join, gone
  cur,   \* the thread its loop has come to
  given  \* tasks dispatched so far under an index

vars == <<threadVars, opc, cur, given>>

Hashcode(k) == k % Size

\* The constructor starts the threads one after the other.
CreateThread ==
  /\ opc = "create"
  /\ StartThread(cur)
  /\ IF cur = Size - 1 THEN cur' = 0 /\ opc' = "open" ELSE cur' = cur + 1 /\ opc' = opc
  /\ UNCHANGED given

Dispatch(k) ==
  /\ opc = "open" /\ given[k] < MaxTasks
  /\ given' = [given EXCEPT ![k] = @ + 1]
  /\ AddTask(Hashcode(k), <<k, given'[k]>>)
  /\ UNCHANGED <<opc, cur>>

Destroy ==
  /\ opc = "open"
  /\ opc' = "interupt"
  /\ UNCHANGED <<threadVars, cur, given>>

\* Mutant of DestroyInterupts: the flag is not set.
DestroyInteruptsNone ==
  /\ opc = "interupt"
  /\ opc' = "notify"
  /\ UNCHANGED <<threadVars, cur, given>>

DestroyInterupts ==
  /\ opc = "interupt"
  /\ SetInterupt(cur)
  /\ opc' = "notify"
  /\ UNCHANGED <<cur, given>>

DestroyNotifies ==
  /\ opc = "notify"
  /\ Notify(cur)
  /\ IF cur = Size - 1 THEN cur' = 0 /\ opc' = "join" ELSE cur' = cur + 1 /\ opc' = "interupt"
  /\ UNCHANGED given

\* Mutant of DestroyJoins: the threads are detached instead.
DestroyDetaches ==
  /\ opc = "join"
  /\ IF cur = Size - 1 THEN cur' = 0 /\ opc' = "gone" ELSE cur' = cur + 1 /\ opc' = opc
  /\ UNCHANGED <<threadVars, given>>

DestroyJoins ==
  /\ opc = "join" /\ Joined(cur)
  /\ IF cur = Size - 1 THEN cur' = 0 /\ opc' = "gone" ELSE cur' = cur + 1 /\ opc' = opc
  /\ UNCHANGED <<threadVars, given>>

Owner == CreateThread \/ DestroyInterupts \/ DestroyNotifies \/ DestroyJoins

\* The tasks of this owner end.
Runner(i) == ThreadStep(i) \/ FinishTask(i)

Init == ThreadInit /\ opc = "create" /\ cur = 0 /\ given = [k \in Index |-> 0]

Next == \/ Owner \/ Destroy
        \/ \E k \in Index : Dispatch(k)
        \/ \E i \in Thread : (Runner(i) \/ WakeSpuriously(i)) /\ UNCHANGED <<opc, cur, given>>

Spec == Init /\ [][Next]_vars

\* Threads and the owner are scheduled; nothing dispatches, destroys or wakes
\* a thread without reason.
FairSpec == /\ Spec /\ WF_vars(Owner)
            /\ \A i \in Thread : WF_vars(Runner(i) /\ UNCHANGED <<opc, cur, given>>)

-----------------------------------------------------------------------------
(* Properties.                                                             *)

TypeOK == /\ ThreadTypeOK
          /\ opc \in {"create", "open", "interupt", "notify", "join", "gone"}
          /\ cur \in Thread
          /\ given \in [Index -> 0..MaxTasks]

\* The tasks of an index in the list of its thread, in the order of the list.
Places(k)    == {p \in DOMAIN tasks[Hashcode(k)] : tasks[Hashcode(k)][p][1] = k}
Before(k, p) == Cardinality({q \in Places(k) : q < p})
OfIndex(k)   == [j \in 1..Cardinality(Places(k)) |->
                   tasks[Hashcode(k)][CHOOSE p \in Places(k) : Before(k, p) = j - 1]]
RunningOf(k) == LET t == running[Hashcode(k)]
                IN  IF t # NoItem /\ t[1] = k THEN t ELSE NoItem

Serial == INSTANCE SerialExecutor WITH
  Index <- Index, Task <- Item, NoTask <- NoItem,
  pending <- [k \in Index |-> OfIndex(k)],
  active  <- [k \in Index |-> RunningOf(k)]

\* The collection keeps the order and the exclusion it promises per index.
KeepsOrder == Serial!Spec

\* A task that is dispatched is taken, unless the collection is destroyed:
\* no notification of add_task is lost.
DispatchedRuns ==
  \A i \in Thread : tasks[i] # <<>> ~> tasks[i] = <<>> \/ opc # "open"

\* The notification of the destructor came between the predicate and the wait.
Missed(i) == interupt[i] /\ rpc[i] = "waiting" /\ (opc = "join" \/ i < cur)

\* The destructor returns unless a thread missed its notification: nothing
\* else, no order of stores, notifications and joins, keeps it from it.
DestroyEnds == opc = "interupt" ~> opc = "gone" \/ \E i \in Thread : Missed(i)

\* A thread that missed its notification has no task left to run.
MissedIdle == \A i \in Thread : Missed(i) => tasks[i] = <<>> /\ running[i] = NoItem

\* The destructor joins threads that have finished what they had taken.
GoneAfterTasks == opc = "gone" => \A i \in Thread : rpc[i] = "done" /\ running[i] = NoItem
=============================================================================
