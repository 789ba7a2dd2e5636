--------------------------- MODULE SerialExecutor ---------------------------
(***************************************************************************)
(* What a thread_collection promises to those who dispatch under an index: *)
(* the tasks of one index are run one at a time, each once, in the order   *)
(* in which they were dispatched; nothing is said of different indices.    *)
(***************************************************************************)
EXTENDS Sequences

CONSTANTS Index, Task, NoTask

VARIABLES
  pending,  \* dispatched under the index and not started
  active    \* the task of the index that runs

Dispatch(k, t) ==
  /\ pending' = [pending EXCEPT ![k] = Append(@, t)]
  /\ UNCHANGED active

Begin(k) ==
  /\ pending[k] # <<>> /\ active[k] = NoTask
  /\ active' = [active EXCEPT ![k] = Head(pending[k])]
  /\ pending' = [pending EXCEPT ![k] = Tail(@)]

End(k) ==
  /\ active[k] # NoTask
  /\ active' = [active EXCEPT ![k] = NoTask]
  /\ UNCHANGED pending

Init == /\ pending = [k \in Index |-> <<>>]
        /\ active = [k \in Index |-> NoTask]

Next == \E k \in Index : Begin(k) \/ End(k) \/ \E t \in Task : Dispatch(k, t)

Spec == Init /\ [][Next]_<<pending, active>>
=============================================================================
