------------------------- MODULE NodesPulls_proofs -------------------------
(* Proofs about NodesPulls: no task runs twice for one list, and the pulls   *)
(* of a task are bounded.                                                    *)
EXTENDS NodesPulls, TLAPS

\* The history and the counts of the tasks, which the steps keep together.
Counts == /\ todo \subseteq Task /\ again \subseteq Task /\ todo \cap again = {}
          /\ retries \in [Task -> 0..(MaxRetries + 1)]
          /\ pulled \in [Task -> Nat] /\ ran \in [Task -> Nat]
          /\ \A t \in todo \cup again : ran[t] = 0 /\ pulled[t] =< retries[t]
          /\ \A t \in Task : ran[t] =< 1 /\ pulled[t] =< retries[t] + 1

\* The task in hand is in neither set; it has not run until it is dispatched.
Hand == /\ wpc \in {"pull", "refuse", "answer"} => task \in Task /\ task \notin todo \cup again
        /\ wpc \in {"pull", "refuse"} => ran[task] = 0
        /\ wpc \in {"cycle", "auth", "heartbeat", "sleep"} => todo = {} /\ again = {}
        /\ wpc = "answer" => requestId = task

\* What no step needs to look at more closely.
Rest == /\ wpc \in {"cycle", "auth", "heartbeat", "batch", "pull", "refuse", "answer",
                    "stuck", "sleep", "left"}
        /\ token \in {"none", "good", "expired"} /\ task \in Task \cup {NoTask}
        /\ requestId \in Task \cup {NoTask} /\ leaked \in 0..FdLimit /\ stop \in BOOLEAN
        /\ listed \subseteq Task /\ expiries \in Nat /\ deaths \in Nat
        /\ wait \in {"limited", "unlimited", "broken"}

LEMMA Split == IInv <=> Counts /\ Hand /\ Rest
  <1>1. IInv => Counts /\ Hand /\ Rest
    BY TaskAssumption DEF IInv, TypeOK, RunOnce, AnswersNameTheirTask, Due, Counts, Hand, Rest
  <1>2. Counts /\ Hand /\ Rest => IInv
    BY TaskAssumption DEF IInv, TypeOK, RunOnce, AnswersNameTheirTask, Due, Counts, Hand, Rest
  <1> QED BY <1>1, <1>2

LEMMA InitOK == Init => Counts /\ Hand /\ Rest
  <1> SUFFICES ASSUME Init  PROVE Counts /\ Hand /\ Rest
    OBVIOUS
  <1>1. Counts
    BY BoundAssumption DEF Init, Counts, Zero
  <1>2. Hand
    BY DEF Init, Hand
  <1>3. leaked \in 0..FdLimit /\ expiries \in Nat /\ deaths \in Nat
    BY BoundAssumption, MasterAssumption DEF Init
  <1>4. Rest
    BY <1>3 DEF Init, Rest
  <1> QED BY <1>1, <1>2, <1>4

\* A retry pays for the pull before it, and only what has not run is retried.
LEMMA RetryKeeps ==
  ASSUME Counts, Hand, Retry, wpc \in {"pull", "refuse"},
         todo' = todo, pulled' = pulled, ran' = ran
  PROVE  Counts'
  <1>1. task \in Task /\ task \notin todo \cup again /\ ran[task] = 0
    BY DEF Hand
  <1>2. CASE retries[task] > MaxRetries
    BY <1>2 DEF Retry, Counts
  <1>3. CASE ~(retries[task] > MaxRetries)
    <2>1. /\ again' = again \cup {task}
          /\ retries' = [retries EXCEPT ![task] = @ + 1]
      BY <1>3 DEF Retry
    <2>2. retries' \in [Task -> 0..(MaxRetries + 1)]
      BY <1>1, <1>3, <2>1, BoundAssumption DEF Counts
    <2>3. \A t \in Task : retries'[t] = IF t = task THEN retries[t] + 1 ELSE retries[t]
      BY <2>1 DEF Counts
    <2> QED BY <1>1, <2>1, <2>2, <2>3 DEF Counts
  <1> QED BY <1>2, <1>3

\* An answer ends with the task retried or left alone.
LEMMA AfterReplyKeeps ==
  ASSUME Counts, Hand, Rest, Replying, AfterReply, requestId' \in Task \cup {NoTask},
         task' = task, todo' = todo, pulled' = pulled, ran' = ran
  PROVE  Counts' /\ Hand' /\ wpc' = "batch"
  <1>1. wpc' = "batch"
    BY DEF AfterReply
  <1>2. Counts'
    <2>1. CASE wpc = "refuse"
      BY <2>1, RetryKeeps DEF AfterReply
    <2>2. CASE wpc # "refuse"
      BY <2>2 DEF AfterReply, Counts
    <2> QED BY <2>1, <2>2
  <1> QED BY <1>1, <1>2 DEF Hand

LEMMA Step == Counts /\ Hand /\ Rest /\ [Next]_vars => Counts' /\ Hand' /\ Rest'
  <1> SUFFICES ASSUME Counts, Hand, Rest, [Next]_vars
               PROVE  Counts' /\ Hand' /\ Rest'
    OBVIOUS
  <1> USE BoundAssumption DEF Ends, Still
  <1>1. ASSUME CycleStarts  PROVE Counts' /\ Hand' /\ Rest'
    <2>1. wpc = "cycle" /\ wpc' \in {"auth", "heartbeat"}
      BY <1>1 DEF CycleStarts, Moves
    <2> QED BY <1>1, <2>1 DEF CycleStarts, Counts, Hand, Rest, batch, history, bounds
  <1>2. ASSUME SleepEnds  PROVE Counts' /\ Hand' /\ Rest'
    <2>1. wpc = "sleep" /\ wpc' \in {"left", "cycle"}
      BY <1>2 DEF SleepEnds, Moves
    <2> QED BY <1>2, <2>1 DEF SleepEnds, Counts, Hand, Rest, batch, history, bounds
  <1>3. ASSUME AuthFails \/ HeartbeatFails \/ HeartbeatEmpty  PROVE Counts' /\ Hand' /\ Rest'
    BY <1>3 DEF AuthFails, HeartbeatFails, HeartbeatEmpty, Moves, Counts, Hand, Rest,
                 batch, history, bounds
  <1>4. ASSUME TokenExpires  PROVE Counts' /\ Hand' /\ Rest'
    BY <1>4 DEF TokenExpires, Counts, Hand, Rest, batch, history
  <1>5. ASSUME Told  PROVE Counts' /\ Hand' /\ Rest'
    <2>1. stop' \in BOOLEAN
      BY <1>5 DEF Told
    <2> QED BY <1>5, <2>1 DEF Told, Counts, Hand, Rest, batch, history, bounds
  <1>6. ASSUME NEW t \in {"none", "good"}, AuthPasses(t)  PROVE Counts' /\ Hand' /\ Rest'
    BY <1>6 DEF AuthPasses, Moves, Counts, Hand, Rest, batch, history, bounds
  <1>7. ASSUME NEW t \in Task, ServerLists(t)  PROVE Counts' /\ Hand' /\ Rest'
    BY <1>7 DEF ServerLists, Counts, Hand, Rest, batch, history, bounds
  <1>8. ASSUME AuthAgain \/ Redirected  PROVE Counts' /\ Hand' /\ Rest'
    BY <1>8 DEF AuthAgain, Redirected, Leaks, CanConnect, Moves, Counts, Hand, Rest,
                batch, history, bounds
  <1>9. ASSUME HeartbeatLists  PROVE Counts' /\ Hand' /\ Rest'
    BY <1>9 DEF HeartbeatLists, Moves, Zero, Counts, Hand, Rest, bounds
  <1>10. ASSUME NextTask  PROVE Counts' /\ Hand' /\ Rest'
    <2>1. /\ task' \in Task /\ task' \in todo /\ task' \notin again
          /\ wpc' = "pull" /\ todo' = todo \ {task'} /\ again' = again
          /\ retries' = retries /\ ran' = ran
      BY <1>10 DEF NextTask, Moves, Counts
    <2>2. \A t \in Task : pulled'[t] = IF t = task' THEN pulled[t] + 1 ELSE pulled[t]
      BY <1>10, <2>1 DEF NextTask, Counts
    <2>3. pulled' \in [Task -> Nat]
      BY <1>10, <2>1 DEF NextTask, Counts
    <2>4. Counts'
      BY <2>1, <2>2, <2>3 DEF Counts
    <2>5. Hand'
      BY <2>1 DEF Hand, Counts
    <2>6. Rest'
      BY <1>10, <2>1 DEF NextTask, Rest, bounds
    <2> QED BY <2>4, <2>5, <2>6
  <1>11. ASSUME PassEnds  PROVE Counts' /\ Hand' /\ Rest'
    BY <1>11 DEF PassEnds, Moves, Counts, Hand, Rest, history, bounds
  <1>12. ASSUME PullFails  PROVE Counts' /\ Hand' /\ Rest'
    <2>1. Counts'
      BY <1>12, RetryKeeps DEF PullFails, Moves, history
    <2> QED BY <1>12, <2>1 DEF PullFails, Moves, Hand, Rest, history, bounds
  <1>13. ASSUME DispatchRefuses \/ DispatchIgnores  PROVE Counts' /\ Hand' /\ Rest'
    BY <1>13 DEF DispatchRefuses, DispatchIgnores, PullAnswered, Counts, Hand, Rest,
                batch, history, bounds
  <1>14. ASSUME DispatchRuns  PROVE Counts' /\ Hand' /\ Rest'
    <2>1. task \in Task /\ task \notin todo \cup again /\ ran[task] = 0
      BY <1>14 DEF DispatchRuns, PullAnswered, Hand
    <2>2. \A t \in Task : ran'[t] = IF t = task THEN ran[t] + 1 ELSE ran[t]
      BY <1>14 DEF DispatchRuns, Counts
    <2>3. ran' \in [Task -> Nat]
      BY <1>14, <2>1 DEF DispatchRuns, Counts
    <2>4. Counts'
      BY <1>14, <2>1, <2>2, <2>3 DEF DispatchRuns, Counts, batch
    <2> QED BY <1>14, <2>1, <2>4 DEF DispatchRuns, Hand, Rest, batch, bounds
  <1>15. ASSUME ReplyLost \/ ReplyDelivered \/ ReplyBreaks  PROVE Counts' /\ Hand' /\ Rest'
    <2>1. /\ Replying /\ AfterReply /\ requestId' = requestId /\ task' = task
          /\ todo' = todo /\ pulled' = pulled /\ ran' = ran
      BY <1>15 DEF ReplyLost, ReplyDelivered, ReplyBreaks, history
    <2>2. Counts' /\ Hand' /\ wpc' = "batch"
      BY <2>1, AfterReplyKeeps DEF Rest
    <2>3. Rest'
      BY <1>15, <2>2 DEF ReplyLost, ReplyDelivered, ReplyBreaks, Deliver, Leaks, CanConnect,
                        Rest, bounds
    <2> QED BY <2>2, <2>3
  <1>16. ASSUME ReplyHangs  PROVE Counts' /\ Hand' /\ Rest'
    BY <1>16 DEF ReplyHangs, Deliver, Counts, Hand, Rest, batch, history, bounds
  <1>17. ASSUME WorkerReplaced  PROVE Counts' /\ Hand' /\ Rest'
    BY <1>17, MasterAssumption DEF WorkerReplaced, Zero, Counts, Hand, Rest
  <1>18. ASSUME WaitsOn \/ Interrupted  PROVE Counts' /\ Hand' /\ Rest'
    <2>1. stop' \in BOOLEAN
      BY <1>18 DEF WaitsOn, Interrupted, Rest
    <2> QED BY <1>18, <2>1 DEF WaitsOn, Interrupted, Counts, Hand, Rest, batch, history, bounds
  <1>19. ASSUME UNCHANGED vars  PROVE Counts' /\ Hand' /\ Rest'
    BY <1>19 DEF vars, Counts, Hand, Rest, batch, history, bounds
  <1> QED
    BY <1>1, <1>2, <1>3, <1>4, <1>5, <1>6, <1>7, <1>8, <1>9,
       <1>10, <1>11, <1>12, <1>13, <1>14, <1>15, <1>16, <1>17, <1>18, <1>19
    DEF Next, Worker, Auth, Heartbeat, Dispatch, Pull, Reply

\* The invariant holds in every state, whatever the network, the server and the
\* deaths of the worker do.
THEOREM Invariance == Spec => []IInv
  <1>1. Init => IInv
    BY InitOK, Split
  <1>2. IInv /\ [Next]_vars => IInv'
    <2>1. IInv => Counts /\ Hand /\ Rest
      BY Split
    <2>2. Counts' /\ Hand' /\ Rest' => IInv'
      BY TaskAssumption DEF IInv, TypeOK, RunOnce, AnswersNameTheirTask, Due, Counts, Hand, Rest
    <2> QED BY <2>1, <2>2, Step
  <1> QED BY <1>1, <1>2, PTL DEF Spec

\* The variables keep their types, and the counts of retries their limit.
THEOREM TypeCorrect == Spec => []TypeOK
  BY Invariance, PTL DEF IInv

\* A retried pull never runs a task that already ran for the same list.
THEOREM NoTaskRunsTwice == Spec => []RunOnce
  BY Invariance, PTL DEF IInv

\* The comparison r.second > 6 lets a task be pulled eight times, not more.
THEOREM PullsAreBounded == Spec => []PullsBounded
  <1>1. IInv => PullsBounded
    <2> SUFFICES ASSUME IInv, NEW t \in Task  PROVE pulled[t] =< MaxRetries + 2
      BY DEF PullsBounded
    <2>1. retries[t] \in 0..(MaxRetries + 1) /\ pulled[t] \in Nat
      BY DEF IInv, TypeOK
    <2>2. pulled[t] =< retries[t] + 1
      BY DEF IInv
    <2> QED BY <2>1, <2>2, BoundAssumption
  <1> QED BY <1>1, Invariance, PTL

\* A task that ran is answered under its own id.
THEOREM RightTaskAnswered == Spec => []AnswersNameTheirTask
  BY Invariance, PTL DEF IInv

\* Both, as the run states them.
THEOREM OnceAndNamedHolds == Spec => []OnceAndNamed
  BY NoTaskRunsTwice, RightTaskAnswered, PTL DEF OnceAndNamed
=============================================================================
