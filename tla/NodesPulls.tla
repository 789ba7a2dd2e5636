----------------------------- MODULE NodesPulls -----------------------------
(***************************************************************************)
(* The pulls worker (nodes_pulls_process_cycle) and the management server  *)
(* it works for: it logs in, asks for the list of tasks (the heartbeat),   *)
(* pulls each task, runs it and answers it.                                *)
(*                                                                         *)
(* An exchange with the server is one step with the outcomes the caller    *)
(* tells apart.  The answers of the server are external: it rejects a      *)
(* token it no longer knows, and drops a task from its list when any       *)
(* answer to it comes in, since isSuccess is always true: pulls->result,   *)
(* from which it is made, is never written.                                *)
(*                                                                         *)
(* inet_socket_connect opens a new descriptor in the handler it is given.  *)
(* Whoever calls it twice on one handler, or returns without deleting it,  *)
(* leaks one; once FdLimit are lost no connection can be made.             *)
(*                                                                         *)
(* An answer is read with a select of a second and a recv in turns.  A     *)
(* signal in the select makes it -1, which no caller tells from "ready":   *)
(* the recv that follows has no limit.  Nor has the handshake of TLS, nor  *)
(* an SSL_read that finds a ticket.  Such a wait ends with data, the end   *)
(* of the connection or another signal.                                    *)
(***************************************************************************)
EXTENDS Integers

CONSTANTS
  Task,        \* ids of the tasks
  NoTask,      \* no task: the empty request id
  Kind,        \* what dispatch finds in a task: known, unknown, malformed
  MaxRetries,  \* 6 in the code
  FdLimit,     \* descriptors the worker may lose before it can open no other
  MasterLost,  \* those the master lost when it logged in; its workers inherit them
  MaxExpiries, \* bound: tokens that expire
  MaxDeaths    \* bound: workers that die

ASSUME TaskAssumption  == NoTask \notin Task
ASSUME KindAssumption  == Kind \in [Task -> {"known", "unknown", "malformed"}]
ASSUME BoundAssumption ==
  MaxRetries \in Nat /\ FdLimit \in Nat /\ MaxExpiries \in Nat /\ MaxDeaths \in Nat
ASSUME MasterAssumption == MasterLost \in 0 .. FdLimit

VARIABLES
  wpc,       \* where the worker is in its cycle
  token,     \* auths->token, as the server sees it: none, good, expired
  task,      \* pulls->task_id
  todo,      \* pulls->requests, what this pass has not come to
  again,     \* map_temp
  retries,   \* the counts in requests and map_temp
  requestId, \* packet->request_id
  leaked,    \* descriptors lost
  wait,      \* how the exchange waits: limited, unlimited, or broken off by a signal
  stop,      \* process_terminate or process_quit
  listed,    \* the tasks on the server's list
  pulled,    \* history: pulls of a task since the list was fetched
  ran,       \* history: runs of a task since the list was fetched
  expiries,  \* tokens that may still expire
  deaths     \* workers that may still die

batch   == <<task, todo, again, retries>>
history == <<pulled, ran>>
bounds  == <<expiries, deaths>>
vars    == <<wpc, token, batch, requestId, leaked, wait, stop, listed, history, bounds>>

Zero == [t \in Task |-> 0]

\* An exchange that gets an answer, one that ends, and no wait at all.
Answered == wait # "broken"
Ends     == wait' = "limited"
Still    == wait = "limited" /\ UNCHANGED wait

Moves(from, to) == wpc = from /\ wpc' = to
CanConnect == leaked < FdLimit
Leaks == CanConnect /\ leaked' = leaked + 1

-----------------------------------------------------------------------------
(* Logging in: nodes_handler_authed_check.                                 *)

CycleStarts ==
  /\ Still
  /\ Moves("cycle", IF token = "none" THEN "auth" ELSE "heartbeat")
  /\ UNCHANGED <<token, batch, requestId, leaked, stop, listed, history, bounds>>

\* node.json, the connection, the request or the content of the answer failed.
AuthFails ==
  /\ Ends
  /\ Moves("auth", "sleep")
  /\ UNCHANGED <<token, batch, requestId, leaked, stop, listed, history, bounds>>

\* No answer, or one that cannot be parsed: the loop connects once more.
AuthAgain ==
  /\ Ends
  /\ Moves("auth", "auth")
  /\ Leaks
  /\ UNCHANGED <<token, batch, requestId, stop, listed, history, bounds>>

\* An answer that is neither an error nor has a token in it passes as well.
AuthPasses(t) ==
  /\ Answered /\ Ends
  /\ Moves("auth", "heartbeat")
  /\ CanConnect
  /\ token' = t
  /\ UNCHANGED <<batch, requestId, leaked, stop, listed, history, bounds>>

-----------------------------------------------------------------------------
(* The list of tasks: nodes_handler_heartbeat.                             *)

\* Mutant of HeartbeatFails: the token is kept.
HeartbeatKeepsToken ==
  /\ Ends
  /\ Moves("heartbeat", "sleep")
  /\ UNCHANGED <<token, batch, requestId, leaked, stop, listed, history, bounds>>

\* No connection, no usable answer, or the server rejects the token.
HeartbeatFails ==
  /\ Ends
  /\ Moves("heartbeat", "sleep")
  /\ token' = "none"
  /\ UNCHANGED <<batch, requestId, leaked, stop, listed, history, bounds>>

\* An answer without a body is a list without tasks.
HeartbeatEmpty ==
  /\ Answered /\ Ends
  /\ Moves("heartbeat", "sleep")
  /\ CanConnect
  /\ UNCHANGED <<token, batch, requestId, leaked, stop, listed, history, bounds>>

HeartbeatLists ==
  /\ Answered /\ Ends
  /\ Moves("heartbeat", IF listed = {} THEN "sleep" ELSE "batch")
  /\ CanConnect /\ token = "good"
  /\ todo' = listed /\ again' = {} /\ retries' = Zero
  /\ pulled' = Zero /\ ran' = Zero
  /\ UNCHANGED <<token, task, requestId, leaked, stop, listed, bounds>>

\* A redirect, to the list as to a task, connects the same handler again.
Redirected ==
  /\ Answered /\ Ends
  /\ wpc \in {"heartbeat", "pull"} /\ wpc' = wpc
  /\ Leaks
  /\ UNCHANGED <<token, batch, requestId, stop, listed, history, bounds>>

-----------------------------------------------------------------------------
(* The batch: nodes_handler_pulls_process and nodes_handler_pull_task.     *)

NextTask ==
  /\ Still
  /\ Moves("batch", "pull")
  /\ task' \in todo
  /\ todo' = todo \ {task'}
  /\ pulled' = [pulled EXCEPT ![task'] = @ + 1]
  /\ UNCHANGED <<token, again, retries, requestId, leaked, stop, listed, ran, bounds>>

PassEnds ==
  /\ Still
  /\ todo = {}
  /\ Moves("batch", IF again = {} THEN "sleep" ELSE "batch")
  /\ todo' = again /\ again' = {}
  /\ UNCHANGED <<token, task, retries, requestId, leaked, stop, listed, history, bounds>>

\* The task goes to the next pass unless it was retried often enough.
Retry ==
  IF retries[task] > MaxRetries
  THEN UNCHANGED <<again, retries>>
  ELSE again' = again \cup {task} /\ retries' = [retries EXCEPT ![task] = @ + 1]

PullFails ==
  /\ Ends
  /\ Moves("pull", "batch")
  /\ Retry
  /\ UNCHANGED <<token, task, todo, requestId, leaked, stop, listed, history, bounds>>

\* What the server sends for the task: its rejection of a token is no task.
Content == IF token = "good" THEN Kind[task] ELSE "malformed"

PullAnswered == CanConnect /\ wpc = "pull"

\* nodes_task_dispatch finds no request id, no JSON or no data, and answers
\* with error 901 under the request id of the packet before.
DispatchRefuses ==
  /\ Answered /\ Ends
  /\ PullAnswered /\ Content = "malformed"
  /\ wpc' = "refuse"
  /\ UNCHANGED <<token, batch, requestId, leaked, stop, listed, history, bounds>>

\* No function is registered under the id: nothing runs and nobody is told.
DispatchIgnores ==
  /\ Answered /\ Ends
  /\ PullAnswered /\ Content = "unknown"
  /\ requestId' = task
  /\ wpc' = "batch"
  /\ UNCHANGED <<token, batch, leaked, stop, listed, history, bounds>>

\* The task may be a defense that itself waits for nginx (Steps): an interrupted
\* recv there is an error of the task.
DispatchRuns ==
  /\ Ends
  /\ PullAnswered /\ Content = "known"
  /\ requestId' = task
  /\ ran' = [ran EXCEPT ![task] = @ + 1]
  /\ wpc' = "answer"
  /\ UNCHANGED <<token, batch, leaked, stop, listed, pulled, bounds>>

-----------------------------------------------------------------------------
(* The answer: nodes_return_packet and nodes_task_sync_send.  Nobody looks *)
(* at their result; a refused task is retried, a task that ran is not.     *)

Replying == wpc \in {"refuse", "answer"}

\* Mutant of AfterReply: a task that ran is retried, too.
AfterReplyRetries == wpc' = "batch" /\ Retry

AfterReply ==
  /\ wpc' = "batch"
  /\ IF wpc = "refuse" THEN Retry ELSE UNCHANGED <<again, retries>>

Deliver == listed' = listed \ {task}

ReplyLost ==
  /\ Ends
  /\ Replying /\ AfterReply
  /\ UNCHANGED <<token, task, todo, requestId, leaked, stop, listed, history, bounds>>

ReplyDelivered ==
  /\ Answered /\ Ends
  /\ Replying /\ CanConnect /\ AfterReply
  /\ Deliver
  /\ UNCHANGED <<token, task, todo, requestId, leaked, stop, history, bounds>>

\* The connection breaks while the server's answer is awaited.
ReplyBreaks ==
  /\ Ends
  /\ Replying /\ Leaks /\ AfterReply
  /\ Deliver \/ UNCHANGED listed
  /\ UNCHANGED <<token, task, todo, requestId, stop, history, bounds>>

\* The server closes the connection: recv returns 0 for ever, which the loop
\* of nodes_task_sync_send takes for more to come.
ReplyHangs ==
  /\ Answered /\ Ends
  /\ Replying /\ CanConnect
  /\ wpc' = "stuck"
  /\ Deliver
  /\ UNCHANGED <<token, batch, requestId, leaked, stop, history, bounds>>

-----------------------------------------------------------------------------
(* The cycle goes on, and what happens around the worker.                  *)

\* Mutant of SleepEnds: the loop does not look at process_terminate and process_quit.
SleepIgnoresStop ==
  /\ Still
  /\ Moves("sleep", "cycle")
  /\ UNCHANGED <<token, batch, requestId, leaked, stop, listed, history, bounds>>

SleepEnds ==
  /\ Still
  /\ Moves("sleep", IF stop THEN "left" ELSE "cycle")
  /\ UNCHANGED <<token, batch, requestId, leaked, stop, listed, history, bounds>>

\* TERM or QUIT while the worker does not wait without a limit.
Told ==
  /\ ~stop /\ stop' = TRUE /\ wait # "unlimited"
  /\ UNCHANGED <<wpc, token, batch, requestId, leaked, wait, listed, history, bounds>>

\* The exchange comes to a wait without a limit, behind an interrupted select or
\* within TLS.  The signal may be TERM or QUIT, or one that says nothing.
WaitsOn ==
  /\ wpc \in {"auth", "heartbeat", "pull", "refuse", "answer"} /\ CanConnect
  /\ wait = "limited" /\ wait' = "unlimited"
  /\ stop' \in {stop, TRUE}
  /\ UNCHANGED <<wpc, token, batch, requestId, leaked, listed, history, bounds>>

\* A signal ends that wait: the handlers are set without SA_RESTART.
Interrupted ==
  /\ wait = "unlimited" /\ wait' = "broken"
  /\ stop' \in {stop, TRUE}
  /\ UNCHANGED <<wpc, token, batch, requestId, leaked, listed, history, bounds>>

\* The worker dies and the master forks another one in its place, with the token
\* of its own login, which the server may have forgotten since.
WorkerReplaced ==
  /\ deaths > 0 /\ deaths' = deaths - 1 /\ ~stop
  /\ wpc' = "cycle" /\ token' \in {"none", "good", "expired"} /\ task' = NoTask
  /\ todo' = {} /\ again' = {} /\ retries' = Zero
  /\ requestId' = NoTask /\ leaked' = MasterLost /\ wait' = "limited"
  /\ pulled' = Zero /\ ran' = Zero
  /\ UNCHANGED <<stop, listed, expiries>>

TokenExpires ==
  /\ expiries > 0 /\ expiries' = expiries - 1
  /\ token = "good" /\ token' = "expired"
  /\ UNCHANGED <<wpc, batch, requestId, leaked, wait, stop, listed, history, deaths>>

ServerLists(t) ==
  /\ t \notin listed /\ listed' = listed \cup {t}
  /\ UNCHANGED <<wpc, token, batch, requestId, leaked, wait, stop, history, bounds>>

Auth      == AuthFails \/ AuthAgain \/ \E t \in {"none", "good"} : AuthPasses(t)
Heartbeat == HeartbeatFails \/ HeartbeatEmpty \/ HeartbeatLists \/ Redirected
Dispatch  == DispatchRefuses \/ DispatchIgnores \/ DispatchRuns
Pull      == NextTask \/ PassEnds \/ PullFails \/ Dispatch
Reply     == ReplyLost \/ ReplyDelivered \/ ReplyBreaks \/ ReplyHangs
Worker    == CycleStarts \/ Auth \/ Heartbeat \/ Pull \/ Reply \/ SleepEnds

\* The master has logged in before it forks the worker.
Init ==
  /\ wpc = "cycle" /\ token \in {"none", "good"} /\ task = NoTask
  /\ todo = {} /\ again = {} /\ retries = Zero
  /\ requestId = NoTask /\ leaked = MasterLost /\ wait = "limited" /\ stop = FALSE
  /\ listed = {}
  /\ pulled = Zero /\ ran = Zero
  /\ expiries = MaxExpiries /\ deaths = MaxDeaths

Next ==
  \/ Worker \/ Told \/ WaitsOn \/ Interrupted \/ WorkerReplaced
  \/ TokenExpires \/ \E t \in Task : ServerLists(t)

Spec == Init /\ [][Next]_vars

\* The worker is scheduled, and is sure to go on where nothing waits without a
\* limit; every exchange may fail, for ever.
FairSpec == Spec /\ WF_vars(wait # "unlimited" /\ Worker)

\* The server closes a connection nobody uses, which ends a wait without a
\* limit.  The network works again and again, for each kind of exchange, and the
\* server answers: it gives a token, rejects one it no longer knows, sends its
\* list and each task, and takes the answer to each.
LuckySpec ==
  /\ Spec /\ WF_vars(Worker)
  /\ SF_vars(Still /\ AuthPasses("good")) /\ SF_vars(Still /\ HeartbeatLists)
  /\ SF_vars(Still /\ token # "good" /\ HeartbeatFails)
  /\ \A t \in Task : /\ SF_vars(Still /\ task = t /\ Dispatch)
                     /\ SF_vars(Still /\ task = t /\ ReplyDelivered)

-----------------------------------------------------------------------------
(* Properties.                                                             *)

\* Every variable has its type; no count of retries exceeds the limit by more
\* than the one that the comparison lets through.
TypeOK ==
  /\ wpc \in {"cycle", "auth", "heartbeat", "batch", "pull", "refuse", "answer",
              "stuck", "sleep", "left"}
  /\ token \in {"none", "good", "expired"} /\ task \in Task \cup {NoTask}
  /\ todo \subseteq Task /\ again \subseteq Task
  /\ retries \in [Task -> 0..(MaxRetries + 1)]
  /\ requestId \in Task \cup {NoTask} /\ leaked \in 0..FdLimit /\ stop \in BOOLEAN
  /\ wait \in {"limited", "unlimited", "broken"}
  /\ listed \subseteq Task
  /\ pulled \in [Task -> Nat] /\ ran \in [Task -> Nat]
  /\ expiries \in Nat /\ deaths \in Nat

\* A task runs at most once for every list it is on, however often the pull is
\* retried and whatever became of its answers.
RunOnce == \A t \in Task : ran[t] =< 1

\* A task is pulled at most MaxRetries + 2 times for every list it is on.
PullsBounded == \A t \in Task : pulled[t] =< MaxRetries + 2

\* The answer of a task that ran carries its own id; only an error 901 may
\* carry that of a task before it.
AnswersNameTheirTask == wpc = "answer" => requestId = task

\* Of a task both together: it runs once a list, and what is answered of it
\* is its own (nodes_handler.cpp:728-764, nodes_tasks.cpp:206-219).
OnceAndNamed == RunOnce /\ AnswersNameTheirTask

\* The task in hand, and those still to be pulled or retried.
Due == todo \cup again \cup (IF wpc = "pull" THEN {task} ELSE {})

\* Nothing that ran is due again, and each pull was paid for by a retry.
IInv ==
  /\ TypeOK /\ RunOnce /\ AnswersNameTheirTask
  /\ todo \cap again = {}
  /\ wpc \in {"pull", "refuse", "answer"} => task \in Task /\ task \notin todo \cup again
  /\ wpc \in {"cycle", "auth", "heartbeat", "sleep"} => todo = {} /\ again = {}
  /\ wpc = "refuse" => ran[task] = 0
  /\ \A t \in Due : ran[t] = 0
  /\ \A t \in todo \cup again : pulled[t] =< retries[t]
  /\ \A t \in Task : pulled[t] =< retries[t] + 1

\* A worker that is told to leave leaves, whatever the server does, unless it
\* spins at the end of an answer or has come to a wait without a limit, which
\* nothing ever ends (nodes_cycle.cpp:571-590, nodes_tasks.cpp:95-109).
LeavesWhenTold == []<>(wait # "unlimited") => (stop ~> wpc \in {"left", "stuck"})

\* A task the server lists is settled with it, through lost answers, retries,
\* expired tokens and workers that die.
Settled ==
  \A t \in Task : Kind[t] # "unknown" =>
    (t \in listed ~> t \notin listed \/ stop \/ wpc = "stuck" \/ leaked = FdLimit)
=============================================================================
