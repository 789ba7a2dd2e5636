--------------------------------- MODULE Steps --------------------------------
(***************************************************************************)
(* The tasks that write no file of nginx: step, which starts and stops it, *)
(* the purge of the cache, defense and redis (nodes_tasks.cpp,             *)
(* nodes_process.cpp), up to the answer the server gets; NodesPulls        *)
(* has the rest of a task's way, NodesTasks the tasks that write files.    *)
(***************************************************************************)
EXTENDS Naturals, FiniteSets, Sequences

CONSTANTS Domain,     \* the directories of the cache, one for each domain
          MaxRuns     \* bound: tasks that run

\* A directory: absent, empty, or with something in it.
DirState == {"absent", "empty", "filled"}

VARIABLES nginx,      \* nginx runs
          namesake,   \* so does another process with nginx in its command line
          dirs,       \* the directories of the cache
          cacheDir,   \* the cache itself is there
          doing,      \* the task that runs, or Nothing
          place,      \* what it does next
          code,       \* the answer: 200, 900, 903, or 0 for none
          deeds,      \* history: what the task did, <<what, how it went>>
          runs        \* tasks that may still come

stepVars == <<nginx, namesake, dirs, cacheDir, doing, place, code, deeds, runs>>

Nothing == [kind |-> "none", operate |-> "none"]
Unknown == "other"    \* an operation there is none of, and the one that does nothing

\* The tasks, as the table of nodes_worker_param_init has them by number.
StepTasks    == [kind : {"step"}, operate : {"start", "stop", "check", "remove", "update", Unknown}]
DefenseTasks == [kind : {"defense"}, operate : {"cc_allow_pass_temporary", Unknown}]
CacheTasks   == [kind : {"cache"}, operate : Domain \union {"nodes", Unknown}]
StepsTask    == StepTasks \union DefenseTasks \union CacheTasks \union [kind : {"redis"}, operate : {Unknown}]

StepsInit ==
  /\ nginx \in BOOLEAN /\ namesake = FALSE
  /\ dirs \in [Domain -> DirState] /\ cacheDir = TRUE
  /\ doing = Nothing /\ place = "none" /\ code = 0 /\ deeds = <<>>
  /\ runs = MaxRuns

TaskStill == UNCHANGED <<doing, code, runs>>
FilesStill == UNCHANGED <<dirs, cacheDir>>

\* Where each task begins.  An operation it does not know is a success.
BeginsAt(t) ==
  CASE t.kind = "step" /\ t.operate \in {"start", "check", "update"} -> "check"
    [] t.kind = "step" /\ t.operate \in {"stop", "remove"} -> "stop"
    [] t.kind = "defense" /\ t.operate # Unknown -> "defend"
    [] t.kind = "cache" /\ t.operate # Unknown -> "purge"
    [] t.kind = "cache" /\ t.operate = Unknown -> "fails"
    [] OTHER -> "done"

Comes(t) ==
  /\ doing = Nothing /\ runs > 0
  /\ doing' = t /\ place' = BeginsAt(t) /\ code' = 0 /\ runs' = runs - 1
  /\ UNCHANGED <<nginx, namesake, deeds>> /\ FilesStill

Answered(c) ==
  /\ code' = c /\ doing' = Nothing /\ place' = "none" /\ deeds' = <<>>
  /\ UNCHANGED <<nginx, namesake, runs>> /\ FilesStill
Done == place = "done" /\ Answered(200)
\* A nodes_exception, or RET_ERROR, which becomes one.
Throws == \/ place = "fails" /\ Answered(900)
          \/ place = "throws" /\ Answered(903)

GoesTo(p) == place' = p
Deed(what, how) == deeds' = Append(deeds, <<what, how>>)
-----------------------------------------------------------------------------
\* nodes_process_check_nginx: RET_ERROR when ps shows anything.  For start
\* that means reload; for check and update it means that they failed.
Checks ==
  /\ place = "check"
  /\ LET shows == nginx \/ namesake IN
     /\ Deed("ps", IF shows THEN "shown" ELSE "nothing")
     /\ GoesTo(IF doing.operate = "start" THEN IF shows THEN "reload" ELSE "start"
               ELSE IF shows THEN "fails" ELSE "done")
  /\ UNCHANGED <<nginx, namesake>> /\ FilesStill /\ TaskStill

\* A command succeeds when it printed nothing; what it prints as an error is
\* not read, so nginx may be as before.
Ran(what, next, otherwise) ==
  \/ Deed(what, "well") /\ GoesTo(next)
  \/ Deed(what, "badly") /\ GoesTo(otherwise)

StartsNginx ==
  /\ place = "start"
  /\ nginx' \in {nginx, TRUE}
  /\ Ran("start", "done", "throws")
  /\ UNCHANGED namesake /\ FilesStill /\ TaskStill
ReloadsNginx ==
  /\ place = "reload"
  /\ Ran("reload", "done", "fails")
  /\ UNCHANGED <<nginx, namesake>> /\ FilesStill /\ TaskStill
\* Mutant of StopsNginx: what stop printed is not looked at before asnode goes.
StopsAnyway ==
  /\ place = "stop"
  /\ nginx' \in {nginx, FALSE}
  /\ Ran("stop", IF doing.operate = "remove" THEN "leave" ELSE "done",
                 IF doing.operate = "remove" THEN "leave" ELSE "fails")
  /\ UNCHANGED namesake /\ FilesStill /\ TaskStill
StopsNginx ==
  /\ place = "stop"
  /\ nginx' \in {nginx, FALSE}
  /\ Ran("stop", IF doing.operate = "remove" THEN "leave" ELSE "done", "fails")
  /\ UNCHANGED namesake /\ FilesStill /\ TaskStill

\* nodes_cmdline_remove_nodes: asnode -i stopnodes.
RemovesNodes ==
  /\ place = "leave"
  /\ Ran("leave", "done", "fails")
  /\ UNCHANGED <<nginx, namesake>> /\ FilesStill /\ TaskStill

\* nodes_nginx_delete_dir joins the names with a backslash: it opens and
\* removes none of the entries, and rmdir then takes an empty directory only.
CacheEmpty == \A d \in Domain : dirs[d] = "absent"
Purges ==
  /\ place = "purge"
  /\ Ran("purge", "done", "fails")
  /\ place' = "fails" <=> IF doing.operate = "nodes" THEN ~cacheDir ELSE dirs[doing.operate] = "absent"
  /\ cacheDir' = (cacheDir /\ (doing.operate = "nodes" => ~CacheEmpty))
  /\ dirs' = [d \in Domain |-> IF d = doing.operate /\ dirs[d] = "empty" THEN "absent" ELSE dirs[d]]
  /\ UNCHANGED <<nginx, namesake>> /\ TaskStill

\* nodes_nginx_unix_socket.  Without a socket, or when recv fails, it returns
\* -1, which is noticed; a connect or a send that fails is not, and when recv
\* fails the socket is lost.
Defends ==
  /\ place = "defend"
  /\ \/ GoesTo("done") /\ Deed("defend", "well")
     \/ GoesTo("done") /\ Deed("defend", "unheard")         \* not connected, or not sent
     \/ GoesTo("fails") /\ Deed("defend", "badly")          \* no socket
     \/ GoesTo("fails") /\ Deed("defend", "lost")           \* recv failed
  /\ UNCHANGED <<nginx, namesake>> /\ FilesStill /\ TaskStill
-----------------------------------------------------------------------------
\* The machine the node is on: nginx dies or is started, fills the cache and
\* makes its directories; another process comes and goes.
World ==
  /\ \/ nginx' = ~nginx /\ UNCHANGED <<namesake, dirs, cacheDir>>
     \/ namesake' = ~namesake /\ UNCHANGED <<nginx, dirs, cacheDir>>
     \/ /\ nginx /\ cacheDir' = TRUE /\ UNCHANGED <<nginx, namesake>>
        /\ \E d \in Domain : dirs' = [dirs EXCEPT ![d] = "filled"]
     \/ \E d \in Domain : /\ dirs[d] = "filled" /\ dirs' = [dirs EXCEPT ![d] = "empty"]
                          /\ UNCHANGED <<nginx, namesake, cacheDir>>
  /\ UNCHANGED <<doing, place, code, deeds, runs>>

StepsNext ==
  \/ \E t \in StepsTask : Comes(t)
  \/ Checks \/ StartsNginx \/ ReloadsNginx \/ StopsNginx \/ RemovesNodes
  \/ Purges \/ Defends \/ Done \/ Throws \/ World
-----------------------------------------------------------------------------
\* All that a task is to do, each deed as it must go.  The cache knows no
\* other operation; other tasks have nothing to do for one they do not know.
Fulfils(t) ==
  LET well(what) == <<what, "well">>
      ps(how) == <<"ps", how>>
      step(op) == t.kind = "step" /\ t.operate = op
  IN
  CASE step("start") -> {<<ps("nothing"), well("start")>>, <<ps("shown"), well("reload")>>}
    [] step("check") \/ step("update") -> {<<ps("nothing")>>}
    [] step("stop") -> {<<well("stop")>>}
    [] step("remove") -> {<<well("stop"), well("leave")>>}
    [] t.kind = "cache" -> IF t.operate = Unknown THEN {} ELSE {<<well("purge")>>}
    [] t.kind = "defense" /\ t.operate # Unknown -> {<<well("defend")>>, <<<<"defend", "unheard">>>>}
    [] OTHER -> {<<>>}

(***************************************************************************)
(* A task is answered with 200 exactly when it did all it was asked to,    *)
(* and nothing that it noticed went wrong, whatever nginx and the machine  *)
(* do meanwhile; after what went wrong it does nothing more: asnode does   *)
(* not leave when stopping nginx printed anything.  And a purge of one     *)
(* domain leaves the cache of every other alone (nodes_process.cpp:83-156, *)
(* 318-444, nodes_tasks.cpp:549-608).                                      *)
(***************************************************************************)
StepsAnswered ==
  [][/\ doing # Nothing /\ doing' = Nothing =>
          /\ code' = 200 <=> deeds \in Fulfils(doing)
          /\ \A i \in 1 .. Len(deeds) - 1 : deeds[i][2] \notin {"badly", "lost"}
     /\ place = "purge" /\ place' # "purge" =>
          \A d \in Domain \ {doing.operate} : dirs'[d] = dirs[d]]_stepVars
=============================================================================
