----------------------------- MODULE NodesTasks -----------------------------
(***************************************************************************)
(* What the pulls worker does to the files of nginx when it runs a task:   *)
(* site and main configuration, cache rules, certificates, lua rules and   *)
(* error pages.  A task is a fixed sequence of calls; each call is a few   *)
(* file operations; any of them may fail, and the worker may die between   *)
(* any two.  nodes_nginx_update_file renames the file to .bak before it    *)
(* opens and writes a new one, whether it was renamed or not.              *)
(*                                                                         *)
(* A content stands for the text of a file, decoded, except where it is    *)
(* garbled.  The reload of nginx is a task of its own (step), left out.    *)
(***************************************************************************)
EXTENDS Integers, Sequences

CONSTANTS
  Task,       \* the tasks that may come in
  NoTask,     \* the worker runs none
  Version,    \* contents the server sends
  Garbled,    \* those that the decoder refuses, or that have a NUL in them
  Empty,      \* no content in the task
  First,      \* what was installed before the first task
  Cut,        \* a file that was opened and truncated, and not written, or not wholly
  Fault,      \* what may go wrong: remove, rename, open, mkdir, full, dies
  MaxFaults,  \* bound: how often
  MaxTasks    \* bound: tasks that come in

Kind == {"nginx_main", "site", "cache", "ssl", "lua", "errpage"}

ASSUME ContentAssumption ==
  /\ Empty \notin Version \cup {First, Cut} /\ First \notin Version \cup {Cut} /\ Cut \notin Version
ASSUME GarbledAssumption == Garbled \subseteq Version
ASSUME TaskAssumption ==
  /\ Task \subseteq [kind: Kind, opt: {"update", "remove"}, dir: {"conf", "sites"},
                     content: Version \cup {Empty}, extra: Version \cup {Empty}]
  /\ \A t \in Task : t.kind = "site" => t.dir = "sites"
  /\ NoTask \notin Task
ASSUME BoundAssumption ==
  Fault \subseteq {"remove", "rename", "open", "mkdir", "full", "dies"} /\ MaxFaults \in Nat /\ MaxTasks \in Nat

\* A file is a name with some number of .bak behind it.
Name == {"nginx_main", "nginx", "site", "cache", "pem", "key", "lua", "html"}
File == [dir: {"conf", "sites", "cert", "lua", "html"}, name: Name, baks: 0..2]

Live(dir, name) == [dir |-> dir, name |-> name, baks |-> 0]
Bak(f) == [f EXCEPT !.baks = @ + 1]

VARIABLES
  disk,    \* the files there are, with their contents
  task,    \* the task that runs
  step,    \* its next call
  phase,   \* where nodes_nginx_update_file is: call, open, write
  last,    \* the task that ran last
  reply,   \* its answer: none, 200, 900, 902
  refused, \* nginx -t refused what this task installed
  old,     \* history: the files when the task began
  over,    \* history: the files it opened while they were still in their place
  unwritten, \* history: the files it left as they were opened
  faults,  \* faults that may still happen
  tasks    \* tasks that may still come in

running == <<task, step, phase>>
answer  == <<last, reply>>
marks   == <<over, unwritten>>
bounds  == <<faults, tasks>>
vars    == <<disk, running, answer, refused, old, marks, bounds>>

-----------------------------------------------------------------------------
(* The calls of each kind of task.                                         *)

MakeDir      == [do |-> "mkdir"]
Test         == [do |-> "test"]
Delete(f)    == [do |-> "delete", file |-> f]
Update(f, c) == [do |-> "update", file |-> f, content |-> c]

\* A site without content loses another backup, in the directory above.
InstallSite(dir, name, c) ==
  IF c = Empty THEN Delete(Bak(Live("conf", name))) ELSE Update(Live(dir, name), c)

\* The branch for nginx_main renames the task and runs into the one for sites,
\* which tests for "cache" only: nginx.conf is written twice.
MainCalls(t) ==
  << Delete(Bak(Live("conf", "nginx_main"))), Update(Live("conf", "nginx"), t.content),
     MakeDir, Delete(Bak(Live(t.dir, "nginx"))),
     InstallSite(t.dir, "nginx", t.content), Test >>

SiteCalls(t) ==
  << MakeDir, Delete(Bak(Live(t.dir, "site"))), InstallSite(t.dir, "site", t.content), Test >>

\* param->name still ends with .bak when the new content is written.
CacheCalls(t) ==
  << Delete(Bak(Live("conf", "cache"))), Update(Bak(Live("conf", "cache")), t.content) >>

pem == Live("cert", "pem")
key == Live("cert", "key")

\* Mutant of SslCalls: param->content is not set for the key.
SslCallsOneContent(t) ==
  IF t.opt = "update"
  THEN << Delete(Bak(pem)), Delete(Bak(key)), Update(pem, t.content), Update(key, t.content) >>
  ELSE << Delete(Bak(pem)), Delete(Bak(key)), Delete(Bak(key)) >>

\* Mutant of SslCalls: the backups go after the update.
SslCallsDeleteLate(t) ==
  IF t.opt = "update"
  THEN << Update(pem, t.content), Update(key, t.extra), Delete(Bak(pem)), Delete(Bak(key)) >>
  ELSE << Delete(Bak(pem)), Delete(Bak(key)), Delete(Bak(key)) >>

\* remove deletes what param names, the backup of the key, once more.
SslCalls(t) ==
  IF t.opt = "update"
  THEN << Delete(Bak(pem)), Delete(Bak(key)), Update(pem, t.content), Update(key, t.extra) >>
  ELSE << Delete(Bak(pem)), Delete(Bak(key)), Delete(Bak(key)) >>

LuaCalls(t) ==
  LET f == Live("lua", "lua") IN
  IF t.opt = "update" THEN << Delete(Bak(f)), Update(f, t.content) >>
                      ELSE << Delete(Bak(f)), Delete(f) >>

\* remove deletes the backup once more.
ErrpageCalls(t) ==
  LET f == Live("html", "html") IN
  IF t.opt = "update" THEN << Delete(Bak(f)), Update(f, t.content) >>
                      ELSE << Delete(Bak(f)), Delete(Bak(f)) >>

Calls(t) ==
  CASE t.kind = "nginx_main" -> MainCalls(t)
    [] t.kind = "site"       -> SiteCalls(t)
    [] t.kind = "cache"      -> CacheCalls(t)
    [] t.kind = "ssl"        -> SslCalls(t)
    [] t.kind = "lua"        -> LuaCalls(t)
    [] t.kind = "errpage"    -> ErrpageCalls(t)

Call == Calls(task)[step]
Due(do) == task # NoTask /\ phase = "call" /\ step =< Len(Calls(task)) /\ Call.do = do

-----------------------------------------------------------------------------
(* The file system.                                                        *)

Removed(d, f)    == [g \in DOMAIN d \ {f} |-> d[g]]
Stored(d, f, c)  == [g \in DOMAIN d \cup {f} |-> IF g = f THEN c ELSE d[g]]
Renamed(d, f, g) == IF f \in DOMAIN d THEN Stored(Removed(d, f), g, d[f]) ELSE d

Fails(fault) == fault \in Fault /\ faults > 0 /\ faults' = faults - 1

-----------------------------------------------------------------------------
(* The steps of a task.                                                    *)

Accepts(t) ==
  /\ task = NoTask /\ tasks > 0
  /\ task' = t /\ step' = 1 /\ phase' = "call"
  /\ last' = t /\ reply' = "none" /\ refused' = FALSE
  /\ old' = disk /\ over' = {} /\ unwritten' = {}
  /\ tasks' = tasks - 1
  /\ UNCHANGED <<disk, faults>>

Continues == task' = task /\ step' = step + 1 /\ phase' = "call" /\ UNCHANGED answer

Answers(code) ==
  /\ task' = NoTask /\ reply' = code
  /\ UNCHANGED <<step, phase, last>>

\* nodes_nginx_delete_file: the result of remove is not looked at.
Deletes ==
  /\ Due("delete")
  /\ \/ disk' = Removed(disk, Call.file) /\ UNCHANGED faults
     \/ Fails("remove") /\ UNCHANGED disk
  /\ Continues
  /\ UNCHANGED <<refused, old, marks, tasks>>

MakesDir ==
  /\ Due("mkdir")
  /\ Continues
  /\ UNCHANGED <<disk, refused, old, marks, bounds>>

MkdirFails ==
  /\ Due("mkdir") /\ Fails("mkdir")
  /\ Answers("900")
  /\ UNCHANGED <<disk, refused, old, marks, tasks>>

\* nodes_nginx_update_file throws before it touches a file.
RefusesEmpty ==
  /\ Due("update") /\ Call.content = Empty
  /\ Answers("902")
  /\ UNCHANGED <<disk, refused, old, marks, bounds>>

\* nodes_nginx_backup_file: the result of rename is not looked at.
BacksUp ==
  /\ Due("update") /\ Call.content # Empty
  /\ \/ disk' = Renamed(disk, Call.file, Bak(Call.file)) /\ UNCHANGED faults
     \/ Fails("rename") /\ UNCHANGED disk
  /\ phase' = "open"
  /\ UNCHANGED <<task, step, answer, refused, old, marks, tasks>>

\* A file that is still in its place is truncated.
Opens ==
  /\ phase = "open"
  /\ disk' = Stored(disk, Call.file, Cut)
  /\ over' = over \cup ({Call.file} \cap DOMAIN disk)
  /\ phase' = "write"
  /\ UNCHANGED <<task, step, answer, refused, old, unwritten, bounds>>

\* The backup stays where it is.
OpenFails ==
  /\ phase = "open" /\ Fails("open")
  /\ task' = NoTask /\ reply' = "900" /\ phase' = "call"
  /\ UNCHANGED <<disk, step, last, refused, old, marks, tasks>>

\* What the decoder returns is not looked at, and what it left is written up
\* to its first NUL.
Decoded(c) == IF c \in Garbled THEN Cut ELSE c
Writes ==
  /\ phase = "write"
  /\ disk' = Stored(disk, Call.file, Decoded(Call.content))
  /\ unwritten' = unwritten \ {Call.file}
  /\ Continues
  /\ UNCHANGED <<refused, old, over, bounds>>

\* Neither write nor close is looked at: a full disk passes for a success.
WriteFails ==
  /\ phase = "write" /\ Fails("full")
  /\ unwritten' = unwritten \cup {Call.file}
  /\ Continues
  /\ UNCHANGED <<disk, refused, old, over, tasks>>

\* nginx -t: the caller compares the result with RET_ERROR, which is never
\* returned, so what is refused is treated as what is accepted.
Tests ==
  /\ Due("test")
  /\ refused' \in BOOLEAN
  /\ Continues
  /\ UNCHANGED <<disk, old, marks, bounds>>

Ends ==
  /\ task # NoTask /\ phase = "call" /\ step > Len(Calls(task))
  /\ Answers("200")
  /\ UNCHANGED <<disk, refused, old, marks, bounds>>

\* The worker dies, the one that replaces it knows nothing of the task.
Dies ==
  /\ task # NoTask /\ Fails("dies")
  /\ task' = NoTask /\ phase' = "call"
  /\ UNCHANGED <<disk, step, answer, refused, old, marks, tasks>>

UpdateFile == RefusesEmpty \/ BacksUp \/ Opens \/ OpenFails \/ Writes \/ WriteFails

Runs == Deletes \/ MakesDir \/ MkdirFails \/ UpdateFile \/ Tests \/ Ends \/ Dies

\* Everything is installed, once.
Init ==
  /\ disk = [f \in {Live("conf", "nginx"), Live("sites", "site"), Live("conf", "cache"),
                    pem, key, Live("lua", "lua"), Live("html", "html")} |-> First]
  /\ task = NoTask /\ step = 1 /\ phase = "call"
  /\ last = NoTask /\ reply = "none" /\ refused = FALSE
  /\ old = disk /\ over = {} /\ unwritten = {}
  /\ faults = MaxFaults /\ tasks = MaxTasks

Next == (\E t \in Task : Accepts(t)) \/ Runs

Spec == Init /\ [][Next]_vars

-----------------------------------------------------------------------------
(* Properties.                                                             *)

Contents == Version \cup {First, Cut}

\* Every variable has its type.
TypeOK ==
  /\ DOMAIN disk \subseteq File /\ \A f \in DOMAIN disk : disk[f] \in Contents
  /\ DOMAIN old \subseteq File /\ \A f \in DOMAIN old : old[f] \in Contents
  /\ over \subseteq File /\ unwritten \subseteq File
  /\ task \in Task \cup {NoTask} /\ step \in 1..7 /\ phase \in {"call", "open", "write"}
  /\ last \in Task \cup {NoTask} /\ reply \in {"none", "200", "900", "902"}
  /\ refused \in BOOLEAN
  /\ faults \in 0..MaxFaults /\ tasks \in 0..MaxTasks

Has(f, c) == f \in DOMAIN disk /\ disk[f] = c

\* A task that removes its file, and the one that writes nginx.conf twice.
KeepsNothing(t) ==
  \/ t.kind = "lua" /\ t.opt = "remove"
  \/ t.kind = "nginx_main" /\ t.dir = "conf"

\* Whatever fails, and wherever the worker dies, what was in use when a task
\* began is still on disk, in its place or as its backup, until the next begins;
\* unless the rename failed and the file was opened all the same, which empties
\* the only copy (nodes_nginx_backup_file, nodes_nginx_update_file).
OldKept ==
  last # NoTask /\ ~KeepsNothing(last) =>
    \A f \in DOMAIN old : f.baks = 0 /\ f \notin over =>
      Has(f, old[f]) \/ Has(Bak(f), old[f])

\* The task has come to the opening of the file.
Moved(f) ==
  \E i \in DOMAIN Calls(last) :
    /\ Calls(last)[i].do = "update" /\ Calls(last)[i].content # Empty
    /\ Calls(last)[i].file = f
    /\ i < step \/ (i = step /\ phase # "call")

\* While a task runs, a file is in its place until it is renamed, and from then
\* on it is its backup; one that could not be renamed is in its place until it
\* is opened.
IInv ==
  /\ TypeOK /\ OldKept
  /\ task # NoTask => last = task /\ step =< Len(Calls(task)) + 1
  /\ phase # "call" => /\ task # NoTask /\ step =< Len(Calls(task))
                       /\ Call.do = "update" /\ Call.content # Empty
  /\ task # NoTask /\ ~KeepsNothing(task) =>
       \A f \in DOMAIN old : f.baks = 0 /\ f \notin over =>
         \/ Moved(f) /\ Has(Bak(f), old[f])
         \/ (Moved(f) => phase = "open" /\ Call.file = f) /\ Has(f, old[f])

\* What an update is to install, and where.
Installs(t) ==
  CASE t.kind = "nginx_main" -> {<<Live("conf", "nginx"), t.content>>}
    [] t.kind = "site"       -> {<<Live("sites", "site"), t.content>>}
    [] t.kind = "ssl"        -> {<<pem, t.content>>, <<key, t.extra>>}
    [] t.kind = "lua"        -> {<<Live("lua", "lua"), t.content>>}
    [] t.kind = "errpage"    -> {<<Live("html", "html"), t.content>>}
    [] t.kind = "cache"      -> {}

\* An update answered with 200 is installed, and both files of a certificate
\* are: whole, but for the file that the disk had no room for and the content
\* that does not decode, which leave one that is cut; the exceptions are a site
\* without content, and cache (nodes_task_nginx_process, nodes_task_ssl_process).
DoneInstalls ==
  reply = "200" /\ last.opt = "update" /\ ~(last.kind = "site" /\ last.content = Empty) =>
    \A i \in Installs(last) : Has(i[1], IF i[1] \in unwritten THEN Cut ELSE Decoded(i[2]))

\* "test nginx -t, if error then delete ./conf." (nodes_tasks.cpp:315): what
\* nginx refused is not in its configuration once the task is answered.
RejectedNotLive ==
  reply = "200" /\ refused => \A i \in Installs(last) : ~Has(i[1], i[2])
=============================================================================
