------------------------------ MODULE ConfigLoad ------------------------------
(***************************************************************************)
(* Loading conf/server.conf (modules_load.cpp, modules_parse.cpp and the   *)
(* commands of modules_core, modules_errlog, modules_event and             *)
(* modules_nodes): at start, and again by the master at every reload.      *)
(*                                                                         *)
(* A line is a sequence of words and of the marks ";", "{" and "}"; "#" is *)
(* a comment that follows what is before it directly, "_#" one after a     *)
(* space.  The file is chosen line by line while it is read.               *)
(***************************************************************************)
EXTENDS Integers, Sequences, SequencesExt, FiniteSets, FiniteSetsExt

CONSTANTS Lines,     \* the lines a file may have
          MaxLoads   \* bound: loads in a behaviour

\* An empty line is passed over before it is read.
ASSUME LinesAssumption == \A line \in Lines : line # <<>> /\ line \in Seq(STRING)

VARIABLES load,     \* the load in progress
          root,     \* root_cycle: the load it is of, and what it says
          logsRoot, \* logs_root: the logs linked to it, each with its load
          destroyed,\* the loads whose pool was destroyed
          manager,  \* the load that made the object of ptr_nodes_cycle
          loads,    \* how many loads there were
          linesRead,\* history: the lines the last load has read
          past      \* history: what the files of the loads that ended say

configVars == <<load, root, logsRoot, destroyed, manager, loads, linesRead, past>>

Marks == {";", "{", "}"}
Unset == -1      \* CMD_CONF_UNSET
FD_SETSIZE == 1024

Contexts == {"main", "events", "nodes"}

\* The commands of the modules: where each belongs, whether it opens a block.
Commands ==
  [daemon |-> [at |-> "main", block |-> FALSE, words |-> {2}],
   worker_processes |-> [at |-> "main", block |-> FALSE, words |-> {2}],
   error_log |-> [at |-> "main", block |-> FALSE, words |-> {2, 3, 4}],
   events |-> [at |-> "main", block |-> TRUE, words |-> {1}],
   nodes |-> [at |-> "main", block |-> TRUE, words |-> {1}],
   use |-> [at |-> "events", block |-> FALSE, words |-> {2}],
   worker_connections |-> [at |-> "events", block |-> FALSE, words |-> {2}],
   accept_mutex_delay |-> [at |-> "events", block |-> FALSE, words |-> {2}],
   edge_path |-> [at |-> "nodes", block |-> FALSE, words |-> {2}]]

\* atoi of the words a number is read with; another word is 0.
Number(word) == CASE word = "1" -> 1 [] word = "2" -> 2 [] word = "60" -> 60
                  [] word = "2000" -> 2000 [] OTHER -> 0
-----------------------------------------------------------------------------
\* read_token cuts a line before the character in front of its "#".
Sentence(line) ==
  LET hash == {i \in DOMAIN line : line[i] \in {"#", "_#"}} IN
  IF hash = {} THEN line
  ELSE SubSeq(line, 1, Min(hash) - (IF line[Min(hash)] = "#" THEN 2 ELSE 1))

\* Its words and mark: what follows the first mark is lost, and a line
\* without one says nothing.  A comment line leaves the last words alone.
ReadToken(line, args) ==
  LET s == Sentence(line)
      at == {i \in DOMAIN s : s[i] \in Marks}
  IN CASE line[1] = "#" -> [args |-> args, mark |-> ";"]
       [] line[1] # "#" /\ at = {} -> [args |-> <<>>, mark |-> ";"]
       [] OTHER -> [args |-> SubSeq(s, 1, Min(at) - 1), mark |-> s[Min(at)]]

NoEvents == [use |-> "unset", connections |-> Unset]

\* event_core_init_conf.  epoll_module is in no cycle, so the value that
\* stands for it is the one of no module.
WithDefaults(e) ==
  [use |-> IF e.use = "unset" THEN "epoll" ELSE e.use,
   connections |-> IF e.connections = Unset THEN 512 ELSE e.connections]

\* select_init_conf
TooMany(e) == e.use = "select" /\ e.connections > FD_SETSIZE

Fresh == [at |-> "main", args |-> <<>>, daemon |-> Unset, workers |-> Unset,
          events |-> NoEvents, path |-> <<>>, blocks |-> {}]
AtRest == [Fresh EXCEPT !.at = "rest"]

\* The last settings of a block that is closed by "}" or by the end of file.
EventsClosed(l) == [l EXCEPT !.events = WithDefaults(@), !.at = "main", !.args = <<>>]
NodesClosed(l) == [l EXCEPT !.path = IF @ = <<>> THEN <<"default">> ELSE @,
                            !.at = "main", !.args = <<>>]

ConfigInit ==
  /\ load = AtRest
  /\ root = [load |-> 0]
  /\ logsRoot = <<>>
  /\ destroyed = {}
  /\ manager = 0
  /\ loads = 0
  /\ linesRead = <<>>
  /\ past = <<>>
-----------------------------------------------------------------------------
(* What the lines of a file f say, told without reading them in turn.      *)

\* The mark at p ends the line: the first one, and no comment eats it.
Ends(line, p) ==
  /\ line[p] \in Marks /\ \A q \in 1..p - 1 : line[q] \notin Marks
  /\ \A h \in DOMAIN line : (line[h] = "#" => p < h - 1) /\ (line[h] = "_#" => p < h)

Opens(f, i) ==
  Len(f[i]) >= 2 /\ Ends(f[i], 2) /\ f[i][2] = "{" /\ f[i][1] \in {"events", "nodes"}
Closes(f, i) == \E p \in DOMAIN f[i] : Ends(f[i], p) /\ f[i][p] = "}"
Tells(f, i, name) ==
  /\ f[i][1] = name
  /\ \E p \in DOMAIN f[i] : Ends(f[i], p) /\ f[i][p] = ";" /\ p - 1 \in Commands[name].words
Value(f, i) == f[i][2]

\* The line that opened the block line i is in, 0 outside of all: a line that
\* would open a block inside another opens none.
Unclosed(f, i) == {j \in 1..i - 1 : Opens(f, j) /\ ~\E k \in j..i - 1 : Closes(f, k)}
Opener(f, i) == IF Unclosed(f, i) = {} THEN 0 ELSE Min(Unclosed(f, i))
BlockOf(f, i) == IF Opener(f, i) = 0 THEN "main" ELSE f[Opener(f, i)][1]

LastOf(S) == IF S = {} THEN 0 ELSE Max(S)
Opening(f, block) ==
  {i \in DOMAIN f : Opens(f, i) /\ BlockOf(f, i) = "main" /\ f[i][1] = block}

\* The lines that tell it where it belongs, of a block those of the last one.
Told(f, name) ==
  LET block == Commands[name].at
  IN {i \in DOMAIN f : /\ Tells(f, i, name) /\ BlockOf(f, i) = block
                       /\ block # "main" => Opener(f, i) = LastOf(Opening(f, block))}
InOrder(S) == [k \in 1..Cardinality(S) |-> Min({i \in S : Cardinality({j \in S : j < i}) = k - 1})]
ValuesTold(f, name) ==
  LET lines == InOrder(Told(f, name)) IN [k \in DOMAIN lines |-> Value(f, lines[k])]

ClosedNodes(f, toTheEnd) ==
  \/ \E i \in DOMAIN f : Closes(f, i) /\ BlockOf(f, i) = "nodes"
  \/ toTheEnd /\ Opening(f, "nodes") # {}
-----------------------------------------------------------------------------
(* add_to_conf: a pool and a cycle for the new load; the cycle that runs   *)
(* loses its conn_size at once.                                            *)

Begin ==
  /\ load = AtRest /\ loads < MaxLoads
  /\ loads > 0 => root.load > 0     \* main returns when its load fails
  /\ load' = Fresh
  /\ loads' = loads + 1
  /\ root' = IF root.load = 0 THEN root ELSE [root EXCEPT !.connections = 0]
  /\ linesRead' = <<>>
  /\ UNCHANGED <<logsRoot, destroyed, manager, past>>

Ended(ok, toTheEnd) ==
  past' = Append(past, [ok |-> ok, logs |-> ValuesTold(linesRead', "error_log"),
                        nodes |-> ClosedNodes(linesRead', toTheEnd)])

\* The pool is destroyed; the logs in it stay linked to logs_root.
Fail(toTheEnd) ==
  /\ load' = AtRest
  /\ destroyed' = destroyed \union {loads}
  /\ Ended(FALSE, toTheEnd)
  /\ UNCHANGED root

GoesOn(l) == load' = l /\ UNCHANGED <<root, destroyed, past>>

\* nodes_block's end: a nodes_cycle takes the place of the one there was.
ManagerMade == manager' = loads

CloseBlock ==
  \/ /\ load.at = "main"
     /\ Fail(FALSE) /\ UNCHANGED <<manager, logsRoot>>
  \/ /\ load.at = "events"
     /\ IF TooMany(WithDefaults(load.events)) THEN Fail(FALSE) ELSE GoesOn(EventsClosed(load))
     /\ UNCHANGED <<manager, logsRoot>>
  \/ /\ load.at = "nodes"
     /\ GoesOn(NodesClosed(load))
     /\ ManagerMade /\ UNCHANGED logsRoot

\* error_log: a log of the new pool goes to the end of the list.
ErrorLogReplaces(path) == logsRoot' = <<[load |-> loads, path |-> path]>>
ErrorLogLinked(path) == logsRoot' = Append(logsRoot, [load |-> loads, path |-> path])

\* What a command does with its words: the new load, or {} when it fails.
OpenedAgain(l, name) == [l EXCEPT !.at = name, !.blocks = @ \union {name}]
Opened(l, name) ==
  IF name = "events"
  THEN [l EXCEPT !.at = name, !.blocks = @ \union {name}, !.events = NoEvents]
  ELSE [l EXCEPT !.at = name, !.blocks = @ \union {name}, !.path = <<>>]

Processes(word) == IF word = "auto" THEN 2 ELSE Number(word)
SetWorkers(l, word) ==
  IF l.workers # Unset \/ Processes(word) = 0 THEN {} ELSE {[l EXCEPT !.workers = Processes(word)]}

EventConnections(l, word) ==
  IF l.events.connections # Unset THEN {l}
  ELSE IF Number(word) = 0 THEN {} ELSE {[l EXCEPT !.events.connections = Number(word)]}

EventUse(l, word) ==
  {IF l.events.use = "unset" /\ word = "select" THEN [l EXCEPT !.events.use = word] ELSE l}

Set(l, args) ==
  LET name == args[1]
  IN CASE name \in {"events", "nodes"} -> {Opened(l, name)}
       [] name = "daemon" -> {[l EXCEPT !.daemon = IF args[2] = "on" THEN 1 ELSE 0]}
       [] name = "worker_processes" -> SetWorkers(l, args[2])
       [] name = "use" -> EventUse(l, args[2])
       [] name = "worker_connections" -> EventConnections(l, args[2])
       [] name = "edge_path" -> {[l EXCEPT !.path = Append(@, args[2])]}
       [] name = "accept_mutex_delay" -> {}   \* modules_parse::msec
       [] OTHER -> {l}                        \* error_log: see Handler

\* The words of a block's own line stay until its first line is read.
Kept(l) == IF l.at = load.at THEN [l EXCEPT !.args = <<>>] ELSE l

Handler(args, mark) ==
  /\ UNCHANGED manager
  /\ LET known == args[1] \in DOMAIN Commands
         cmd == Commands[args[1]]
         fits == cmd.block = (mark = "{") /\ Len(args) \in cmd.words
         l == [load EXCEPT !.args = args]
     IN \/ /\ ~known
           /\ Fail(FALSE) /\ UNCHANGED logsRoot
        \/ /\ known /\ cmd.at # load.at      \* found, and passed over
           /\ GoesOn(Kept(l)) /\ UNCHANGED logsRoot
        \/ /\ known /\ cmd.at = load.at /\ (~fits \/ Set(l, args) = {})
           /\ Fail(FALSE) /\ UNCHANGED logsRoot
        \/ /\ known /\ cmd.at = load.at /\ fits
           /\ \E s \in Set(l, args) : GoesOn(Kept(s))
           /\ IF args[1] = "error_log" THEN ErrorLogLinked(args[2]) ELSE UNCHANGED logsRoot

\* One turn of include_file's loop.
ReadLine(line) ==
  LET token == ReadToken(line, load.args) IN
  /\ load.at \in Contexts
  /\ linesRead' = Append(linesRead, line)
  /\ UNCHANGED loads
  /\ \/ token.mark = "}" /\ CloseBlock
     \/ /\ token.mark # "}" /\ token.args = <<>>
        /\ GoesOn([load EXCEPT !.args = <<>>])
        /\ UNCHANGED <<manager, logsRoot>>
     \/ /\ token.mark # "}" /\ token.args # <<>>
        /\ Handler(token.args, token.mark)

\* The end of the file ends the open block too, then the modules' init_conf
\* judge: those of events and nodes give back what their block made.
EndOfFile ==
  LET l == CASE load.at = "events" -> EventsClosed(load)
             [] load.at = "nodes" -> NodesClosed(load)
             [] OTHER -> load
      refused == load.at = "events" /\ TooMany(WithDefaults(load.events))
  IN
  /\ load.at \in Contexts
  /\ UNCHANGED <<loads, logsRoot, linesRead>>
  /\ IF load.at = "nodes" THEN ManagerMade ELSE UNCHANGED manager
  /\ \/ Fail(TRUE)    \* getpwnam knows no such user, or one of the next
     \/ /\ ~refused /\ l.blocks = {"events", "nodes"}
        /\ root' = [load |-> loads, daemon |-> IF l.daemon = Unset THEN 1 ELSE l.daemon,
                    workers |-> IF l.workers = Unset THEN 1 ELSE l.workers,
                    use |-> l.events.use, connections |-> l.events.connections,
                    path |-> l.path]
        /\ load' = AtRest
        /\ Ended(TRUE, TRUE)
        /\ UNCHANGED destroyed

ConfigNext == Begin \/ (\E line \in Lines : ReadLine(line)) \/ EndOfFile
-----------------------------------------------------------------------------
ValueOf(f, S, default) == IF S = {} THEN default ELSE Value(f, Max(S))

(***************************************************************************)
(* The settings of a file that was accepted are those its lines tell: the  *)
(* last daemon, the one worker_processes, the first of each name in the    *)
(* last events block, the edge_path lines of the last nodes block joined;  *)
(* an accepted file has both blocks, and a directive in the wrong block or *)
(* with a comment glued to its end counts for nothing (modules_parse.cpp). *)
(***************************************************************************)
AsWritten ==
  (load = AtRest /\ root.load = loads /\ loads > 0) =>
    LET told(name) == Told(linesRead, name)
        values(name) == ValuesTold(linesRead, name)
    IN
    /\ Opening(linesRead, "events") # {} /\ Opening(linesRead, "nodes") # {}
    /\ Cardinality(told("worker_processes")) <= 1
    /\ root.daemon = (IF ValueOf(linesRead, told("daemon"), "on") = "on" THEN 1 ELSE 0)
    /\ root.workers = Processes(ValueOf(linesRead, told("worker_processes"), "1"))
    /\ root.connections = (IF told("worker_connections") = {} THEN 512
                           ELSE Number(Value(linesRead, Min(told("worker_connections")))))
    /\ root.use = (IF \E i \in told("use") : Value(linesRead, i) = "select"
                   THEN "select" ELSE "epoll")
    /\ root.path = (IF told("edge_path") = {} THEN <<"default">> ELSE values("edge_path"))

(***************************************************************************)
(* Between loads: the root cycle is the last that was accepted, and its    *)
(* conn_size is lost exactly when a load has failed since; logs_root has   *)
(* the logs of every load in order, and those whose memory is gone are     *)
(* exactly those of loads that failed; the manager object is of the last   *)
(* load that closed its nodes block, so unless one failed after that it is *)
(* the root's (modules_load.cpp:82, modules_errlog.cpp:96,                 *)
(* modules_nodes.cpp:110).                                                 *)
(***************************************************************************)
LoadsAccounted ==
  load = AtRest =>
    LET logs(k) == [i \in DOMAIN past[k].logs |-> [load |-> k, path |-> past[k].logs[i]]]
        failed == {k \in DOMAIN past : ~past[k].ok}
    IN
    /\ root.load = LastOf(DOMAIN past \ failed)
    /\ root.load > 0 => (root.connections = 0 <=> root.load < loads)
    /\ logsRoot = FlattenSeq([k \in DOMAIN past |-> logs(k)])
    /\ {e \in ToSet(logsRoot) : e.load \in destroyed} = {e \in ToSet(logsRoot) : e.load \in failed}
    /\ manager = LastOf({k \in DOMAIN past : past[k].nodes})
    /\ failed = {} => manager = root.load
=============================================================================
