------------------------------- MODULE MCKits --------------------------------
(***************************************************************************)
(* The kits that share no state with one another, checked in one run: a    *)
(* behaviour is a behaviour of one of them, the others stay as they began. *)
(***************************************************************************)
EXTENDS RBTree, EventLoop, AllocPool, CircuitQueue, ThreadPool,
        ConfigLoad, Startup, Conversions, Streams, CommandLine, Steps, Sockets, DevStat, Bitwise

VARIABLE part  \* the kit this behaviour is of

MCTreeKey == <<{1}, {1}, {2}, {3}, {2}>>

MCLines ==
  {<<"daemon", "off", ";">>, <<"daemon", "off", ";", "#">>, <<"worker_processes", "2", ";">>,
   <<"error_log", "e", ";">>, <<"events", "{">>, <<"nodes", "{">>, <<"}">>,
   <<"use", "select", ";", "}">>, <<"worker_connections", "60", ";">>,
   <<"worker_connections", "2000", ";">>, <<"accept_mutex_delay", "60", ";">>,
   <<"edge_path", "a", ";">>, <<"#">>, <<"user", "nobody", ";">>}

\* A first file has four lines; five when it ends with "nodes {" or its third
\* line closes the events block it begins with; six when "nodes {" follows.
\* The files of a reload are a good one and one that fails after two lines.
MaxLines == 4
EventsFirst(file) == file[1] = <<"events", "{">> /\ file[3] = <<"}">>
FirstFile(file) ==
  \/ Len(file) <= MaxLines
  \/ Len(file) = MaxLines + 1 /\ (EventsFirst(file) \/ file[Len(file)] = <<"nodes", "{">>)
  \/ Len(file) = MaxLines + 2 /\ EventsFirst(file) /\ <<"nodes", "{">> \in {file[4], file[5]}
MCReloads == {<<<<"error_log", "e", ";">>, <<"events", "{">>, <<"}">>, <<"nodes", "{">>>>,
              <<<<"error_log", "e", ";">>, <<"nodes", "{">>, <<"}">>, <<"user", "nobody", ";">>>>}
MCConfig ==
  /\ ConfigNext
  /\ loads' = 1 => FirstFile(linesRead')
  /\ loads' > 1 => \E file \in MCReloads : IsPrefix(linesRead', file)

MCPid == <<<<1, 2>>, <<3>>, <<4>>>>
MCOptions == {<<>>, <<"V">>, <<"i">>, <<"t", "?">>, <<"?", "t">>, <<"s stop">>}

\* One descriptor and two slots are enough with select, where connections are
\* lost and slots left over; with epoll a second descriptor opens when the
\* clock has moved.
MaxSlots == 2
MCLoop ==
  /\ LoopNext
  /\ backend = "select" => io'.open \subseteq {1, 3} /\ Len(io'.slots) <= MaxSlots /\ errors' = 0
  /\ io'.open = {1, 3, 4} => io'.now = MaxNow

\* The kernel returns the least descriptor that is free.
OpenIn(peers) == {f \in SocketFd : peers[f] # Closed}
MCSockets ==
  /\ SocketsNext
  /\ \A f \in OpenIn(peer') \ OpenIn(peer), g \in SocketFd \ OpenIn(peer) : f <= g

\* One launch is enough that serves though it was told to test.
MCStart == StartNext /\ \A l \in {2, 3} : opts'[l] # <<"?", "t">>

MCXor(a, b) == a ^^ b

MCKeys == {<<1, 127, 65>>, <<66>>}

\* In front of the alphabet: zeros, a digit, or characters of other kinds.
MCFronts == {[n \in -8..-1 |-> Nul], [n \in -8..-1 |-> 5],
             [n \in -8..-1 |-> IF n = -1 THEN Pad ELSE Foreign]}

MCTyped == {<<"heartbeat">>, <<"pulltask", "-t", "6">>, <<"pulltask", "-t", "3">>,
            <<"pulltask", "-x">>, <<"nodeslogs", "-debug">>, <<"authlogin", "-t">>, <<" ">>,
            <<"authlogin", "-tx", "-t", "-1", "-error">>, <<"statlogs">>, <<"quit">>, <<"what">>}
MCGiven == {<<>>, <<"pulltask">>, <<"pulltask", "x">>, <<" ">>}

\* Nothing is claimed of consoles that crossed.
MCStreams == StreamNext /\ ~crossed

MCAddresses == [one |-> <<"a">>, two |-> <<"b", "c">>, none |-> <<>>]
MCApi == {[tls |-> TRUE, host |-> "two"], [tls |-> FALSE, host |-> "one"],
          [tls |-> FALSE, host |-> "none"], [tls |-> TRUE, host |-> "none"]}

\* Of ticks some do not fit a word of 32 when they are taken four times.
MCTicks == {[user |-> 1, system |-> 1, other |-> 1], [user |-> 4, system |-> 6, other |-> 20],
            [user |-> 3, system |-> 0, other |-> 0]}
MCBytes == {[recv |-> 2, sent |-> 1], [recv |-> 1, sent |-> 3]}
MCCards == <<"lo", "eth0">>
MCWorkers == <<{"a", "b"}, {"d"}>>

\* Where a kit begins that the behaviour is not of: one state of those that
\* may begin in several.
Elsewhere ==
  /\ part # "loop" => backend = "epoll" /\ ~mutex
  /\ part # "codec" => secret = <<66>> /\ front[-1] = 5
  /\ part # "shell" => given = <<>>
  /\ part # "stat" => disks = [root |-> "counted", boot |-> "counted"]
  /\ part # "steps" => nginx /\ \A d \in Domain : dirs[d] = "filled"

KitsInit ==
  /\ part \in {"tree", "loop", "pool", "queue", "threads", "config", "start",
              "codec", "notes", "shell", "steps", "socks", "stat"}
  /\ TreeInit /\ LoopInit /\ PoolInit /\ QueueInit /\ ThreadPoolInit /\ ConfigInit /\ StartInit
  /\ ConversionInit /\ StreamInit /\ ShellInit /\ StepsInit /\ SocketsInit /\ StatInit
  /\ Elsewhere

TreeStill == UNCHANGED treeVars
LoopStill == UNCHANGED loopVars
PoolStill == UNCHANGED poolVars
QueueStill == UNCHANGED queueVars
ThreadsStill == UNCHANGED threadPoolVars
ConfigStill == UNCHANGED configVars
StartStill == UNCHANGED startVars
CodecStill == UNCHANGED conversionVars
NotesStill == UNCHANGED streamVars
ShellStill == UNCHANGED commandVars
StepsStill == UNCHANGED stepVars
SocksStill == UNCHANGED socketVars
StatStill == UNCHANGED statVars

KitsNext ==
  /\ UNCHANGED part
  /\ \/ part = "tree" /\ TreeNext
     \/ part # "tree" /\ TreeStill
  /\ \/ part = "loop" /\ MCLoop
     \/ part # "loop" /\ LoopStill
  /\ \/ part = "pool" /\ PoolNext
     \/ part # "pool" /\ PoolStill
  /\ \/ part = "queue" /\ QueueNext
     \/ part # "queue" /\ QueueStill
  /\ \/ part = "threads" /\ ThreadPoolNext
     \/ part # "threads" /\ ThreadsStill
  /\ \/ part = "config" /\ MCConfig
     \/ part # "config" /\ ConfigStill
  /\ \/ part = "start" /\ MCStart
     \/ part # "start" /\ StartStill
  /\ \/ part = "codec" /\ ConversionNext
     \/ part # "codec" /\ CodecStill
  /\ \/ part = "notes" /\ MCStreams
     \/ part # "notes" /\ NotesStill
  /\ \/ part = "shell" /\ ShellNext
     \/ part # "shell" /\ ShellStill
  /\ \/ part = "steps" /\ StepsNext
     \/ part # "steps" /\ StepsStill
  /\ \/ part = "socks" /\ MCSockets
     \/ part # "socks" /\ SocksStill
  /\ \/ part = "stat" /\ StatNext
     \/ part # "stat" /\ StatStill

KitsSpec ==
  KitsInit /\ [][KitsNext]_<<part, treeVars, loopVars, poolVars, queueVars, threadPoolVars,
                           configVars, startVars, conversionVars, streamVars,
                           commandVars, stepVars, socketVars, statVars>>
=============================================================================
