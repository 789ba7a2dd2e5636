-------------------------------- MODULE Startup -------------------------------
(***************************************************************************)
(* Starting the program (core_solution.cpp, process_option.cpp) and the    *)
(* pid file its launches share (core.cpp, core_cycle.cpp): servers claim   *)
(* it, signallers read it, masters delete or rename it.                    *)
(***************************************************************************)
EXTENDS Naturals, Sequences, SequencesExt, FiniteSets, FiniteSetsExt

CONSTANTS Launch,     \* the launches of the program
          Pid,        \* the number each serves under, as its digits
          Options     \* the command lines: sequences of options

ASSUME StartupAssumption ==
  /\ 0 \notin Launch /\ Pid \in [Launch -> Seq(Nat)]
  /\ Options \subseteq Seq(STRING)

VARIABLES phase,      \* what each launch does
          opts,       \* its command line
          names,      \* the file "pid" and "oldpid" name, 0 for none
          text,       \* what is in each file that was ever made
          fd,         \* the file a launch has open
          number,     \* the number a signaller has read
          newBinary,  \* process_new_binary of a master
          since,      \* history: who claimed the file since, 0 for a deletion or a new name
          overlap     \* history: a launch has claimed it before another wrote

startVars == <<phase, opts, names, text, fd, number, newBinary, since, overlap>>

\* The command lines save "s x", a signal by another name, and "?", an
\* option there is none of, stand for themselves; "s" and "c" end a line
\* without their value.
Signals == {"s stop", "s quit", "s reload", "s reopen"}

\* parse_command goes through the options until one ends it.
Ending(o) == {i \in DOMAIN o : o[i] \in {"?", "s x", "s", "c"}}
Taken(o) == IF Ending(o) = {} THEN ToSet(o) ELSE ToSet(SubSeq(o, 1, Min(Ending(o)) - 1))
Refused(o) == Ending(o) # {} /\ o[Min(Ending(o))] \in {"?", "s x"}

\* process_option_parse and main: only show_help, which needs -V, makes main
\* return; an option it refuses makes it go on without looking at -V and -i.
ShowsAndExits(o) == ~Refused(o) /\ "V" \in Taken(o) /\ Taken(o) \cap {"t", "T"} = {}
TestsConfig(o) ==
  \/ Taken(o) \cap {"t", "T"} # {}
  \/ ~Refused(o) /\ "V" \notin Taken(o) /\ "i" \in Taken(o)
SendsSignal(o) ==
  \/ Taken(o) \cap Signals # {}
  \/ Refused(o) /\ o[Min(Ending(o))] = "s x"

\* What a launch does once its configuration is read.
Becomes(o) == CASE ShowsAndExits(o) \/ TestsConfig(o) -> "gone"
                [] ~ShowsAndExits(o) /\ ~TestsConfig(o) /\ SendsSignal(o) -> "signals"
                [] OTHER -> "serves"

\* Of a launch that has not begun, or that ended without claiming the file.
NoLine == <<>>

StartInit ==
  /\ phase = [l \in Launch |-> "off"]
  /\ opts = [l \in Launch |-> NoLine]
  /\ names = [pid |-> 0, oldpid |-> 0]
  /\ text = <<>>
  /\ fd = [l \in Launch |-> 0]
  /\ number = [l \in Launch |-> <<>>]
  /\ newBinary = [l \in Launch |-> 0]
  /\ since = [l \in Launch |-> {}]
  /\ overlap = FALSE

To(l, p) == phase' = [phase EXCEPT ![l] = p]
HasClaimed(l) == phase[l] \in {"claims", "runs"}
\* The claims of all that still run are void: it has no file or another name.
ClaimsVoid == since' = [m \in Launch |-> IF HasClaimed(m) THEN since[m] \union {0} ELSE {}]
-----------------------------------------------------------------------------
\* main up to the configuration, which may fail.
Main(l) ==
  /\ phase[l] = "off"
  /\ \/ To(l, "gone") /\ UNCHANGED opts
     \/ \E o \in Options :
          /\ To(l, Becomes(o))
          /\ opts' = [opts EXCEPT ![l] = IF Becomes(o) = "gone" THEN NoLine ELSE o]
  /\ UNCHANGED <<names, text, fd, number, newBinary, since, overlap>>

\* open of the pid file, which makes it when there is none.
PidFile == IF names.pid # 0 THEN names.pid ELSE Len(text) + 1
OpensPidFile == names' = [names EXCEPT !.pid = PidFile]

\* create_pid: open and truncate; then, in a step of its own, pwrite.  A
\* server that cannot fork claims the file in the foreground all the same;
\* one that cannot open it ends (Main).
NotTruncated == text' = IF names.pid = 0 THEN Append(text, <<>>) ELSE text
Truncated == text' = IF names.pid = 0 THEN Append(text, <<>>)
                     ELSE [text EXCEPT ![names.pid] = <<>>]

Claiming == {l \in Launch : phase[l] = "claims"}
CreatePidOver(l) ==
  /\ phase[l] = "serves"
  /\ To(l, "claims")
  /\ OpensPidFile /\ NotTruncated /\ fd' = [fd EXCEPT ![l] = PidFile]
  /\ since' = [m \in Launch |-> CASE m = l -> Claiming
                                  [] m # l /\ HasClaimed(m) -> since[m] \union {l}
                                  [] OTHER -> {}]
  /\ overlap' = (overlap \/ Claiming # {})
  /\ UNCHANGED <<opts, number, newBinary>>
CreatePid(l) ==
  /\ phase[l] = "serves"
  /\ To(l, "claims")
  /\ OpensPidFile /\ Truncated /\ fd' = [fd EXCEPT ![l] = PidFile]
  /\ since' = [m \in Launch |-> CASE m = l -> Claiming
                                  [] m # l /\ HasClaimed(m) -> since[m] \union {l}
                                  [] OTHER -> {}]
  /\ overlap' = (overlap \/ Claiming # {})
  /\ UNCHANGED <<opts, number, newBinary>>

\* At offset 0, over what is there.
WrittenOver(t, p) == p \o SubSeq(t, Len(p) + 1, Len(t))
WritePid(l) ==
  /\ phase[l] = "claims"
  /\ To(l, "runs")
  /\ text' = [text EXCEPT ![fd[l]] = WrittenOver(@, Pid[l])]
  /\ UNCHANGED <<opts, names, fd, number, newBinary, since, overlap>>

\* signal_process: open or create, read, and in a step of its own kill.
ReadPid(l) ==
  /\ phase[l] = "signals"
  /\ To(l, "kills")
  /\ OpensPidFile /\ NotTruncated /\ number' = [number EXCEPT ![l] = text'[PidFile]]
  /\ UNCHANGED <<opts, fd, newBinary, since, overlap>>

\* unix_signal_process: kill, of nobody when the number is no process's or
\* the name no signal's, of the signaller's own group when it is 0 (atoi of
\* an empty file).  A master exits when told to, as it may without that.
Kill(l) ==
  /\ phase[l] = "kills"
  /\ To(l, "gone")
  /\ opts' = [opts EXCEPT ![l] = NoLine]
  /\ number' = [number EXCEPT ![l] = <<>>]
  /\ UNCHANGED <<names, text, fd, newBinary, since, overlap>>
-----------------------------------------------------------------------------
\* delete_pid, as a master exits, told to or not.
DeletePid(l) ==
  LET name == IF newBinary[l] = 0 THEN "pid" ELSE "oldpid" IN
  /\ phase[l] = "runs"
  /\ To(l, "gone")
  /\ names' = [names EXCEPT ![name] = 0]
  /\ IF name = "pid" THEN ClaimsVoid ELSE UNCHANGED since
  /\ UNCHANGED <<opts, text, fd, number, newBinary, overlap>>

\* A master that is killed leaves its file.
Crash(l) ==
  /\ phase[l] \in {"claims", "runs"}
  /\ To(l, "gone")
  /\ since' = [since EXCEPT ![l] = {}]
  /\ UNCHANGED <<opts, names, text, fd, number, newBinary, overlap>>

\* exec_new_binary: execute starts nothing and returns 0, so the file keeps
\* its new name and process_new_binary stays 0; without a file it is -1.
ExecNewBinary(l) ==
  /\ phase[l] = "runs"
  /\ \/ /\ names.pid # 0
        /\ names' = [pid |-> 0, oldpid |-> names.pid]
        /\ newBinary' = [newBinary EXCEPT ![l] = 0]
        /\ ClaimsVoid
     \/ /\ names.pid = 0
        /\ newBinary' = [newBinary EXCEPT ![l] = 1]   \* -1
        /\ UNCHANGED <<names, since, overlap>>
  /\ UNCHANGED <<phase, opts, text, fd, number, overlap>>

StartNext == \E l \in Launch :
  Main(l) \/ CreatePid(l) \/ WritePid(l) \/ ReadPid(l) \/ Kill(l)
  \/ DeletePid(l) \/ Crash(l) \/ ExecNewBinary(l)
-----------------------------------------------------------------------------
\* What the help text says of -t, -T and -s: the launch does not serve.
MayServe(o) == \A i \in DOMAIN o : o[i] \in {"t", "T"} \union Signals =>
                 \E j \in 1..i - 1 : o[j] \in {"?", "s x", "s", "c"}

(***************************************************************************)
(* The pid file names a running master unless, since it claimed the file,  *)
(* another launch has claimed it, another master has deleted it, or a      *)
(* change of binary has renamed it; only launches that were not told to    *)
(* test or to signal claim it; and a signaller reads nothing or the number *)
(* of a launch that served, unless two of them claimed it at once          *)
(* (core.cpp:40-71, core_cycle.cpp:55-88, core_solution.cpp:62-153).       *)
(***************************************************************************)
PidFileKept ==
  /\ \A m \in Launch : (phase[m] = "runs" /\ since[m] = {}) =>
       names.pid # 0 /\ text[names.pid] = Pid[m]
  /\ \A m, l \in Launch : l \in since[m] => MayServe(opts[l])
  /\ \A l \in Launch : (number[l] # <<>> /\ ~overlap) =>
       \E m \in Launch : fd[m] # 0 /\ number[l] = Pid[m]
=============================================================================
