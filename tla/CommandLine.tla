------------------------------ MODULE CommandLine -----------------------------
(***************************************************************************)
(* The command line of a node (nodes_cmdline.cpp): the command of option   *)
(* -i or lines that are typed, parsed, run against the management server,  *)
(* repeated when the line says so.  What the server and the tasks do is    *)
(* NodesPulls; here a call succeeds or fails.                              *)
(***************************************************************************)
EXTENDS Naturals, Sequences, SequencesExt, FiniteSetsExt

CONSTANTS Typed,     \* the lines that may be typed: sequences of words
          Given,     \* commands of option -i, or NoText
          Request    \* numbers of the tasks the server may list

ASSUME CommandAssumption ==
  /\ Typed \subseteq Seq(STRING) /\ Given \subseteq Seq(STRING)
  /\ Request \subseteq Nat

\* No text at all: an empty line, the end of the input, no option -i.
NoText == <<>>
Blank  == <<" ">>
Words(line) == IF line = Blank THEN <<>> ELSE line

VARIABLES at,        \* parse, login, beat, pull, again, prompt, over
          cmd,       \* the text that is read from
          given,     \* process_option_command_str
          flags,     \* what the line asked for
          token,     \* there is a token
          requests,  \* the tasks to pull, with the failures of each
          todo,      \* those of this pass that are still to be pulled
          failed,    \* map_temp: those that are to be pulled once more
          asked,     \* history: the line the command comes from
          entered    \* history: a login has succeeded

commandVars == <<at, cmd, given, flags, token, requests, todo, failed, asked, entered>>

\* nodes_test_command_parse.  Of the words after the command, one behind -t is
\* its time, as atoi and an unsigned comparison take it; -t at the end of the
\* line says nothing, and some options are taken without a use.
LongEnough == {"6", "-1"}
Prints     == {"-trace", "-debug", "-error"}
Known      == Prints \union {"-", "-t", "-tx"}
Sound(words) ==
  \A i \in 2..Len(words) :
    IF i > 2 /\ words[i - 1] = "-t" THEN words[i] \in LongEnough ELSE words[i] \in Known

\* What a sound line asks for; the last of the options that print holds.
PrintOptions(words) == {i \in 2..Len(words) : words[i] \in Prints}
NoFlags == [repeat |-> FALSE, print |-> "none"]
\* Mutant of FlagsOf: what to print is not reset before the options are read.
FlagsOver(words) ==
  [repeat |-> \E i \in 2..Len(words) - 1 : words[i] = "-t",
   print  |-> IF PrintOptions(words) = {} THEN flags.print ELSE words[Max(PrintOptions(words))]]
FlagsOf(words) ==
  [repeat |-> \E i \in 2..Len(words) - 1 : words[i] = "-t",
   print  |-> IF PrintOptions(words) = {} THEN "none" ELSE words[Max(PrintOptions(words))]]

ShellInit ==
  /\ given \in Given /\ cmd = given /\ asked = given
  /\ at = "parse" /\ flags = NoFlags
  /\ token = FALSE /\ requests = <<>> /\ todo = {} /\ failed = <<>> /\ entered = FALSE
-----------------------------------------------------------------------------
Server == {"authlogin", "heartbeat", "pulltask", "statlogs", "statload"}
Local  == {"defense", "nodeslogs", "stopnodes"}

\* Where a command begins once its line is parsed.
RunsFrom(c) ==
  CASE c = "authlogin" -> "login"
    [] c \in Server \ {"authlogin"} /\ ~token -> "login"
    [] c \in {"heartbeat", "pulltask"} /\ token -> "beat"
    [] c \in {"statlogs", "statload"} /\ token -> "again"
    [] c \in {"quit", "exit"} -> "over"
    [] OTHER -> "prompt"

\* Without text the prompt comes next.  A blank line goes on for ever: it has
\* no word, and the loop starts again with the same text.
NothingTyped ==
  /\ at = "parse" /\ cmd = NoText
  /\ at' = "prompt"
  /\ UNCHANGED <<cmd, given, flags, token, requests, todo, failed, asked, entered>>

\* A line that is refused has lost its options, and is parsed again, which
\* sets the flags anew before anything looks at them.
Parses ==
  LET words == Words(cmd) IN
  /\ at = "parse" /\ words # <<>>
  /\ cmd' = <<words[1]>>
  /\ \/ Sound(words) /\ flags' = FlagsOf(words) /\ at' = RunsFrom(words[1])
     \/ ~Sound(words) /\ UNCHANGED <<at, flags>>
  /\ UNCHANGED <<given, token, requests, todo, failed, asked, entered>>

\* nodes_handler_authed_check; an answer without a token is a success.
LogsIn ==
  /\ at = "login"
  /\ \/ /\ token' \in BOOLEAN /\ entered' = TRUE
        /\ at' = IF cmd[1] \in {"heartbeat", "pulltask"} THEN "beat" ELSE "again"
     \/ at' = "again" /\ UNCHANGED <<token, entered>>
  /\ UNCHANGED <<cmd, given, flags, requests, todo, failed, asked>>

ToPull(f) == IF DOMAIN f = {} THEN "again" ELSE "pull"

\* nodes_handler_heartbeat, which fails or lists the tasks there are now;
\* nodes_test_pulltask asks only when it knows of no task.
Asks ==
  /\ at = "beat"
  /\ IF cmd[1] = "pulltask" /\ DOMAIN requests # {} THEN UNCHANGED requests
     ELSE \/ \E s \in SUBSET Request : requests' = [r \in s |-> 0]
          \/ UNCHANGED requests
  /\ at' = IF cmd[1] = "heartbeat" THEN "again" ELSE ToPull(requests')
  /\ todo' = IF at' = "pull" THEN DOMAIN requests' ELSE {}
  /\ failed' = <<>>
  /\ UNCHANGED <<cmd, given, flags, token, asked, entered>>

\* nodes_handler_pull_task of the next task of the pass.
Pulls ==
  /\ at = "pull" /\ todo # {}
  /\ LET r == CHOOSE r \in todo : \A s \in todo : r <= s IN
     /\ todo' = todo \ {r}
     /\ \/ UNCHANGED failed
        \/ /\ requests[r] <= 6
           /\ failed' = [s \in DOMAIN failed \union {r} |-> IF s = r THEN requests[r] + 1 ELSE failed[s]]
  /\ UNCHANGED <<at, cmd, given, flags, token, requests, asked, entered>>

PassIsOver ==
  /\ at = "pull" /\ todo = {}
  /\ requests' = failed /\ todo' = DOMAIN failed /\ failed' = <<>>
  /\ at' = ToPull(failed)
  /\ UNCHANGED <<cmd, given, flags, token, asked, entered>>

\* nodes_test_command_select sleeps, whatever is typed.
GoesAgain ==
  /\ at = "again"
  /\ at' = IF flags.repeat THEN RunsFrom(cmd[1]) ELSE "prompt"
  /\ UNCHANGED <<cmd, given, flags, token, requests, todo, failed, asked, entered>>

\* The command of option -i is the only one; otherwise a line is read.
Prompts ==
  /\ at = "prompt"
  /\ \/ given # NoText /\ given' = NoText /\ at' = "over" /\ UNCHANGED <<cmd, asked>>
     \/ /\ given = NoText /\ at' = "parse" /\ UNCHANGED given
        /\ cmd' \in Typed \union {NoText} /\ asked' = cmd'
  /\ UNCHANGED <<flags, token, requests, todo, failed, entered>>

ShellNext == NothingTyped \/ Parses \/ LogsIn \/ Asks \/ Pulls \/ PassIsOver \/ GoesAgain \/ Prompts
-----------------------------------------------------------------------------
(***************************************************************************)
(* The command that runs is the one of the last line; it has the flags of  *)
(* that line when the line is sound and none otherwise, and only a sound   *)
(* line is repeated.  The server is asked for tasks after a login only,    *)
(* each of them is pulled eight times at most, and none is known to the    *)
(* node once they were pulled (nodes_cmdline.cpp:94-169, 228-330,          *)
(* 426-484).                                                               *)
(***************************************************************************)
RunsAsTyped ==
  /\ at \in {"login", "beat", "pull", "again"} =>
       /\ cmd = <<asked[1]>> /\ asked[1] \in Server
       /\ flags.repeat => Sound(asked) /\ "-t" \in ToSet(asked)
       /\ flags.print # "none" => Sound(asked) /\ flags.print \in ToSet(asked)
  /\ at \in {"beat", "pull"} => entered
  /\ \A r \in DOMAIN requests : requests[r] <= 7
  /\ at = "again" /\ cmd[1] = "pulltask" => DOMAIN requests = {} \/ ~token
  /\ given # NoText => asked = given
=============================================================================
