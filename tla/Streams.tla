-------------------------------- MODULE Streams -------------------------------
(***************************************************************************)
(* One of the streams a node's workers leave notes in (files_stream.cpp):  *)
(* they append to a file, and the consoles that fetch them (nodes_stream.  *)
(* cpp, nodes_cmdline.cpp) keep the place they have read to in a second    *)
(* file, its .serial.  A console that starts moves the file away.          *)
(*                                                                         *)
(* What a console fetches goes into its output_buff and no further:        *)
(* nodes_error_output returns at the empty message it is then called with, *)
(* and the next line clears the buffer (nodes_cmdline.cpp:106, 250, 353).  *)
(* No note is ever printed, though .serial has moved on.                   *)
(***************************************************************************)
EXTENDS Integers, Sequences, FiniteSets, SequencesExt

CONSTANTS Console,    \* the command lines
          Note,       \* the workers that write
          ReadMax,    \* notes one read has room for
          MaxNotes    \* bound: notes that are written

ASSUME StreamAssumption == ReadMax \in Nat

VARIABLES inode,      \* what is in each file there was
          current,    \* the file of the stream, 0 for none
          serial,     \* what the .serial says: a place, "none", or "empty"
          console,    \* each console: where it is, m_rpos_last, m_wpos_last, its open file
          opened,     \* the file a worker has open, 0 for none
          fetched,    \* history: what the consoles have fetched, <<file, place>>
          crossed     \* history: a console began while another was at it

streamVars == <<inode, current, serial, console, opened, fetched, crossed>>

NoPlace == -1     \* there is no .serial
Emptied == -2     \* it is truncated

StreamInit ==
  /\ inode = <<>> /\ current = 0 /\ serial = NoPlace
  /\ console = [c \in Console |-> [at |-> "off", rpos |-> 0, wpos |-> 0, file |-> 0]]
  /\ opened = [n \in Note |-> 0]
  /\ fetched = <<>> /\ crossed = FALSE

Notes == LET Sum(acc, f) == acc + Len(f) IN FoldLeft(Sum, 0, inode)
Quiet(c) == \A d \in Console \ {c} : console[d].at \in {"off", "idle"}
Begins(c) == crossed' = (crossed \/ ~Quiet(c))
-----------------------------------------------------------------------------
\* files_stream::write of a worker, whose serial does nothing: open to append,
\* then write, to a file that may have been moved.
WriteOpens(n) ==
  /\ opened[n] = 0 /\ Notes < MaxNotes
  /\ IF current = 0
     THEN inode' = Append(inode, <<>>) /\ current' = Len(inode) + 1
     ELSE UNCHANGED <<inode, current>>
  /\ opened' = [opened EXCEPT ![n] = current']
  /\ UNCHANGED <<serial, console, fetched, crossed>>

Writes(n) ==
  /\ opened[n] # 0
  /\ inode' = [inode EXCEPT ![opened[n]] = Append(@, n)]
  /\ opened' = [opened EXCEPT ![n] = 0]
  /\ UNCHANGED <<current, serial, console, fetched, crossed>>

\* nodes_stream::init and redirect, as a console starts.
ConsoleStarts(c) ==
  /\ console[c].at = "off"
  /\ current' = 0
  /\ console' = [console EXCEPT ![c] = [at |-> "saves", rpos |-> 0, wpos |-> 0, file |-> 0]]
  /\ Begins(c)
  /\ UNCHANGED <<inode, serial, opened, fetched>>

\* serial(1): truncate, then write.
Saves(c) ==
  /\ console[c].at = "saves"
  /\ serial' = Emptied
  /\ console' = [console EXCEPT ![c].at = "writes"]
  /\ UNCHANGED <<inode, current, opened, fetched, crossed>>

Saved(c) ==
  /\ console[c].at = "writes"
  /\ serial' = console[c].rpos
  /\ console' = [console EXCEPT ![c].at = "idle", ![c].file = 0]
  /\ UNCHANGED <<inode, current, opened, fetched, crossed>>

\* files_stream::read for nodeslogs; without a file it returns at once.
ReadOpens(c) ==
  /\ console[c].at = "idle" /\ current # 0
  /\ console' = [console EXCEPT ![c].at = "loads", ![c].file = current]
  /\ Begins(c)
  /\ UNCHANGED <<inode, current, serial, opened, fetched>>

\* serial(0): the place is kept when the file does not say one; the length is
\* that of the file the name stands for by now.
Loads(c) ==
  LET length == IF current = 0 THEN 0 ELSE Len(inode[current]) IN
  /\ console[c].at = "loads"
  /\ console' = [console EXCEPT ![c].at = "takes",
                   ![c].rpos = IF serial >= 0 THEN serial ELSE @,
                   ![c].wpos = IF serial = NoPlace THEN @ ELSE length]
  /\ UNCHANGED <<inode, current, serial, opened, fetched, crossed>>

\* What read returns: nothing when the place is not before the length.
NextNotes(c) ==
  LET k == console[c] IN
  IF k.wpos <= k.rpos THEN {}
  ELSE {i \in DOMAIN inode[k.file] : k.rpos < i /\ i <= k.rpos + ReadMax}
\* Mutant of Takes: the place is set to the length.
TakesAll(c) ==
  /\ console[c].at = "takes"
  /\ fetched' = fetched \o [i \in 1..Cardinality(NextNotes(c)) |-> <<console[c].file, console[c].rpos + i>>]
  /\ console' = [console EXCEPT ![c].at = "saves", ![c].rpos = console[c].wpos]
  /\ UNCHANGED <<inode, current, serial, opened, crossed>>
Takes(c) ==
  /\ console[c].at = "takes"
  /\ fetched' = fetched \o [i \in 1..Cardinality(NextNotes(c)) |-> <<console[c].file, console[c].rpos + i>>]
  /\ console' = [console EXCEPT ![c].at = "saves", ![c].rpos = @ + Cardinality(NextNotes(c))]
  /\ UNCHANGED <<inode, current, serial, opened, crossed>>

\* quit, between two commands.
ConsoleEnds(c) ==
  /\ console[c].at = "idle"
  /\ console' = [console EXCEPT ![c].at = "off"]
  /\ UNCHANGED <<inode, current, serial, opened, fetched, crossed>>

StreamNext ==
  \/ \E n \in Note : WriteOpens(n) \/ Writes(n)
  \/ \E c \in Console : \/ ConsoleStarts(c) \/ Saves(c) \/ Saved(c)
                        \/ ReadOpens(c) \/ Loads(c) \/ Takes(c) \/ ConsoleEnds(c)
-----------------------------------------------------------------------------
\* The place in file f up to which the first i of the notes s go.
FetchedTo(s, i, f) == IF i = 0 THEN 0 ELSE IF s[i][1] = f THEN s[i][2] ELSE 0

(***************************************************************************)
(* As long as no console begins to read or starts while another reads or   *)
(* starts, the notes of a file are fetched in order from its first, none   *)
(* twice and none left out, by whichever consoles, though the workers      *)
(* write all the while; of a file moved away nothing more is fetched; and  *)
(* a console that waits finds in .serial the place that was reached        *)
(* (files_stream.cpp:76-97, nodes_stream.cpp:39-120).                      *)
(***************************************************************************)
NotesInOrder ==
  ~crossed =>
    /\ \A i \in DOMAIN fetched :
         /\ i > 1 => fetched[i - 1][1] <= fetched[i][1]
         /\ fetched[i][1] \in DOMAIN inode
         /\ fetched[i][2] = FetchedTo(fetched, i - 1, fetched[i][1]) + 1
         /\ fetched[i][2] <= Len(inode[fetched[i][1]])
    /\ \A c \in Console : console[c].at = "idle" =>
         \/ \E d \in Console : console[d].at # "idle" /\ console[d].at # "off"
         \/ serial = FetchedTo(fetched, Len(fetched), current)
=============================================================================
