----------------------------- MODULE AccessLogs -----------------------------
(***************************************************************************)
(* dev_nginx: what a pass of the logs worker reads of the access logs that *)
(* nginx writes, one directory per domain.                                 *)
(*                                                                         *)
(* A line is one unit long, so an offset is a number of lines; in bytes an *)
(* offset that belongs to another file may also fall inside a line.        *)
(***************************************************************************)
EXTENDS Naturals, Sequences, FiniteSets

CONSTANTS
  Domains,   \* number of directories, in the order readdir gives
  Chunk,     \* lines read of a file in a pass: max_size + 1
  MaxLines,  \* bound: lines of a log
  MaxTime,   \* bound: different values of a st_ctime
  Missing    \* directories whose access.log may be missing

ASSUME LogsAssumption ==
  /\ Domains \in Nat \ {0} /\ Chunk \in Nat \ {0}
  /\ MaxLines \in Nat /\ MaxTime \in Nat \ {0}
  /\ Missing \subseteq 1 .. Domains

VARIABLES
  logs,    \* of each access.log: its lines and its st_ctime; 0 lines and time 0: no file
  serial,  \* the time and size in each read_logs.serial, or NoSerial
  reader,  \* read_logs.access_time and access_size, of the dev_nginx of this pass
  at,      \* the directory access_read is at
  result   \* what it has read, as pairs of a directory and a line

logVars == <<logs, serial, reader, at, result>>

Dir   == 1 .. Domains
Times == 0 .. MaxTime
Huge  == MaxLines + 1   \* tellg gave -1: 2^32 - 1 in a u_int
NoSerial == [time |-> MaxTime + 1, size |-> 0]

Least(i, j) == IF i <= j THEN i ELSE j
Fresh       == [time |-> 0, size |-> 0]

LogsInit ==
  /\ logs \in [Dir -> [lines : 0 .. MaxLines, ctime : {1}]]
  /\ serial = [d \in Dir |-> NoSerial]
  /\ reader = Fresh /\ at = 0 /\ result = {}

\* Only whether two times are equal matters; a write in the same second
\* leaves the time as it was.
NginxWrites(d) ==
  /\ logs[d].lines < MaxLines
  /\ \E time \in 1 .. MaxTime :
        logs' = [logs EXCEPT ![d] = [lines |-> @.lines + 1, ctime |-> time]]
  /\ UNCHANGED <<serial, reader, at, result>>

\* The log is moved away; nginx makes a new one, if it is running.
NginxRotates(d) ==
  /\ logs[d].lines > 0
  /\ \E time \in IF d \in Missing THEN Times ELSE 1 .. MaxTime :
        logs' = [logs EXCEPT ![d] = [lines |-> 0, ctime |-> time]]
  /\ UNCHANGED <<serial, reader, at, result>>

\* read_logs_serial(path, 0): the size in the file is read and not used.
Restored(d) == IF serial[d] = NoSerial THEN reader ELSE [reader EXCEPT !.time = serial[d].time]

\* read_access_logs: a new time clears the size kept, not the size used.
Compared(from, d) == IF from.time = logs[d].ctime THEN from ELSE [time |-> logs[d].ctime, size |-> 0]

Taken(from, d) == Least(Chunk, logs[d].lines - from.size)

\* Fewer lines than asked for leave the stream failed.
ReadsFile(d) ==
  LET from == Restored(d) IN
  /\ logs[d].ctime # 0
  /\ IF logs[d].lines = 0 \/ from.size > logs[d].lines
     THEN reader' = Compared(from, d) /\ UNCHANGED result
     ELSE /\ reader' = [time |-> logs[d].ctime,
                        size |-> IF Taken(from, d) < Chunk THEN Huge ELSE from.size + Chunk]
          /\ result' = result \cup {<<d, from.size + n>> : n \in 1 .. Taken(from, d)}

\* No file: stat fails, what it was to fill in is not initialised, the file
\* does not open; any time may have been taken over.
ReadsNothing(d) ==
  /\ logs[d].ctime = 0
  /\ reader' \in {Restored(d)} \cup {[time |-> t, size |-> 0] : t \in Times}
  /\ UNCHANGED result

\* Mutant of ReadDirectory: the serial file is written before the log is read.
SavesFirst ==
  /\ at \in Dir
  /\ ReadsFile(at) \/ ReadsNothing(at)
  /\ serial' = [serial EXCEPT ![at] = Restored(at)]
  /\ at' = at + 1
  /\ UNCHANGED logs

\* One round of access_read; the serial file is written whatever was read.
ReadDirectory ==
  /\ at \in Dir
  /\ ReadsFile(at) \/ ReadsNothing(at)
  /\ serial' = [serial EXCEPT ![at] = reader']
  /\ at' = at + 1
  /\ UNCHANGED logs

\* A new dev_nginx.
ReadingStarts ==
  /\ reader' = Fresh /\ at' = 1 /\ result' = {}
  /\ UNCHANGED <<logs, serial>>

\* The dev_nginx is not read again.
ReadingEnds ==
  /\ reader' = Fresh /\ at' = 0 /\ result' = {}
  /\ UNCHANGED <<logs, serial>>

Nginx == \E d \in Dir : NginxWrites(d) \/ NginxRotates(d)

-----------------------------------------------------------------------------
\* Of each directory a pass reads at most one chunk of lines, in a row, and what
\* it leaves in read_logs.serial says where they end, though one reader serves all
\* directories: behind the last line of a whole chunk, or nowhere (tellg of -1)
\* when the log ended before (dev_nginx.cpp:75-94, 103-151, 205-219).
SerialTells ==
  \A d \in 1 .. at - 1 : \E from \in 0 .. MaxLines, n \in 0 .. Chunk :
    /\ {pair \in result : pair[1] = d} = {<<d, line>> : line \in from + 1 .. from + n}
    /\ n > 0 => serial[d].size = IF n < Chunk THEN Huge ELSE from + n
=============================================================================
