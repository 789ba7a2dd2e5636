# hystack in TLA+

hystack is the agent of a CDN node. A master process starts three workers and keeps
them alive; the workers log in to a management server, pull tasks from it (write an
nginx configuration, purge a cache, install a certificate, ...), answer them, and
upload access logs and load figures. This directory holds TLA+ models of it, the TLC
instances that check them, and proofs that TLAPS checks. Paths below are relative to
the repository; `src/src/` holds the code.

## 1. Inventory

| component | state | operations | hard behaviour | what makes it correct |
|---|---|---|---|---|
| master and process table (`nodes/nodes_cycle.cpp`, `core/core_cycle.cpp`, `unix/unix_process.cpp`, `core/core.cpp`) | `unix_processes[]`, `unix_process_last`, the `process_*` flags, `live`, `delay`, `sigio`, the pid file | `master_process`, `unix_spawn_process`, `signal_worker_process`, `unix_reap_children`, `unix_process_get_status`, `nodes_start_worker_process`, `exec_new_binary` | signals coalesce and arrive at any point; workers die while they are signalled, spared, respawned; fork fails | no child is lost, none is left behind, no role is served twice, a stop ends |
| worker threads (`kits/thread`) | task list, flag `interupt`, mutex and condition of each thread | `start`, `add_task`, `set_interupt`, `notify`, join; `dispatch` and the destructor of a collection | flag and notification outside the mutex | order and exclusion per index, no task left, the destructor returns |
| error log (`kits/logs`, `kits/module/modules_errlog.cpp`) | a buffer of a page, the file and its `.bak`, a mutex, a flag, a thread | `logs_print`, `logs_handler_write_buffer`, `logs_print_task::run`, `errlog_init_process`, `errlog_exit_process` | a flusher, a writer and signal handlers that interrupt each other, on one mutex; fork with a filled buffer; the end of the process | no overflow, order, no record more than twice |
| task cycle (`nodes/nodes_handler.cpp`, `nodes_tasks.cpp`) | token, the map of requests with their retries, the reply | authorise, heartbeat, pull, dispatch, reply | lost answers, redirects, expired tokens, retries of what was done | at most one execution a listing, bounded retries, every cycle ends |
| node tasks (`nodes/nodes_tasks.cpp`, `nodes_process.cpp`) | files under the nginx prefix | nginx, cache, redis, ssl, lua, step, errpage, defense | one file operation of several fails, unseen or not; a test whose result is not looked at; the worker dies half-way | what was in use survives a task that fails, what was answered with 200 is in use |
| upload (`nodes/nodes_handler.cpp`, `kits/dev`) | the place in each access log (`.serial`), the records of a pass, the answer so far; the counters of the last figures (`param`) | read, connect, send, receive, parse, try again; `dev_stat_info` | data read and then not delivered; a signal during a wait; an answer in pieces or late; a log that is rotated; a list of processes that is old | done only with the whole answer, no pass without end; figures of what happened since the last |
| HTTP client (`kits/inet`) | head, body, option bits of a page; a handler's descriptor, addresses and TLS layer | connect, handshake, send, select, receive, delete; parse | an answer in pieces; a handler used again; failures told by different numbers | what is waited for was sent; nothing open is lost or closed twice |
| circuit queue (`kits/method`) | ring buffer, head, tail, length | enqueue, dequeue, peek, find | wrap-around, inverted results | a queue of bytes |
| event loop (`kits/event`, `kits/module/modules_event*`) | timer tree, posted queues, free connections, what is registered | add, delete and expire timers, post, accept, select, epoll | a connection given back with its events still queued, a tree rebalanced in many steps | no connection is lost or handed out twice, no event is slept over, the tree is a sorted red-black tree |
| configuration (`kits/module`) | cycle and its settings, list of logs, manager object | load, parse, reload | text the parser drops; a reload that fails half-way | the settings are what the file says, or it is refused |
| pools and buffers (`kits/alloc`) | blocks, failure counts, large chunks, cleanups | allocate, free, reset, destroy | sizes at the limits of a block | what is handed out is disjoint, each thing is freed once |
| thread pool (`kits/thread/thread_pool.cpp`) | list of tasks, number of idle threads | add, take, stop | a count changed by several threads outside the lock | every task once and in order |
| streams (`kits/files`, `nodes_stream`) | a file, the place read to (`.serial`) | write, read, redirect | workers write while consoles read and rename | notes fetched once and in order |
| start-up (`core_solution`, `process_option`, `core.cpp`) | options, pid file | start, test, signal | several launches share the pid file | the pid file names the server that runs |
| command line (`nodes_cmdline`) | line, flags, token, requests | parse, log in, ask, pull, repeat | flags and refused lines that stay | what runs is what was typed |
| conversions (`kits/conv`) | S of RC4 | base64, RC4, hexadecimal | signed characters, two alphabets | decoding undoes encoding |

How they meet. The master talks to a worker by `kill` and by a socket pair
(`unix_channel`); the workers' loops never run `process_event_and_timers`, so nothing
is ever read from that socket. A worker's end (`::exit`) runs the destructor of the
logging thread, so what the master sees of a worker depends on the error log. The log
is a `thread_task`. The task cycle uses the HTTP client and the node tasks; so does the
command line, and both leave notes in the streams that consoles fetch. The upload workers
use the HTTP client. A reload, in the master, loads the configuration again. The thread
pool and the circuit queue have no user but tests, and no process of this version runs the
event loop; they are modelled as the classes they are.

`PROJECT.json` lists the hazards one by one with their lines, and the properties that
watch each.

## 2. Modules

| module | models | extends |
|---|---|---|
| `Supervisor` | master, table, workers' lives | - |
| `ThreadTask` | one `thread_task`, for the modules that own such threads | - |
| `SerialExecutor` | abstract: tasks of an index run one at a time in order | - |
| `ThreadCollection` | `thread_collection`, shown to implement `SerialExecutor` | `ThreadTask` |
| `ErrorLog` | the error log of a worker, from its first record to its `::exit` | `ThreadTask` |
| `NodesPulls` | the pulls worker and the management server | - |
| `NodesTasks` | what a task does to the files of nginx, operation by operation | - |
| `Steps` | the tasks that start, stop, purge or only exchange messages | - |
| `HttpResponse` | what the parser makes of a piece of a response | - |
| `AccessLogs` | what a pass reads of the access logs | - |
| `Upload` | the two upload workers, the server, the network | `HttpResponse`, `AccessLogs` |
| `DevStat` | the figures of the load, from one pass to the next | - |
| `Sockets` | the handlers of `inet_socket.cpp` over TCP, TLS and unix paths | - |
| `RBTree` | the tree of the timers, rotation by rotation | - |
| `EventLoop` | the loop, connections, accept, select and epoll | - |
| `AllocPool` | a memory pool | - |
| `CircuitQueue` | the ring and the packet buffer on it | - |
| `ThreadPool` | `thread_pool` | - |
| `ConfigLoad` | loads and reloads of `server.conf` | - |
| `Startup` | launches, options, the pid file | - |
| `Conversions` | base64 and RC4 | - |
| `Streams` | a stream, its writers and its consoles | - |
| `CommandLine` | the command line of a node | - |
| `MC*` | small instances for TLC | their module; `MCKits` extends thirteen |
| `*_proofs` | proofs of what section 4 lists | their module; `Kits_proofs` extends eight kits, `Modules_proofs` `ErrorLog` and `ConfigLoad`, `NodesTasks_proofs` `NodesTasks` and `Conversions`, `Uploads_proofs` `Sockets` and `Upload` |

Each module also holds, beside the definitions they change, the mutants of its
operations: a guard dropped, an assignment missing, an order swapped. No specification
uses them; put in the place of the definition they mutate, each makes TLC report one
property violated, which shows that the property can fail.

### Supervisor

`pc` is the place of the master in `master_process` (`suspend` is `sigsuspend`; `reap`,
`signal` and `start` are the three loops over the table or over the roles, one
iteration a step, with the index in `cur`, what the loop does in `job` and where it
returns to in `after`). `flags` are the `process_*` variables that the signal handler
sets, `pending` the signals that are raised and blocked. `tab` and `last` are
`unix_processes[]` and `unix_process_last`. The kernel is `proc` (none, run, joining,
zombie, gone), `sock` (which worker reads which socket pair, whoever holds its number),
`mail` (commands in a channel) and `sig` (signals a worker got).

The signals of the loop are blocked except inside `sigsuspend`, so `SigSuspend` is the
only action that runs handlers; a worker's death, an operator's signal and the timer
happen between any two other steps. Points the model keeps because they matter:

* `waitpid` runs in the handler of SIGCHLD, until nothing is left.
* `unix_reap_children` closes the entry's channel, then respawns or frees; freeing
  the last entry shortens the table, any other leaves a hole that the next spawn fills.
* a respawn that fails leaves the entry as it was, with the dead pid and marked
  exited, and does not set `live`;
* a spawn that fails may leave the numbers of closed descriptors in the entry;
* `signal_worker_process` spares a worker of the current reload once, skips an
  exiting one when told to quit, falls back to `kill` when the write fails, and on
  ESRCH marks the entry for reaping;
* `unix_channel_write` passes uninitialised control fields to `sendmsg`: on an open
  channel the write may succeed or fail;
* `process_mgr::execute` starts nothing and returns 0: USR2 renames the pid file and
  leaves `process_new_binary` 0, a second USR2 fails to rename and leaves it -1;
* the name of the pid file lives in a pool that is destroyed before `delete_pid`
  reads it: the file may go or stay.

A worker that was told by a signal, or whose initialisation fails, calls `::exit` and
waits there for its logging thread ("joining"). `ErrorLog` shows why.

Abstracted or left out: OPEN and CLOSE notices between workers (nobody reads them);
SIGINT (the same flag as TERM) and SIGIO (no effect); `process_restart` and the reaping
of a new binary, unreachable because no binary is ever started; `re_spawn = 0` on exit
status 2, unreachable because no worker leaves `::exit`; the shutdown timer, never
reached; reuse of pids, and of descriptor numbers by anything but a channel; the
capacity of a channel.

### ThreadTask, ThreadCollection

`rpc[i]` is the place of thread i in the lambda of `thread_task::start`. The mutex is
held exactly in `block` (the predicate was false, the wait has not begun) and in `take`;
`add_task` takes it for its whole body and is one step that needs it free;
`set_interupt` and `notify` do not take it, so they can fall between predicate and wait:
`Missed`. A task is an index with its rank. `KeepsOrder` maps the lists and running
tasks of a collection to `SerialExecutor`, index by index.

### ErrorLog

The main thread, the flushing thread and the signal handlers on the main thread share
`log->mutex`. The mask of the handlers is empty (`unix_process.cpp:234`), so a second signal may interrupt the
handler of the first: `handlers` is the stack of them, the innermost of which runs. One that interrupts the
holder of the mutex, the main thread or a handler, waits for ever (`SelfDeadlock`). The three messages of a
handler are one record here. `WriteBuffer` is `logs_handler_write_buffer`, with the width of the length's
type (`u_short`) and the room kept for the prefix; a record that does not fit is itself
written to the file, the buffered ones are dropped, and it is put into the buffer, so it
reaches the file twice. `Flush` is a round of `logs_print_task::run`. The end of a worker
clears a flag, destroys the pool with the log in it (`UseOfFreed` is any later use of
it) and waits in `::exit` for a thread that no one interrupts.

A record is its number; lengths are counted, texts are not kept. One log and one level
are modelled, with the buffered handler; the console handler is not.

### NodesPulls

`wpc` is where the worker is in `nodes_pulls_process_cycle`: it logs in (`auth`), fetches the
list (`heartbeat`), takes its tasks one by one (`batch`, `pull`), answers (`answer` for a task
that ran, `refuse` for error 901) and sleeps. An exchange with the server is one step; its
outcomes are those the caller tells apart. `todo`, `again` and `retries` are the map of
requests, `map_temp` and their counts; `requestId` is `packet->request_id`. The server is
external: `listed`, and what it makes of a token. `wait` is how the exchange waits: `limited` by a second
again and again, `unlimited`, or `broken` off. What shaped the model:

* a signal in `select` makes `inet_socket_select` return -1 (`inet_socket.cpp:541-543`); no caller tells it from
  readiness, and the `recv` they enter has no limit (`WaitsOn`). The handshake of TLS and `SSL_read` behind
  a ticket have none either. Data, the end of the connection or another signal ends it (`Interrupted`), and an exchange
  that a signal has broken has got no answer; the signal may be the one that tells the worker to leave, which
  looks at its flags only when it sleeps;
* the master has logged in before it forks a worker, so this may start with a token, and with the descriptors that
  the master lost (`MasterLost`);
* `isSuccess` is "true" in every answer, since `pulls->result` is never written: the server
  takes a task off its list whatever became of it;
* a rejected token makes the heartbeat fail, and a pull look like a malformed task, which
  is answered with 901; a function id that is not registered is never answered;
* a login that cannot be parsed connects again at once, a redirect connects the same
  handler again, and each such connection leaks a descriptor (`leaked`, up to `FdLimit`);
* `nodes_task_sync_send` takes a `recv` of 0 for more to come: a server that closes the
  connection leaves the worker spinning (`stuck`);
* `process_terminate` and `process_quit` are looked at once a cycle.

### NodesTasks

A task is a fixed sequence of calls (`Calls`), a call is `delete`, `update`, `mkdir` or `test`,
and an update is three operations on the disk: rename to `.bak`, open with truncation,
write. `step` and `phase` say where it is. `disk` maps the files there are to their contents;
a file is a directory, a name and the number of `.bak` behind it. What shaped it:

* results of `remove`, `rename`, `write` and `close` are not looked at: only `open` and
  `mkdir` fail visibly. A full disk cuts the file off and is answered with 200; a file that could not be
  renamed is truncated in its place (`nodes_process.cpp:224, 248`), without a backup. `over` remembers the files that were
  opened while they were still in their place, `unwritten` those the disk had no room for;
* what the decoder returns is not looked at either (`nodes_process.cpp:258-261`): a content in `Garbled`, one that it
  refuses or one with a NUL, leaves a cut file and is answered with 200 (`Decoded`);
* the branch for `nginx_main` runs into the one for sites, so `nginx.conf` is written twice;
* the name still ends with `.bak` when new cache rules are written, so they never get into use;
* a site without content, and `remove` of a certificate or an error page, delete backups only;
* nobody notices what `nginx -t` says.

`Fault` says which faults an instance has, `MaxFaults` how many may happen.

### Steps

`doing` is the task, `place` where its function is. The commands that nginx is started, stopped
and reloaded with go through `popen`, whose answer is what `ps` or the command prints on its standard
output. What shaped it: nothing that nginx prints on its error output is read, so a command that
fails passes; `check` and `update` answer 900 when nginx runs, and `start` answers 903 when anything is
printed; a purge joins names with a backslash, so it opens none of the files of a directory and
removes empty directories only; of defense, connecting and sending may fail and are answered with
200, and a `recv` that fails leaves the socket open. `deeds` keeps what a task did and how it went, as far as the code
notices; `Fulfils` says of each task what it has to do. That a purge of a filled directory counts as done is in
the model, and no property asks for it.

### Upload, AccessLogs, HttpResponse

A pass of a worker is `read` (one directory a step), `connect`, `send`, `recv`, `parse`. The text of an
answer is a sequence of tokens, a header line never cut (a cut one is, for the parser, a line
that has not come); a log is a number of lines. `mode` is what the network and the server do: until
it turns good they may cut, reset, close and be late. What shaped it:

* the size in `read_logs.serial` is never taken over, so every pass starts at the head of the first log,
  and the reader's place is carried from one directory to the next;
* every piece of an answer is parsed as if it were the first, the last line of a head is not
  read, and what `recv_data` held before is appended to a shorter piece;
* an answer that cannot be parsed makes the worker send again, with what came in place of the records;
* the size of the request is cast to a `u_short`;
* `recv` of 0 ends the receiving of the load, and not that of the logs;
* a signal during `select` sends the worker into a `recv` without limit (`Interrupted`, `blocked`), which only data, the
  end of the connection or another signal ends.

### DevStat

A pass is `dev_stat_info` in one step: `param` is what it keeps, `info` what is sent. `kernel`, `nginx80` and `disks` are the machine,
which changes between passes. What shaped it: the list of nginx's workers is made once, since the shell that
lists them is always in the list, is gone when looked for, and a process that is gone is kept, while one that is there without
connections is dropped (`dev_stat.cpp:424`); after a reload of nginx nothing is counted. Of two cards each is compared with
what the one before left, and what was received is overwritten with what was sent (`dev_stat.cpp:342-343`), so that a card
that has received less than it has sent at the last figure makes none. A file system without inodes to count divides by zero (`dev_stat.cpp:284`).

### Sockets

One handler at a time, used as the node's callers use it: `step` says where the caller is, `handler`
is the object (descriptor, addresses, flags of TLS), `peer` what became of each descriptor,
`wire` what has come in (with TLS, tickets too), `layer` what TLS has decrypted and nobody read. Lost descriptors and TLS layers are kept, and `slips`
counts the calls that could lose one. What shaped it: a handler that is connected again keeps the addresses
of the name before and loses its descriptor; a name without addresses connects to nothing, with
success; a failed send over TLS is a small positive number, which the callers do not look for;
`nodes_task_sync_send` returns without deleting the handler (`nodes_tasks.cpp:103-105`), so does
defense (`nodes_process.cpp:421`); a `select` that a signal cut short counts as readiness (`interrupted`), so `recv` may be entered with nothing there; `ssl_on` is not initialised when `socket()` fails; TLS may have read what `select` waits for.

### EventLoop, RBTree

`io` is one record, because a call from a handler goes through all of it: each function of the code is an
operator from a state to a state, composed as the code composes it. Of select it has the slots, the two sets and
the highest descriptor (`max`), which is recomputed when it is not known; when the slots found ready are not as many as the
bits select counted, the loop sleeps 1200 ms (`Nap`) and repairs its sets, and `late` is what the clock it goes by is behind
then. A slot whose connection was closed has the descriptor -1, and what `FD_ISSET` says of that may be anything (`Gone`). `lpc` is the place in
`process_event_and_timers`. A handler is any legal sequence of calls, bounded, except that of the
listening connection, which is `event_accept`. What shaped it: `event_accept` goes on with -1 after a
failure other than EAGAIN; it sets `write` of the *read* event (`event_accpet.cpp:117`);
`select_del_connection` adds the events it should delete (`modules_event_select.cpp:188`); the accept mutex
never adds the listening connection. `RBTree` has the search, the insertion and deletion and the two repair
loops with one iteration a step; the code's mirrored halves are one operator with the side as
parameter. `EventLoop` takes the tree as the set of timers it was shown to be.

### AllocPool, CircuitQueue, ThreadPool

Addresses are offsets in a block, so what is handed out is a set of ranges, with large allocations
apart. A pool that is reset hands out the records of its cleanups again. The ring of `CircuitQueue`
holds numbers of a stream, so that order and loss can be told; `dequeue` moves the head only past data
that is not there, and `length` is an integer that may be negative. In `ThreadPool` the count of
idle threads is read in one step and written in another.

### ConfigLoad

The file is chosen line by line while the parser reads it, so that every file of the lines in `Lines` is
covered up to the bound; a line is a sequence of words and marks. `load` is the load that runs (block, arguments, what
it has set so far), `root` the cycle in use, `past` the history of loads. What shaped it: a comment eats the
character before it, and a line whatever is behind its first mark; a file is accepted only with
both blocks, also when the last `}` is missing; a `}` of an ignored inner block closes the outer one;
`accept_mutex_delay` always fails, since the type of its slot is another; the method of `use` is epoll's unset index
by default; a failed load clears the running cycle's `conn_size` (`modules_load.cpp:82`), leaves its logs in
the list after their pool is gone, and the manager object of its nodes block in use.

### Startup

A launch goes from its options to one of: it serves, it signals another, it has printed and gone. `text` and
`names` are the pid file as inodes, so a file renamed or deleted under a reader is still what was opened.
What shaped it: `-h`, `-v`, an option that is not known and `-i x ?` start the server, though the help text says otherwise
(`process_option.cpp:304`); the pid file is truncated and written in two steps, without a lock;
whoever signals opens the file with creation: it makes an empty one where none is and then signals process 0;
a second USR2 renames the file for good.

### Streams, CommandLine, Conversions

A stream is a file, its `.serial` with the place the last console read to, and the consoles' own steps:
read the place, read the notes, write the place. What a console fetches goes into its output buffer and is never printed:
`nodes_error_output` returns at an empty message and the next line clears the buffer (`nodes_cmdline.cpp:353-355, 250`), while `.serial` has moved on. A console that starts renames the file to `.bak` over the one
before. In `CommandLine`, `cmd` is the line, `flags` what its options say, `requests` the tasks still to be
pulled with their retries. A line that is refused is parsed again without its options, so its command runs
bare; a repetition (`-t`) never ends, a count of -1 is accepted; a blank line or the end of the input is a loop without end.
In `Conversions` a text is a sequence of bytes: the encoder of strings writes the URL alphabet, which the
decoder refuses, and indexes in front of its alphabet with a shifted character above 127. What lies there is the linker's
affair: `front` is any bytes, a digit, a character of neither alphabet, or a NUL, behind which the text is cut off by `strlen`. A content that cannot be decoded
makes an empty file and is answered with 200. RC4's key bytes above 127 index out of S, an empty key divides by zero: both are excluded by assumption.
The operator `^` is a constant, `BitXor`: all that is assumed of it is that it stays within a byte and that the same byte
takes it back; TLC's instance is `Bitwise`.

## 3. Runs

| run | instance | shows |
|---|---|---|
| `supervisor_table` | 2 roles, 3 entries, 5 pids; 1 crash, 1 failed init, 1 failed spawn, 2 signals of TERM QUIT HUP USR2 WINCH | `Tracked`, `NoOrphan`: no child is lost, and none is left when the master exits |
| `supervisor_reload` | 2 roles, 6 entries, 8 pids; 2 crashes, 2 signals of HUP USR1 USR2 | `OneActivePerRole`, `ChannelsApart`, `ExitingWasTold`, `EveryRoleServed` |
| `supervisor_stop` | the delays of the code; 1 crash, 2 signals of TERM QUIT USR1 | `KilledWasWarned`, `StopCompletes` |
| `supervisor_quit` | one QUIT | `QuitCompletes` is violated: see Findings |
| `thread_collection` | 2 threads, 3 indices, 2 tasks each | `MissedIdle`, `GoneAfterTasks`, `KeepsOrder` (the refinement), `DispatchedRuns`, `DestroyEnds` |
| `error_log` | buffer of 9 bytes, 3 records, 2 signals, the second of which may interrupt the handler of the first | `NeverLeaves`, `BufferFits`, `DiskOrdered`, `BufferDrains` |
| `nodes_pulls` | one task of each kind (known, unknown, malformed), one retry, 2 descriptors, one expired token, one death, any number of signals | `OnceAndNamed`, `LeavesWhenTold` |
| `nodes_pulls_settle` | a known and a malformed task, the same bounds, a network that works again and again | `Settled` |
| `nodes_tasks` | every kind of task, two versions of which one does not decode, 3 tasks, 2 faults among `remove`, `rename`, `open`, `mkdir`, a full disk and death | `OldKept`, `DoneInstalls` |
| `nodes_tasks_test` | tasks for a site | `RejectedNotLive` is violated: see Findings |
| `upload` | 2 logs of up to 3 lines read by 2, three answers in pieces of up to 4, 2 descriptors, any number of signals; either worker | `SerialTells`, `DoneIsWhole`, `DoneWasDelivered`, `PassesEnd` |
| `kits` | thirteen kits that share no state, one behaviour of one kit at a time (`part`) | `TreeSound`, `LoopSound`, `PoolSound`, `PeeksInOrder`, `PoolServes`, `AsWritten`, `LoadsAccounted`, `PidFileKept`, `CodecsInvert`, `NotesInOrder`, `RunsAsTyped`, `StepsAnswered`, `SocketsSound`, `FiguresRight` |

`kits` is a choice between its parts and no product: in a behaviour of one part the variables of the
others stay as they began, so it checks what thirteen runs would.

Bounds. Two roles stand for three: the loops treat roles alike, and what the
properties relate is at most two entries of one role or of two. Three entries fill
during a reload of two roles, so the full table is reached; six entries and eight pids
leave room for two reloads and two crashes. `Budget` bounds crashes, failed
initialisations, failed spawns and operator signals; two signals are enough for a
second one to arrive in every state the first leads to. `DelayCap` stops the doubling of
`delay` above `KillDelay`, beyond which the code no longer looks at it. In `error_log` the
three lengths are one that fits, one that fills the buffer and one longer than a page,
and the file is renamed within three records.
In `nodes_pulls` tasks meet only in `requestId` and in the list, so one of each kind is enough;
`MaxRetries = 1` instead of 6 still has a pull before, at and beyond the limit; with two descriptors
the first loss changes nothing and the second is the last; the expiry and the death may come
at any step. In `nodes_tasks` the second task starts from what a fault of the first left, and the
third from what both left. In `upload` a whole chunk, a log that ends before it, a place left over from one directory for the next, a rotation between two passes
and a directory without a log all occur with two directories, three lines and two times of change (the first log keeps one, and
a first pass finds at most one line); the three answers are longer than one `recv`,
in chunks with the length last, and a redirect; the logs change only while the network is good, which
leaves out no pair of causes, since what is read and what is received meet only in the size of the request.

In `kits`: a tree of five nodes with the keys 1 1 2 3 2 (every case of both repair loops occurs); three connections, of
which one listens, two descriptors (one with select, where two slots are enough for one that is left over and no accept fails; with epoll the second opens once the clock has moved), a nap of 1, a delay of 1 and a clock up to 2, so that a timer
may be due while another is not, two events a poll, one failed accept; for the sockets
two descriptors, of which the kernel returns the least that is free, three connects, and names with no, one and two addresses; a pool of up to four
blocks of 8 units with heads of 4 and 2 and requests of 0, 3 and 6, which fill a block exactly, leave a rest and overflow it;
a ring of 4 units and 2 behind it, with 9 items, so that it wraps twice; two threads and three tasks; files of the 14 lines of
`MCLines`, up to four lines (up to six of those that begin with a short events block), and three loads,
the reloads with one of two files; three launches with pids of two digits and of one and six command lines (a line that serves in spite of its `-t` is given to one of them); texts of up to
three bytes of {0, 62, 63, 127, 128, 255}, on both sides of every case of the codecs, two keys, and in front of the alphabet zeros, a digit or others; two consoles, a
worker that writes, three notes, reads of at most two; eleven lines and four given commands; two cache directories and two tasks;
three changes of the machine between passes, words of 32 with a rate of 4 for the whole (some ticks fit a word when they are taken four times, some do not), two
cards, two sets of workers.

Deadlock is not checked where the program may stop: a master that exited or that waits
for a signal nobody sends any more, a destroyed collection, a worker in `::exit`, a
worker that left, the end of the tasks that come in, and in `kits` where a part has used up its bounds or a program has ended.

Fairness. `WF_vars(Master)`: the master is a process that runs; every wait it has is a
guard. `WF_vars(TimerFires)`: an armed `setitimer` expires. Workers, crashes and the
operator are not fair, so a stop must end with workers that never react. For threads,
weak fairness of each thread and of the owner's own steps; no fairness of spurious
wake-ups or dispatches. In `ErrorLog`, weak fairness of the flushing thread, and of
whoever holds or waits for the mutex; the worker need not log or leave.
In `NodesPulls`, `FairSpec` is weak fairness of the worker wherever it does not wait without a limit: it is scheduled, and each exchange
may fail for ever; nothing is sure to end a wait without a limit, so `LeavesWhenTold` assumes that they end. It needs no more, because every loop of the worker is
bounded: retries by their count, logins by the descriptors they lose. `LuckySpec` adds that every wait ends, as a server closes connections nobody uses, and that the network works
infinitely often for each kind of exchange: strong fairness of a successful login, of a list, of
the rejection of a token the server no longer knows, and, for each task, of the dispatch and of
a delivered answer. Nothing can be settled without it, and the code retries on that assumption.
In `Upload`, `FairSpec` is weak fairness of the worker, and of a server that, while it is good, answers and
delivers; turning good is not fair, so `PassesEnd` claims nothing of a network that stays bad; nor is a signal, so nothing but the server ends a `recv` without limit.

What holds only under a condition:

* with a spawn that may fail, `ChannelsApart`, `OneActivePerRole`, `ExitingWasTold` and
  `StopCompletes` do not hold: a failed spawn keeps stale descriptor numbers, a failed
  respawn is retried only at the next SIGCHLD and does not count as live;
* `KilledWasWarned` needs that no HUP arrives during a stop: the reload starts workers
  the first KILL finds;
* `EveryRoleServed` needs initialisations that succeed: a worker that fails to
  initialise hangs in `::exit` and is never replaced;
* `NoOrphan` excludes `process_new_binary = -1`: a reload then starts workers without
  setting `live`;
* `LeavesWhenTold` and `Settled` except a worker stuck in `nodes_task_sync_send`; `LeavesWhenTold` also one in a wait without a limit that nothing ends; `Settled` also excepts
  one that has no descriptor left, and tasks with an unknown function id;
* `OldKept` is about one task: after a failed update the next task deletes the backup, which may be
  the only copy left. It excepts a file that could not be renamed and was opened over, a lua rule that is removed and the `nginx.conf` written twice;
* `DoneInstalls` excepts cache rules and a site without content; the file the disk had no room for, and one whose content does not decode, it asks to be cut and no other;
* `DoneIsWhole` is about an answer whose length was read, not in chunks, and received without the rest of a
  longer piece; `DoneWasDelivered` excepts what was sent again in place of the records, and a size that was cut;
  `PassesEnd` excepts a logs worker whose connection the server closed, and a worker that a signal left in a `recv` nothing ends;
* `PoolSound` takes requests that fit a block and a size that the alignment divides, and of cleanups it
  speaks only without a reset; `PeeksInOrder` ends where a copy ran over the end of the ring;
* `LoopSound` says of the registration and the posted events of a free connection only what holds with epoll: select loses connections; and once a connection was closed select may sleep `Nap` beyond a timer;
* `PoolServes` counts idle threads until two changes of the count overlapped;
* `PidFileKept` ends for a master at the next claim, deletion or renaming of the file;
* `NotesInOrder` ends where two consoles crossed: there notes are fetched twice or not at all;
* `FiguresRight` takes rates whose product with 10000 fits a word, one card that has any traffic, and connections
  only while a listed process is there; it says that nothing is counted of workers nginx has since one was found gone;
* `SocketsSound` excepts names without addresses, failures of TLS that are told by a positive number, second connects and forgotten handlers, and lets a `recv` wait without a limit behind a ticket or a signal;
* `BufferDrains` excepts a worker that a signal handler has blocked on its own mutex, and one on its way out.

## 4. Proofs

Assumptions are the named ASSUMEs of the modules: pids are positive numbers, the table has at
least one entry, delays are naturals below their cap, `Thread = 0..Size - 1`, lengths fit
the width of their type, a pool has fewer than 256 threads, descriptors are positive and a name has a sequence of addresses;
the cycle has a finite set of connections, of which the first listens.
Some state what TLC's instances have anyway: answers and texts are sequences of tokens (`AnswersAssumption`),
command lines are sequences of words (`CommandAssumption`, `StartupAssumption`), a read takes a natural number of notes
(`StreamAssumption`), a slot and a note of a pool are no large allocations themselves (`PoolAssumption`: in the code 8 and 24 bytes),
a line of a configuration is a sequence of words and not empty (`LinesAssumption`: `include_file` passes over an empty one),
keys of RC4 are bytes from 1 to 127, and `BitXor` undoes itself on bytes (`ConversionAssumption`),
the workers nginx has one after the other are finite sets of different pids (`DevStatAssumption`), and the first delay of a stop is
no longer than the one after which it kills (`DelayAssumption`: 50 and 1000 ms).
The type invariants are proved and not run: each is part of the inductive invariant of its module. The kits have no
specification of their own, so their theorems read `Init /\ [][Next]_vars => []P`: their fairness, if any, is not used.

* `Supervisor_proofs`. `TypeCorrect`, `Invariance`, `NoChildIsLost`, `NoChildIsLeftBehind`, for
  every table size, set of pids, roles, delays and budgets. `NoOrphan` is not inductive:
  `live = 0` at the exit says something only through what each loop did before. `LiveOK`
  says what it means at every point: inside `reap`, that every entry already passed is
  marked exited; elsewhere, that all are, except while workers are being started or under a
  failed change of binary. With `Tracked` (what exists has an entry that is not marked
  exited) there is then no process left at the exit. `LoopOK` carries the bookkeeping of
  the loops. One step per action; `ForkTracks` and `SpawnFailsTracks` are the lemmas about
  spawning that respawns and starts share.
  `ChannelsStayApart`, `ExitingWorkerWasTold` and `RolesStaySingle`, for the same
  constants, as long as no spawn has failed and `fork` has a pid left (`NoneFailed`; both only ever end, which is
  `Monotone`). That the roles differ from each other is part of `RolesAssumption`: the workers of a node are
  started once each. `Sound` says that the table and the kernel agree: an entry's channel is open and read
  by its own process, and an entry is marked exited only between the wait and the reap. `RolesOK` carries the
  generations of a reload: while the new workers are started there is one of each role among the new and one
  among the old, and each new one is of a role the loop has come by; while the old are told to leave, one
  among the new and those already passed. The end of the second loop is then `OneActivePerRole`.
  `KilledWorkerWasWarned` adds the rounds of a stop: the delay tells whether TERM or KILL is next (it is 0 before the first round,
  which is then one of TERM, since `FirstDelay` is no more than `KillDelay`), and while that round goes over the table,
  the entries already passed were sent TERM. It is stated where
  nobody asks for a reload and no spawn has failed, which are the conditions of its run too: after a HUP during a
  stop, workers started for the reload are spared the round of TERM and killed by the next; and a number a
  failed spawn has left in an entry sends TERM to somebody else.
* `ThreadCollection_proofs`. `MissedThreadIsIdle`, `GoneAfterAllTasks`. The invariant ties the
  thread's place to its list and its running task, and the owner's loop index to the
  threads it has already interrupted, notified and joined. `CollectionKeepsOrder` is the refinement: with the
  mapping of `ThreadCollection`, each step of an owner or a thread is a step of `SerialExecutor` or a stutter. `OfIndex` filters
  a thread's list by index. What it is can be said without induction because the tasks of an index are numbered
  one after another (`Ranked`): it is the sequence of those numbers (`OfIndexIs`), from the one after the task that runs up to the last dispatched.
* `Modules_proofs`, of `ErrorLog`: `WorkerNeverLeaves` (the thread is never told to end, so the join does not
  return) and `BufferNeverOverflows`, for every page size, slack, prefix and set of lengths. `RecordsInOrder` is
  `DiskOrdered`: what is buffered was logged after what is on disk, and what is logged later has a greater number,
  so an appended buffer keeps the order, a record that does not fit included.
  Of `ConfigLoad`: `LoadedAsWritten` and `LoadsAreAccounted`, for any set of lines of strings and any number of loads.
  The property tells from the positions of the lines what the parser computes by a fold over them, so `ConfigInv` says
  for every prefix what the fold has made of it (`Reads(load, linesRead)`): the block the next line is in is the one the last unclosed
  opening line names (`WellNested`), each setting is the one told so far, unset while nobody told it, and what a closed
  block was given as default is there once its block is closed. `Accounts` does the same for the loads that ended: `past` holds what
  each of their files told. A line is cut at its comment and its first mark; `TokenIs` is what `read_token` makes of it,
  and `LineRead` reduces the handler to five kinds of lines: those that stop the load, pass, close a block, open one, or set something. For each kind
  a lemma says how what is told by the longer file differs (`OpeningNext`, `ToldNext`, `ValuesNext`, `ClosedNext`).
  `FlattenIs` and `FlattenNext` unfold the library's concatenation of sequences by its least counterexample.
* `NodesPulls_proofs`. `TypeCorrect`, `NoTaskRunsTwice`, `PullsAreBounded`, `RightTaskAnswered` and, of the two
  that the run checks together, `OnceAndNamedHolds`, for every
  set and kind of tasks, limit and bound. The count of pulls and the count of runs are history; the
  invariant ties them to the code's own counts: what is still to be pulled has not run, and has
  been pulled at most as often as it was retried. `RetryKeeps` is the lemma of the one place
  where both change.
* `NodesTasks_proofs`. `TypeCorrect` and `OldIsKept`, for every set of tasks, contents and faults. `OldKept` is
  not inductive: while a task runs, a file is in its place until it was renamed and is its
  backup from then on (`Moved`); one whose rename failed is in its place until it is opened, and in `over` from then on. `CallsCareful` shows by cases on the kind of task that no call after
  an update deletes or renames over the backup it made, except in the two tasks excluded. `DoneIsInstalled`
  adds which call of a task installs which file (`Behind`): what a call that has passed installs is on disk,
  and a file is cut only while its write is under way, where the disk was full (`unwritten`), or as its content does not decode.
  Of `Conversions`: `ConversionsInvert`, for texts of any length. The property tells the digits of base64 by the bits of the text;
  `SixBitsAre` makes of the bits of three bytes the shifts and remainders of the code, `GroupsIs` tells where the i-th character
  of the joined groups comes from, and `DigitsDecoded` that the decoder, given those digits, has the text. What the encoder of strings
  writes is at each place that digit, a character of the other alphabet, or, for a byte above 127 that is shifted (`SpoilsAt`), one of those in
  front (`FrontIs`); what `strlen` leaves of it is all of it where there is no such byte (`UntilIs`).
  For RC4 the invariant is that S is a permutation once it is filled (`ExchangedPermuted`); the turns are a recursive function of the
  length of the text alone (`TurningIs`, `TurnsReady`), so the same bytes are combined in both directions (`Rc4Undoes`).
* `Uploads_proofs`. `SocketsInvariance`, `SocketsAreSound`, for any number of descriptors, connects, names and addresses.
  The invariant adds to the property what is known of the handler at each place of its caller: which
  descriptor it has, when a TLS layer exists, and that what `send` gave to the kernel is the
  whole request wherever the caller waits, or is in a `recv` behind a signal. `SerialSaysWhere`, `DoneMeansDelivered` and `DoneMeansWhole` are about the pass over it, for all
  logs, texts, answers, signals and faults. For the first, `Tells` says it of each directory the pass has been at, and `ReaderInv` that
  what was read is of those; the size a file is read from is the one the reader brings along (`RestoredKeepsSize`), so the lines are in a row from there. For the others: what was received is always the beginning of the answer, in the buffer or still
  in the connection (`DeliveryInv`), and a beginning of an answer that the parser takes for done is all of it (`DoneIsAll`),
  which rests on the first break being the same in the text and in its beginning (`PrefixHead`).
* `EventLoop_proofs`. `LoopIsSound`, for any finite set of connections of which the first listens, any descriptors, delays
  and number of events a poll finds. Each function of the code has a lemma on what it keeps of a state of the loop: `IoOK`
  says it of descriptors and the free list (`FdsOK`), of timers (`KeysOK`), of the slots of select (`SlotsOK`), of the posted
  queues (`QueuesOK`) and of what epoll watches (`WatchOK`). With epoll an event is linked once, while it is marked and its
  connection not free: that is why `get` may zero the mark of a free one (`GetKeeps`) and why the unlinking of two
  events by `close` leaves none (`Quiet`, `CloseKeeps`). With select this fails, so nothing is said of its queues but their type. That the nap needs a connection that was closed is
  `Matched`: until then each bit of the two sets is of exactly one slot, and select counts what the loop finds.
  `LoopInv` adds the turn: between the end of `expire` and the next poll no timer is overdue (`Timely`), since a handler
  sets no timer before now (`KeysLater`), and the queue of the turn is empty before it begins.
* `Kits_proofs`.
  + Threads: `PoolInvariance`, `PoolServesHolds`, for fewer than 256 threads and any number of tasks. The tasks in
    the list are consecutive numbers up to the last one added, which gives order and uniqueness without counting;
    until a race, at most one thread is between reading and writing the count, and what it read still holds
    (`OneChanges`). `BusyGrows` and `BusyShrinks` are the cardinalities a writer needs.
  + Ring: `RingPeeksInOrder`, for every size. Each item that is readable lies at its number modulo the size (`ItemsInPlace`), also
    when dequeue went past items that were not there yet; `PlaceFacts` are the remainders.
  + Memory pool: `PoolIsSound`, for every alignment, block and request. A block's pieces end before its `last` (`CutOK`), so a
    cut lies behind all of them; the slots and notes of a pool point to pieces and allocations of their own.
  + Streams: `NotesFetchedInOrder`, for any number of consoles. Until two cross, `.serial` or the one console at work holds the
    place that was reached.
  + Start-up: `PidFileIsKept`, for any number of launches. A master's claim is good as long as nobody is in `since`;
    whoever else has the file open has truncated it and is there (`ClaimInv`), and what a file holds is nothing or a pid
    of those that have it open (`TextInv`).
  + Commands: `CommandsRunAsTyped`, for all lines, and `TasksAnswered`, for all domains, tasks and machines: the invariant says which deeds each place of a task has behind it.
  + Figures: `RatesAreOfThePass`, `GoneStaysListed` and both with the cards in `ReportIsRight`. The differences and rates are
    computed modulo the word: `MinusIs` and `RateIs` say when that loses nothing. What the cards make is a recursive function
    over their sequence; that it is what its equation says, and what it preserves, is shown by its least counterexample
    (`CollectedIs`, `NetFigured`), since induction itself is not to be had.

Only model-checked: the liveness properties (fairness and ENABLED are beyond the prover) and `TreeSound`, the tree of the timers
(what is under a node is a recursion over paths). With a spawn that fails, TLC refutes the four that
assume `NoneFailed`.

## 5. Findings

`supervisor_quit`: the help text (`src/src/kits/process/process_option.cpp:313-314`) lists
`quit` among the signals of `-s`. A QUIT never ends the master: the command goes to a
channel that no worker reads, the entry is marked exiting, `kill` is not called, the next
round skips exiting entries, and no timer is armed for a quit.

`nodes_tasks_test`: a comment (`src/src/nodes/nodes_tasks.cpp:315`) says "test nginx -t, if error then
delete ./conf.". `nodes_process_test_nginx` returns 903 where its caller waits for -1: a refused
configuration stays in place and the task is answered with 200.

## 6. What could follow

The order in which the modules were written is the order of section 2. A composition
of `NodesPulls` with `NodesTasks` would show what a task that is listed again after a death does to files it
has already written; today each module leaves the other's part to a choice.

## 7. Not modelled

* Vendored code (cJSON in `conv_json.cpp`), MD5 and RSA, which nothing calls, and the
  charset conversions, which are calls of the C library.
* The Windows build and the process title.
* Of `dev_stat.cpp` the memory, of which nothing is kept, the text of the figures, and `do_stub`, which nothing calls;
  `nodes_logs.cpp`, an older copy of what `nodes_handler.cpp` and `dev_nginx.cpp` do that no worker calls.
* `event_io.cpp`, timer resolution, and the kqueue and IOCP branches: nothing reaches them.
* The formatting of records, requests and messages, and `core_times.cpp`, which formats the clock in place.
* The capacity of the master's channels: they are stream sockets nobody reads, so a master that lives through some hundred
  deaths of workers blocks in `sendmsg` (`unix_channel.cpp:44`); a model of it needs as many steps.
* A `waitpid(-1)` in a worker's own SIGCHLD handler (`unix_process.cpp:389`), which may take the status of the child
  a task's `pclose` waits for; nobody looks at that status.
