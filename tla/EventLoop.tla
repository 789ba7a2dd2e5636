----------------------------- MODULE EventLoop ------------------------------
(***************************************************************************)
(* The event loop: process_event_and_timers with its posted queues and     *)
(* timers, the connections it hands out, the listening one, and the two    *)
(* ways to poll, select and epoll.  A turn waits, posts the events that    *)
(* are ready, accepts, expires timers and runs what is posted.             *)
(*                                                                         *)
(* The state is one record, io, because a call from a handler goes through *)
(* all of it: each function of the code is an operator from a state to a   *)
(* state.  What a handler does is external, but for event_accept.          *)
(* timer_resolution is 0.                                                  *)
(***************************************************************************)
EXTENDS Integers, Sequences, FiniteSets

CONSTANTS
  Conn,        \* the connections of the cycle; the first listens
  Fds,         \* descriptors accept may return
  Delays,      \* delays a handler may ask for
  LazyDelay,   \* TIMER_LAZY_DELAY
  Infinite,    \* TIMER_INFINITE, as a wait
  MutexDelay,  \* accept_mutex_delay
  Nap,         \* the time select_process_events sleeps on a wrong count
  MaxNow,      \* bound: the clock
  MaxReady,    \* bound: the events one poll finds ready
  MaxErrors    \* bound: accepts that fail other than with EAGAIN

ASSUME LoopAssumption ==
  /\ IsFiniteSet(Conn) /\ 1 \in Conn /\ Conn = 1 .. Cardinality(Conn)
  /\ Fds \subseteq Nat \ {0} /\ 1 \notin Fds
  /\ Delays \subseteq Nat /\ {LazyDelay, Infinite, MutexDelay, MaxNow, MaxReady, MaxErrors} \subseteq Nat
ASSUME NapAssumption == Nap \in Nat

VARIABLES
  lpc,      \* where the loop is in its turn
  backend,  \* select or epoll
  mutex,    \* accept_use_mutex
  io,       \* connections, events, queues and what is polled
  wait,     \* the time the turn waits
  errors    \* history: accepts that failed

loopVars == <<lpc, backend, mutex, io, wait, errors>>

Event == Conn \X {"read", "write"}
Pair(e) == <<e[1], IF e[2] = "read" THEN "write" ELSE "read">>
Listening == <<1, "read">>   \* the event that accepts
Both(c) == {c} \X {"read", "write"}
FdOf(w, e) == w.fd[e[1]]

InSeq(seq) == {seq[i] : i \in 1 .. Len(seq)}

\* queue_remove takes out the one link an event has.
At(seq, x)     == CHOOSE i \in 1 .. Len(seq) : seq[i] = x
Unlink(seq, x) ==
  IF x \notin InSeq(seq) THEN seq
  ELSE [i \in 1 .. Len(seq) - 1 |-> seq[IF i < At(seq, x) THEN i ELSE i + 1]]

-----------------------------------------------------------------------------
(* Timers and posted events.  The tree of the timers is the module RBTree. *)

DelTimer(w, e) == [w EXCEPT !.key[e] = 0]

\* A timer that moves by less than the lazy delay stays where it is.
AddTimer(w, e, delay) ==
  LET key == w.now + delay  diff == key - w.key[e] IN
  IF w.key[e] # 0 /\ diff < LazyDelay /\ -diff < LazyDelay THEN w
  ELSE [w EXCEPT !.key[e] = key]

Timers(w)  == {e \in Event : w.key[e] # 0}
LeastOf(w) == CHOOSE k \in {w.key[e] : e \in Timers(w)} : \A e \in Timers(w) : k <= w.key[e]

\* event_timer::find; nothing is overdue when it is called.
FindTimer(w) == IF Timers(w) = {} THEN Infinite ELSE LeastOf(w) - w.now

Post(w, e, q) ==
  IF e \in w.posted THEN w
  ELSE [w EXCEPT !.posted = @ \cup {e}, !.queue[q] = Append(@, e)]

Unpost(w, e) ==
  [w EXCEPT !.posted = @ \ {e}, !.queue = [q \in DOMAIN @ |-> Unlink(@[q], e)]]

\* The events keep their posted bit.
MovePostedNext(w) == [w EXCEPT !.queue.now = @ \o w.queue.next, !.queue.next = <<>>]

-----------------------------------------------------------------------------
(* select: slots is event_indexs, master the two descriptor sets, max the  *)
(* highest descriptor to look at, 0 while it is not known (-1).            *)

SelectAdd(w, e) ==
  IF w.index[e] # 0 \/ (e[2] = "read" /\ e \in w.write) THEN w
  ELSE [w EXCEPT !.master = @ \cup {<<FdOf(w, e), e[2]>>}, !.active = @ \cup {e},
                 !.max = IF @ # 0 /\ @ < FdOf(w, e) THEN FdOf(w, e) ELSE @,
                 !.slots = Append(@, e), !.index[e] = Len(w.slots) + 1]

\* The last slot moves into the one that is free.
SelectDel(w, e) ==
  LET idle == [w EXCEPT !.active = @ \ {e}]
      last == w.slots[Len(w.slots)]
      cut  == SubSeq(w.slots, 1, Len(w.slots) - 1)
      i    == w.index[e]
  IN  IF i = 0 THEN idle
      ELSE [idle EXCEPT !.master = @ \ {<<FdOf(w, e), e[2]>>},
                        !.max = IF @ = FdOf(w, e) THEN 0 ELSE @,
                        !.slots = IF i <= Len(cut) THEN [cut EXCEPT ![i] = last] ELSE cut,
                        !.index = [x \in Event |-> IF x = e THEN 0
                                                   ELSE IF x = last /\ i <= Len(cut) THEN i ELSE @[x]]]

\* select_add_connection and select_del_connection do the same.
SelectConn(w, c) == SelectAdd(w, <<c, "read">>)

\* select_repair_fd_sets: looks at the descriptors below the number of slots.
SelectRepair(w) ==
  IF w.max = 0 THEN w
  ELSE [w EXCEPT !.master = {m \in @ : m[1] \in w.open \/ m[1] >= Len(w.slots)}, !.max = 0]

-----------------------------------------------------------------------------
(* epoll: interest is what the kernel watches.                             *)

Interest(w, c, dirs) == [fd |-> w.fd[c], dirs |-> dirs, conn |-> c, instance |-> w.instance[c]]
Drop(w, fd) == {r \in w.interest : r.fd # fd}
Registered(w, c) == \E r \in w.interest : r.fd = w.fd[c]

\* EPOLL_CTL_MOD needs a registration, EPOLL_CTL_ADD that there is none.
EpollAdd(w, e) ==
  LET c == e[1]  both == Pair(e) \in w.active IN
  IF w.fd[c] = 0 \/ Registered(w, c) # both THEN w
  ELSE [w EXCEPT !.interest = Drop(w, w.fd[c]) \cup
                              {Interest(w, c, IF both THEN {"read", "write"} ELSE {e[2]})},
                 !.active = @ \cup {e}]

EpollDel(w, e) ==
  LET c == e[1]  rest == IF Pair(e) \in w.active THEN {Interest(w, c, {Pair(e)[2]})} ELSE {} IN
  IF ~Registered(w, c) THEN w
  ELSE [w EXCEPT !.interest = Drop(w, w.fd[c]) \cup rest, !.active = @ \ {e}]

EpollAddConn(w, c) ==
  [w EXCEPT !.interest = @ \cup {Interest(w, c, {"read", "write"})}, !.active = @ \cup Both(c)]

-----------------------------------------------------------------------------
(* What proc_event_actions points to.                                      *)

AddEvent(w, e) == IF backend = "select" THEN SelectAdd(w, e) ELSE EpollAdd(w, e)
DelEvent(w, e) == IF backend = "select" THEN SelectDel(w, e) ELSE EpollDel(w, e)

\* With EVENT_CLOSE epoll leaves the kernel to forget the descriptor.
DelConnOnClose(w, c) ==
  IF backend = "select" THEN SelectConn(w, c) ELSE [w EXCEPT !.active = @ \ Both(c)]

\* event_connection::get for an element that is there; both events are zeroed.
Get(w, fd) ==
  LET c == Head(w.free) IN
  [w EXCEPT !.free = Tail(@), !.fd[c] = fd, !.instance[c] = ~@,
            !.index = [e \in Event |-> IF e \in Both(c) THEN 0 ELSE @[e]],
            !.active = @ \ Both(c), !.ready = @ \ Both(c), !.posted = @ \ Both(c),
            !.key = [e \in Event |-> IF e \in Both(c) THEN 0 ELSE @[e]],
            !.write = (@ \ Both(c)) \cup {<<c, "write">>}]

\* event_connection::close.
Untimed(w, c)  == DelTimer(DelTimer(w, <<c, "read">>), <<c, "write">>)
Silenced(w, c) == Unpost(Unpost(DelConnOnClose(Untimed(w, c), c), <<c, "read">>), <<c, "write">>)
GivenBack(w, c) ==
  [w EXCEPT !.free = Append(@, c), !.fd[c] = 0, !.open = @ \ {w.fd[c]}, !.interest = Drop(w, w.fd[c]),
            !.shut = TRUE]

CloseKeepsPosted(w, c) ==
  IF w.fd[c] = 0 THEN w ELSE GivenBack(DelConnOnClose(Untimed(w, c), c), c)
Close(w, c) ==
  IF w.fd[c] = 0 THEN w ELSE GivenBack(Silenced(w, c), c)

\* event_process::write_handler; both ways of polling are level-triggered.
WriteHandler(w, e) ==
  IF e \in w.active /\ e \in w.ready THEN DelEvent(w, e)
  ELSE IF e \notin w.active /\ e \notin w.ready THEN AddEvent(w, e) ELSE w

-----------------------------------------------------------------------------
(* event_core_init_process.                                                *)

Start ==
  [fd       |-> [c \in Conn |-> IF c = 1 THEN 1 ELSE 0],
   instance |-> [c \in Conn |-> c # 1],
   free     |-> [i \in 1 .. Cardinality(Conn) - 1 |-> i + 1],
   active |-> {}, ready |-> {}, posted |-> {}, write |-> {<<1, "write">>},
   index  |-> [e \in Event |-> 0], slots |-> <<>>, master |-> {}, max |-> 0,
   interest |-> {}, open |-> {1},
   queue  |-> [accept |-> <<>>, now |-> <<>>, next |-> <<>>],
   key    |-> [e \in Event |-> 0], now |-> 1, late |-> 0, shut |-> FALSE]

\* With the accept mutex the listening connection is not added, and nothing
\* adds it later: the lock that would is commented out.
LoopInit ==
  /\ backend \in {"select", "epoll"} /\ mutex \in BOOLEAN
  /\ lpc = "turn" /\ wait = 0 /\ errors = 0
  /\ io = IF mutex THEN Start ELSE AddEvent(Start, Listening)

-----------------------------------------------------------------------------
(* A turn.                                                                 *)

Fixed == UNCHANGED <<backend, mutex>>

\* How long to wait: no longer than to the first timer, and not at all when
\* events were posted for the next turn.
Turn ==
  /\ lpc = "turn" /\ lpc' = "poll"
  /\ LET first == FindTimer(io)
         most  == IF mutex /\ first > MutexDelay THEN MutexDelay ELSE first
     IN  wait' = IF io.queue.next # <<>> THEN 0 ELSE most
  /\ io' = MovePostedNext(io)
  /\ UNCHANGED errors /\ Fixed

\* core_times::update, after at most the time waited.
Later(w) == {[w EXCEPT !.now = t, !.late = 0] : t \in w.now .. MaxNow}

\* Each event that is found ready is posted, unless it is: the one of the
\* listening connection to accept, the others behind each other, in some
\* order.  The ready bit is kept for write events, the only ones it is looked
\* at of.
Orders(F) == {s \in [1 .. Cardinality(F) -> F] : \A i, j \in 1 .. Cardinality(F) : s[i] = s[j] => i = j}
PostFound(w, F, s) ==
  [w EXCEPT !.ready = @ \cup {e \in F : e[2] = "write"}, !.posted = @ \cup F,
            !.queue.accept = IF Listening \in F \ w.posted THEN Append(@, Listening) ELSE @,
            !.queue.now = @ \o s]
PostAll(w, F) == {PostFound(w, F, s) : s \in Orders(F \ (w.posted \cup {Listening}))}
PostSome(w, es) == UNION {PostAll(w, F) : F \in {G \in SUBSET es : Cardinality(G) <= MaxReady}}

\* select_process_events.  The bit that is looked at for a slot; what FD_ISSET
\* says of the descriptor -1 of a connection that was closed is undefined.
FdBit(w, e) == <<FdOf(w, e), IF e \in w.write THEN "write" ELSE "read">>
Gone(w)     == {i \in DOMAIN w.slots : FdOf(w, w.slots[i]) = 0}
Sought(w)   ==
  IF w.max # 0 THEN w
  ELSE LET fds == {FdOf(w, e) : e \in InSeq(w.slots)} \cup {0} IN
       [w EXCEPT !.max = CHOOSE m \in fds : \A fd \in fds : fd <= m]

\* As many slots as select counted bits, or it sleeps and repairs its sets;
\* the clock is not read again after that.
SelectFinds(w, bits, gone) ==
  LET found == gone \cup {i \in DOMAIN w.slots : FdBit(w, w.slots[i]) \in bits}
      posts == PostAll(w, {w.slots[i] : i \in found})
  IN  IF Cardinality(found) = Cardinality(bits) THEN posts
      ELSE {[SelectRepair(v) EXCEPT !.late = Nap] : v \in posts}

\* A closed descriptor is EBADF.
SelectPolls(w) ==
  LET v == Sought(w)  polled == {m \in v.master : m[1] <= v.max} IN
  IF \E m \in polled : m[1] \notin v.open THEN {SelectRepair(v)}
  ELSE {v} \cup UNION {SelectFinds(v, bits, gone) : gone \in SUBSET Gone(v),
                         bits \in {R \in SUBSET polled : R # {} /\ Cardinality(R) <= MaxReady}}

\* epoll_process_events, with its check for a stale event.
EpollPolls(w) ==
  PostSome(w, {e \in w.active : \E r \in w.interest :
                 /\ r.conn = e[1] /\ e[2] \in r.dirs
                 /\ w.fd[e[1]] # 0 /\ r.instance = w.instance[e[1]]})

Poll ==
  /\ lpc = "poll" /\ lpc' = "accepts"
  /\ \E w \in Later(io) : io' \in IF backend = "select" THEN SelectPolls(w) ELSE EpollPolls(w)
  /\ wait' = 0
  /\ UNCHANGED errors /\ Fixed

-----------------------------------------------------------------------------
(* Handlers.                                                               *)

Open(w) == {c \in Conn \ {1} : w.fd[c] # 0}

PartSent(w, e) == [w EXCEPT !.ready = @ \ {e}]

\* One thing a handler may do with the connections it knows: external.
HandlesOne(w, c) ==
  LET r == <<c, "read">>  t == <<c, "write">> IN
  {AddTimer(w, r, d) : d \in Delays}
    \cup {DelTimer(w, r), Post(w, r, "next"), WriteHandler(w, t), PartSent(w, t)}
HandlerDoes(w) ==
  {w} \cup {Close(w, c) : c \in Conn \ {1}} \cup UNION {HandlesOne(w, c) : c \in Open(w)}

\* event_accept marks the read event of what it accepts as a write event,
\* so that select_add_event refuses it.
Accepted(w, fd) ==
  LET c == Head(w.free)
      v == [Get([w EXCEPT !.open = @ \cup {fd}], fd) EXCEPT !.write = @ \cup {<<c, "read">>},
                                                            !.ready = @ \cup {<<c, "write">>}]
  IN  IF backend = "select" THEN SelectConn(v, c) ELSE EpollAddConn(v, c)

\* process_posted of posted_accept_events.
Accepts ==
  LET w == Unpost(io, Listening) IN
  /\ lpc = "accepts" /\ io.queue.accept # <<>>
  /\ \/ /\ io' = w /\ UNCHANGED <<lpc, errors>>                             \* EAGAIN
     \/ \E fd \in Fds \ io.open :
          IF io.free = <<>> THEN lpc' = "broken" /\ UNCHANGED <<io, errors>>  \* front() of an empty queue
          ELSE io' \in HandlerDoes(Accepted(w, fd)) /\ UNCHANGED <<lpc, errors>>
     \/ \E fd \in Fds \ io.open :                                           \* no pool
          io.free # <<>> /\ io' = Close(Get([w EXCEPT !.open = @ \cup {fd}], fd), Head(io.free))
          /\ UNCHANGED <<lpc, errors>>
     \/ /\ errors < MaxErrors /\ io.free # <<>>
        /\ errors' = errors + 1 /\ UNCHANGED lpc                              \* it goes on with -1
        /\ io' = Close(Get(w, 0), Head(io.free))
  /\ UNCHANGED wait /\ Fixed

Due(w) == {e \in Timers(w) : w.key[e] = LeastOf(w) /\ w.key[e] <= w.now}

\* event_timer::expire
Expire ==
  /\ lpc = "expire"
  /\ \E e \in Due(io) : io' \in HandlerDoes(DelTimer(io, e))
  /\ UNCHANGED <<lpc, wait, errors>> /\ Fixed

\* process_posted of posted_events.
Posted ==
  /\ lpc = "posted" /\ io.queue.now # <<>>
  /\ io' \in HandlerDoes(Unpost(io, Head(io.queue.now)))
  /\ UNCHANGED <<lpc, wait, errors>> /\ Fixed

QueueDone ==
  /\ \/ lpc = "accepts" /\ io.queue.accept = <<>> /\ lpc' = "expire"
     \/ lpc = "expire" /\ Due(io) = {} /\ lpc' = "posted"
     \/ lpc = "posted" /\ io.queue.now = <<>> /\ lpc' = "turn"
  /\ UNCHANGED <<io, wait, errors>> /\ Fixed

\* event_listening::close, when the worker is to go; the connection may be
\* the one that select's delete of a connection adds again.
ListeningCloses ==
  /\ lpc = "turn" /\ io.fd[1] # 0
  /\ io' = Close(IF Listening \in io.active THEN DelEvent(io, Listening) ELSE io, 1)
  /\ UNCHANGED <<lpc, wait, errors>> /\ Fixed

LoopNext == Turn \/ Poll \/ Accepts \/ Expire \/ Posted \/ QueueDone \/ ListeningCloses

-----------------------------------------------------------------------------
\* A connection is either free, once, or has a descriptor of its own, except
\* one for each accept that failed: event_accept goes on with -1, and close
\* does not give back a connection without a descriptor.  Nothing is left
\* behind of a free one: neither its timers nor its place in a posted queue
\* nor, with epoll, its registration, so that no handler runs for it and its
\* events can be zeroed for the next one (event_connection::close,
\* select_del_connection).
Accounted ==
  LET lost == {c \in Conn : io.fd[c] = 0 /\ c \notin InSeq(io.free)} IN
  /\ Cardinality(lost) <= errors
  /\ Cardinality(InSeq(io.free)) = Len(io.free)
  /\ \A c \in InSeq(io.free) : io.fd[c] = 0
  /\ \A c, d \in Conn : c # d /\ io.fd[c] # 0 => io.fd[c] # io.fd[d]
QuietWhenFree ==
  \A c \in InSeq(io.free) : \A e \in Both(c) :
    /\ e \notin Timers(io)
    /\ backend = "epoll" =>
         /\ e \notin io.active /\ e \notin UNION {InSeq(io.queue[q]) : q \in DOMAIN io.queue}
         /\ \A r \in io.interest : r.conn # c
ConnsSound == Accounted /\ QuietWhenFree

\* The loop sleeps past no timer and, when events are posted for the next
\* turn, not at all (process_event_and_timers); only with select, and only once
\* a connection was closed, whose slots and bits it keeps, it sleeps on a wrong
\* count, and its clock and its timers are late by that one sleep
\* (select_process_events, select_del_connection).
NapsOnceShut == io.late = 0 \/ (backend = "select" /\ io.shut /\ io.late = Nap)
WaitBounded == lpc = "poll" =>
  /\ wait >= 0
  /\ io.queue.now # <<>> => wait = 0
  /\ \A e \in Timers(io) : io.now + io.late + wait <= io.key[e] + IF io.shut THEN Nap ELSE 0

\* No connection is lost or handed out with something of it still under way,
\* and the loop oversleeps nothing by more than that.
LoopSound == ConnsSound /\ NapsOnceShut /\ WaitBounded
=============================================================================
