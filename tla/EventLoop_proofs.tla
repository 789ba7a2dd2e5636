-------------------------- MODULE EventLoop_proofs --------------------------
(***************************************************************************)
(* Proofs about EventLoop: whatever the handlers do, no connection is lost *)
(* but for accepts that failed, none is handed out with something of it    *)
(* still under way, and the loop does not sleep past a timer nor past what *)
(* is posted for its next turn, but for the sleep of select, which needs a *)
(* connection that was closed.  A lemma for each function of the code says *)
(* what it keeps of a state of the loop (IoOK, Matched); the actions       *)
(* follow.                                                                 *)
(***************************************************************************)
EXTENDS EventLoop, SequenceTheorems, FiniteSetTheorems, WellFoundedInduction, TLAPS

\* A set of numbers has a least member.
LEMMA LeastMember ==
  ASSUME NEW T, T \subseteq Nat, T # {}
  PROVE  \E x \in T : \A y \in T : x <= y
<1>1. IsWellFoundedOn(OpToRel(<, Nat), Nat)
  BY NatLessThanWellFounded
<1>2. PICK x \in T : \A y \in T : ~ (<<y, x>> \in OpToRel(<, Nat))
  BY <1>1, WFMin
<1>3. \A y \in T : x <= y
  <2>1. ASSUME NEW y \in T  PROVE x <= y
    <3>1. ~ (y < x)
      BY <1>2 DEF OpToRel
    <3>2. QED  BY <3>1
  <2>2. QED  BY <2>1
<1>4. QED  BY <1>3

\* What holds of the state of the loop, between any two calls: of the
\* connections and their descriptors,
IoFields == {"fd", "instance", "free", "active", "ready", "posted", "write", "index", "slots",
             "master", "max", "interest", "open", "queue", "key", "now", "late", "shut"}
Waiting == {"accept", "now", "next"}
IsFree(w, c) == c \in InSeq(w.free)
FdsOK(w) ==
  /\ w.fd \in [Conn -> Nat] /\ w.free \in Seq(Conn)
  /\ \A i, j \in 1 .. Len(w.free) : w.free[i] = w.free[j] => i = j
  /\ \A c \in Conn : IsFree(w, c) => w.fd[c] = 0
  /\ \A c \in Conn : w.fd[c] # 0 => w.fd[c] \in w.open
  /\ \A c, d \in Conn : c # d /\ w.fd[c] # 0 => w.fd[c] # w.fd[d]
\* of the timers,
KeysOK(w) ==
  /\ w.key \in [Event -> Nat] /\ w.now \in Nat \ {0}
  /\ \A e \in Event : IsFree(w, e[1]) => w.key[e] = 0
\* of the slots of select,
SlotsOK(w) ==
  /\ w.index \in [Event -> Nat] /\ w.slots \in Seq(Event)
  /\ \A e \in Event : w.index[e] # 0 => w.index[e] <= Len(w.slots) /\ w.slots[w.index[e]] = e
\* of the posted queues, where with epoll an event is linked once, and only
\* while it is marked and its connection not free,
QueuesOK(w) ==
  /\ DOMAIN w.queue = Waiting /\ \A q \in Waiting : w.queue[q] \in Seq(Event)
  /\ backend = "epoll" =>
       /\ \A q, r \in Waiting : \A i \in 1 .. Len(w.queue[q]), j \in 1 .. Len(w.queue[r]) :
            w.queue[q][i] = w.queue[r][j] => q = r /\ i = j
       /\ \A q \in Waiting : \A i \in 1 .. Len(w.queue[q]) :
            w.queue[q][i] \in w.posted /\ ~ IsFree(w, w.queue[q][i][1])
\* and of what epoll watches.
WatchOK(w) ==
  /\ w.active \subseteq Event
  /\ backend = "epoll" =>
       /\ \A e \in w.active : ~ IsFree(w, e[1])
       /\ \A r \in w.interest : r.conn \in Conn /\ r.fd = w.fd[r.conn] /\ r.fd # 0
IoOK(w) == /\ DOMAIN w = IoFields /\ backend \in {"select", "epoll"}
           /\ FdsOK(w) /\ KeysOK(w) /\ SlotsOK(w) /\ QueuesOK(w) /\ WatchOK(w)

\* The connections nobody has, and what most calls do: nothing to those that
\* have a descriptor or are free, and nothing to a timer but to take it away
\* or to set it anew.
LostOf(w) == {c \in Conn : w.fd[c] = 0 /\ ~ IsFree(w, c)}
SameConns(w, v) == v.fd = w.fd /\ v.free = w.free
KeysLater(w, v) ==
  /\ v.now = w.now
  /\ \A e \in Event : v.key[e] = 0 \/ v.key[e] = w.key[e] \/ v.key[e] >= w.now

\* An event of the two of a connection.
LEMMA EventFacts ==
  /\ \A e \in Event : e[1] \in Conn /\ e[2] \in {"read", "write"} /\ e = <<e[1], e[2]>>
  /\ \A c \in Conn : <<c, "read">> \in Event /\ <<c, "write">> \in Event
  /\ \A c \in Conn : Both(c) = {<<c, "read">>, <<c, "write">>}
  /\ \A c \in Conn : \A e \in Event : e \in Both(c) <=> e[1] = c
<1>1. \A e \in Event : e[1] \in Conn /\ e[2] \in {"read", "write"} /\ e = <<e[1], e[2]>>
  BY DEF Event
<1>2. \A c \in Conn : <<c, "read">> \in Event /\ <<c, "write">> \in Event
  BY DEF Event
<1>3. \A c \in Conn : Both(c) = {<<c, "read">>, <<c, "write">>}
  BY DEF Both
<1>4. \A c \in Conn : \A e \in Event : e \in Both(c) <=> e[1] = c
  BY <1>1 DEF Both, Event
<1>5. QED  BY <1>1, <1>2, <1>3, <1>4

\* Taking a link out of a queue leaves links it had, each once, and not that
\* one when it was there once.
PartOf(t, s, x) ==
  \E k \in [1 .. Len(t) -> 1 .. Len(s)] :
    /\ \A i \in 1 .. Len(t) : t[i] = s[k[i]]
    /\ \A i, j \in 1 .. Len(t) : k[i] = k[j] => i = j
    /\ (\A i, j \in 1 .. Len(s) : s[i] = s[j] => i = j) => \A i \in 1 .. Len(t) : s[k[i]] # x
LEMMA UnlinkIs ==
  ASSUME NEW S, NEW s \in Seq(S), NEW x
  PROVE  /\ Unlink(s, x) \in Seq(S)
         /\ s = <<>> => Unlink(s, x) = <<>>
         /\ PartOf(Unlink(s, x), s, x)
<1>1. CASE x \notin InSeq(s)
  <2>1. Unlink(s, x) = s
    BY <1>1 DEF Unlink
  <2> DEFINE k == [i \in 1 .. Len(s) |-> i]
  <2>2. k \in [1 .. Len(s) -> 1 .. Len(s)] /\ \A i \in 1 .. Len(s) : k[i] = i /\ s[i] # x
    BY <1>1 DEF InSeq
  <2> HIDE DEF k
  <2>3. QED  BY <2>1, <2>2 DEF PartOf
<1>2. CASE x \in InSeq(s)
  <2>1. PICK a \in 1 .. Len(s) : a = At(s, x) /\ s[a] = x
    BY <1>2 DEF At, InSeq
  <2> DEFINE t == [i \in 1 .. Len(s) - 1 |-> s[IF i < a THEN i ELSE i + 1]]
             k == [i \in 1 .. Len(s) - 1 |-> IF i < a THEN i ELSE i + 1]
  <2>2. Unlink(s, x) = t
    BY <1>2, <2>1 DEF Unlink
  <2>3. Len(s) \in Nat /\ Len(s) # 0
    BY <2>1
  <2>4. k \in [1 .. Len(s) - 1 -> 1 .. Len(s)] /\ \A i \in 1 .. Len(s) - 1 : k[i] # a
    BY <2>1, <2>3
  <2>5. \A i, j \in 1 .. Len(s) - 1 : k[i] = k[j] => i = j
    BY <2>1, <2>3
  <2>6. \A i \in 1 .. Len(s) - 1 : t[i] = s[k[i]] /\ t[i] \in S
    BY <2>4
  <2>7. t \in Seq(S) /\ Len(t) = Len(s) - 1
    <3>1. Len(s) - 1 \in Nat
      BY <2>3
    <3>2. t \in [1 .. Len(s) - 1 -> S]
      BY <2>6
    <3>3. QED  BY <3>1, <3>2
  <2>8. s # <<>>
    BY <2>3
  <2> HIDE DEF t, k
  <2>9. ASSUME \A i, j \in 1 .. Len(s) : s[i] = s[j] => i = j
        PROVE  \A i \in 1 .. Len(t) : s[k[i]] # x
    BY <2>1, <2>4, <2>7, <2>9
  <2>10. /\ k \in [1 .. Len(t) -> 1 .. Len(s)]
         /\ \A i \in 1 .. Len(t) : t[i] = s[k[i]]
         /\ \A i, j \in 1 .. Len(t) : k[i] = k[j] => i = j
    BY <2>4, <2>5, <2>6, <2>7
  <2>11. PartOf(t, s, x)
    BY <2>9, <2>10 DEF PartOf
  <2>12. QED  BY <2>2, <2>7, <2>8, <2>11
<1>3. QED  BY <1>1, <1>2

\* What a call leaves alone keeps what holds of it.
LEMMA Frames ==
  ASSUME NEW w, NEW v, v.free = w.free
  PROVE  /\ FdsOK(w) /\ v.fd = w.fd /\ v.open = w.open => FdsOK(v)
         /\ KeysOK(w) /\ v.key = w.key /\ v.now = w.now => KeysOK(v)
         /\ SlotsOK(w) /\ v.index = w.index /\ v.slots = w.slots => SlotsOK(v)
         /\ QueuesOK(w) /\ v.queue = w.queue /\ v.posted = w.posted => QueuesOK(v)
         /\ WatchOK(w) /\ v.active = w.active /\ v.interest = w.interest /\ v.fd = w.fd => WatchOK(v)
         /\ v.fd = w.fd => LostOf(v) = LostOf(w)
<1>1. \A c : IsFree(v, c) <=> IsFree(w, c)
  BY DEF IsFree
<1>2. FdsOK(w) /\ v.fd = w.fd /\ v.open = w.open => FdsOK(v)
  BY <1>1 DEF FdsOK
<1>3. KeysOK(w) /\ v.key = w.key /\ v.now = w.now => KeysOK(v)
  BY <1>1 DEF KeysOK
<1>4. SlotsOK(w) /\ v.index = w.index /\ v.slots = w.slots => SlotsOK(v)
  BY DEF SlotsOK
<1>5. QueuesOK(w) /\ v.queue = w.queue /\ v.posted = w.posted => QueuesOK(v)
  BY <1>1 DEF QueuesOK
<1>6. WatchOK(w) /\ v.active = w.active /\ v.interest = w.interest /\ v.fd = w.fd => WatchOK(v)
  BY <1>1 DEF WatchOK
<1>7. v.fd = w.fd => LostOf(v) = LostOf(w)
  BY <1>1 DEF LostOf
<1>8. QED  BY <1>2, <1>3, <1>4, <1>5, <1>6, <1>7

\* Timers.
LEMMA DelTimerKeeps ==
  ASSUME NEW w, IoOK(w), NEW e \in Event
  PROVE  LET v == DelTimer(w, e) IN
         /\ IoOK(v) /\ SameConns(w, v) /\ KeysLater(w, v)
         /\ v.queue = w.queue /\ v.open = w.open
         /\ v.key[e] = 0 /\ \A x \in Event : x # e => v.key[x] = w.key[x]
<1> DEFINE v == DelTimer(w, e)
<1>1. /\ DOMAIN v = IoFields /\ v.fd = w.fd /\ v.free = w.free /\ v.open = w.open /\ v.now = w.now
      /\ v.index = w.index /\ v.slots = w.slots /\ v.queue = w.queue /\ v.posted = w.posted
      /\ v.active = w.active /\ v.interest = w.interest
      /\ v.key = [w.key EXCEPT ![e] = 0]
  BY DEF DelTimer, IoOK, IoFields
<1> HIDE DEF v
<1>2. /\ v.key \in [Event -> Nat] /\ v.key[e] = 0
      /\ \A x \in Event : x # e => v.key[x] = w.key[x]
  BY <1>1 DEF IoOK, KeysOK
<1>3. KeysOK(v)
  BY <1>1, <1>2 DEF IoOK, KeysOK, IsFree
<1>4. FdsOK(v) /\ SlotsOK(v) /\ QueuesOK(v) /\ WatchOK(v)
  BY <1>1, Frames DEF IoOK
<1>5. SameConns(w, v) /\ KeysLater(w, v)
  BY <1>1, <1>2 DEF SameConns, KeysLater
<1>6. QED  BY <1>1, <1>2, <1>3, <1>4, <1>5 DEF IoOK, v

LEMMA AddTimerKeeps ==
  ASSUME NEW w, IoOK(w), NEW e \in Event, ~ IsFree(w, e[1]), NEW delay \in Nat
  PROVE  LET v == AddTimer(w, e, delay) IN
         IoOK(v) /\ SameConns(w, v) /\ KeysLater(w, v)
<1> DEFINE v == AddTimer(w, e, delay)
<1>1. CASE v = w
  BY <1>1 DEF SameConns, KeysLater
<1>2. CASE v # w
  <2>1. v = [w EXCEPT !.key[e] = w.now + delay]
    BY <1>2 DEF AddTimer
  <2> HIDE DEF v
  <2>2. /\ DOMAIN v = IoFields /\ v.fd = w.fd /\ v.free = w.free /\ v.open = w.open /\ v.now = w.now
        /\ v.index = w.index /\ v.slots = w.slots /\ v.queue = w.queue /\ v.posted = w.posted
        /\ v.active = w.active /\ v.interest = w.interest
        /\ v.key = [w.key EXCEPT ![e] = w.now + delay]
    BY <2>1 DEF IoOK, IoFields
  <2>3. w.now + delay \in Nat /\ w.now + delay >= w.now
    BY DEF IoOK, KeysOK
  <2>4. /\ v.key \in [Event -> Nat] /\ v.key[e] >= w.now
        /\ \A x \in Event : x # e => v.key[x] = w.key[x]
    BY <2>2, <2>3 DEF IoOK, KeysOK
  <2>5. KeysOK(v)
    BY <2>2, <2>4 DEF IoOK, KeysOK, IsFree
  <2>6. FdsOK(v) /\ SlotsOK(v) /\ QueuesOK(v) /\ WatchOK(v)
    BY <2>2, Frames DEF IoOK
  <2>7. SameConns(w, v) /\ KeysLater(w, v)
    BY <2>2, <2>4 DEF SameConns, KeysLater
  <2>8. QED  BY <2>2, <2>5, <2>6, <2>7 DEF IoOK, v
<1>3. QED  BY <1>1, <1>2

\* Posted queues.
LEMMA PostKeeps ==
  ASSUME NEW w, IoOK(w), NEW e \in Event, NEW q \in Waiting,
         backend = "epoll" => ~ IsFree(w, e[1])
  PROVE  LET v == Post(w, e, q) IN
         IoOK(v) /\ SameConns(w, v) /\ KeysLater(w, v)
<1> DEFINE v == Post(w, e, q)
<1>1. CASE e \in w.posted
  <2>1. v = w
    BY <1>1 DEF Post
  <2>2. QED  BY <2>1 DEF SameConns, KeysLater
<1>2. CASE e \notin w.posted
  <2>1. /\ DOMAIN v = IoFields /\ v.fd = w.fd /\ v.free = w.free /\ v.open = w.open /\ v.now = w.now
        /\ v.index = w.index /\ v.slots = w.slots /\ v.key = w.key
        /\ v.active = w.active /\ v.interest = w.interest
        /\ v.posted = w.posted \cup {e} /\ v.queue = [w.queue EXCEPT ![q] = Append(@, e)]
    BY <1>2 DEF Post, IoOK, IoFields
  <2> HIDE DEF v
  <2>2. DOMAIN w.queue = Waiting /\ \A r \in Waiting : w.queue[r] \in Seq(Event)
    BY DEF IoOK, QueuesOK
  <2>3. /\ DOMAIN v.queue = Waiting /\ v.queue[q] = Append(w.queue[q], e)
        /\ \A r \in Waiting : r # q => v.queue[r] = w.queue[r]
    BY <2>1, <2>2
  <2>4. ASSUME NEW r \in Waiting
        PROVE  v.queue[r] \in Seq(Event)
    <3>1. CASE r = q
      <4>1. Append(w.queue[q], e) \in Seq(Event)
        BY <2>2
      <4>2. QED  BY <2>3, <3>1, <4>1
    <3>2. CASE r # q
      BY <2>2, <2>3, <3>2
    <3>3. QED  BY <3>1, <3>2
  \* Each place is one there was, or the one behind them all.
  <2>5. ASSUME NEW r \in Waiting, NEW i \in 1 .. Len(v.queue[r])
        PROVE  \/ i \in 1 .. Len(w.queue[r]) /\ v.queue[r][i] = w.queue[r][i]
               \/ r = q /\ i = Len(w.queue[q]) + 1 /\ v.queue[r][i] = e
    <3>1. CASE r = q
      <4>1. w.queue[q] \in Seq(Event) /\ v.queue[r] = Append(w.queue[q], e)
        BY <2>2, <2>3, <3>1
      <4>2. QED  BY <2>5, <3>1, <4>1
    <3>2. CASE r # q
      BY <2>3, <2>5, <3>2
    <3>3. QED  BY <3>1, <3>2
  <2>6. ASSUME backend = "epoll"
        PROVE  /\ \A r, s \in Waiting : \A i \in 1 .. Len(v.queue[r]), j \in 1 .. Len(v.queue[s]) :
                    v.queue[r][i] = v.queue[s][j] => r = s /\ i = j
               /\ \A r \in Waiting : \A i \in 1 .. Len(v.queue[r]) :
                    v.queue[r][i] \in v.posted /\ ~ IsFree(v, v.queue[r][i][1])
    <3>1. \A r \in Waiting : \A i \in 1 .. Len(w.queue[r]) :
            w.queue[r][i] # e /\ w.queue[r][i] \in w.posted /\ ~ IsFree(w, w.queue[r][i][1])
      BY <1>2, <2>6 DEF IoOK, QueuesOK
    <3>2. \A r, s \in Waiting : \A i \in 1 .. Len(v.queue[r]), j \in 1 .. Len(v.queue[s]) :
            v.queue[r][i] = v.queue[s][j] => r = s /\ i = j
      <4>1. SUFFICES ASSUME NEW r \in Waiting, NEW s \in Waiting, NEW i \in 1 .. Len(v.queue[r]),
                            NEW j \in 1 .. Len(v.queue[s]), v.queue[r][i] = v.queue[s][j]
                     PROVE  r = s /\ i = j
        OBVIOUS
      <4>2. CASE i \in 1 .. Len(w.queue[r]) /\ v.queue[r][i] = w.queue[r][i]
        <5>1. j \in 1 .. Len(w.queue[s]) /\ v.queue[s][j] = w.queue[s][j]
          BY <2>5, <3>1, <4>1, <4>2
        <5>2. w.queue[r][i] = w.queue[s][j]
          BY <4>1, <4>2, <5>1
        <5>3. \A a, b \in Waiting : \A m \in 1 .. Len(w.queue[a]), n \in 1 .. Len(w.queue[b]) :
                w.queue[a][m] = w.queue[b][n] => a = b /\ m = n
          BY <2>6 DEF IoOK, QueuesOK
        <5>4. QED  BY <4>2, <5>1, <5>2, <5>3
      <4>3. CASE r = q /\ i = Len(w.queue[q]) + 1 /\ v.queue[r][i] = e
        BY <2>5, <3>1, <4>1, <4>3
      <4>4. QED  BY <2>5, <4>2, <4>3
    <3>3. ASSUME NEW r \in Waiting, NEW i \in 1 .. Len(v.queue[r])
          PROVE  v.queue[r][i] \in v.posted /\ ~ IsFree(v, v.queue[r][i][1])
      <4>1. \A c : IsFree(v, c) <=> IsFree(w, c)
        BY <2>1 DEF IsFree
      <4>2. QED  BY <2>1, <2>5, <2>6, <3>1, <4>1
    <3>4. QED  BY <3>2, <3>3
  <2>7. QueuesOK(v)
    BY <2>3, <2>4, <2>6 DEF QueuesOK
  <2>8. FdsOK(v) /\ SlotsOK(v) /\ KeysOK(v) /\ WatchOK(v)
    BY <2>1, Frames DEF IoOK
  <2>9. SameConns(w, v) /\ KeysLater(w, v)
    BY <2>1 DEF SameConns, KeysLater
  <2>10. QED  BY <2>1, <2>7, <2>8, <2>9 DEF IoOK, v
<1>3. QED  BY <1>1, <1>2

LEMMA UnpostKeeps ==
  ASSUME NEW w, IoOK(w), NEW e \in Event
  PROVE  LET v == Unpost(w, e) IN
         /\ IoOK(v) /\ SameConns(w, v) /\ KeysLater(w, v)
         /\ v.key = w.key /\ v.open = w.open /\ v.active = w.active
         /\ w.queue["now"] = <<>> => v.queue["now"] = <<>>
         /\ \A q \in Waiting : InSeq(v.queue[q]) \subseteq InSeq(w.queue[q])
         /\ backend = "epoll" => \A q \in Waiting : e \notin InSeq(v.queue[q])
<1> DEFINE v == Unpost(w, e)
<1>1. /\ DOMAIN v = IoFields /\ v.fd = w.fd /\ v.free = w.free /\ v.open = w.open /\ v.now = w.now
      /\ v.index = w.index /\ v.slots = w.slots /\ v.key = w.key
      /\ v.active = w.active /\ v.interest = w.interest
      /\ v.posted = w.posted \ {e}
      /\ v.queue = [q \in DOMAIN w.queue |-> Unlink(w.queue[q], e)]
  BY DEF Unpost, IoOK, IoFields
<1> HIDE DEF v
<1>2. DOMAIN w.queue = Waiting /\ \A q \in Waiting : w.queue[q] \in Seq(Event)
  BY DEF IoOK, QueuesOK
<1>3. DOMAIN v.queue = Waiting /\ \A q \in Waiting : v.queue[q] = Unlink(w.queue[q], e)
  BY <1>1, <1>2
<1>4. \A q \in Waiting :
        /\ v.queue[q] \in Seq(Event)
        /\ w.queue[q] = <<>> => v.queue[q] = <<>>
        /\ PartOf(v.queue[q], w.queue[q], e)
  BY <1>2, <1>3, UnlinkIs
<1>5. \A q \in Waiting : InSeq(v.queue[q]) \subseteq InSeq(w.queue[q])
  <2>1. ASSUME NEW q \in Waiting, NEW i \in 1 .. Len(v.queue[q])
        PROVE  \E j \in 1 .. Len(w.queue[q]) : v.queue[q][i] = w.queue[q][j]
    <3>1. PICK k \in [1 .. Len(v.queue[q]) -> 1 .. Len(w.queue[q])] :
            \A m \in 1 .. Len(v.queue[q]) : v.queue[q][m] = w.queue[q][k[m]]
      BY <1>4 DEF PartOf
    <3>2. k[i] \in 1 .. Len(w.queue[q])
      OBVIOUS
    <3>3. QED  BY <3>1, <3>2
  <2>2. QED  BY <2>1 DEF InSeq
<1>6. ASSUME backend = "epoll"
      PROVE  /\ \A q, r \in Waiting : \A i \in 1 .. Len(v.queue[q]), j \in 1 .. Len(v.queue[r]) :
                  v.queue[q][i] = v.queue[r][j] => q = r /\ i = j
             /\ \A q \in Waiting : \A i \in 1 .. Len(v.queue[q]) :
                  /\ v.queue[q][i] \in w.posted /\ ~ IsFree(w, v.queue[q][i][1])
                  /\ v.queue[q][i] # e
  <2>1. \A q, r \in Waiting : \A i \in 1 .. Len(w.queue[q]), j \in 1 .. Len(w.queue[r]) :
          w.queue[q][i] = w.queue[r][j] => q = r /\ i = j
    BY <1>6 DEF IoOK, QueuesOK
  <2>2. \A q \in Waiting : \A i, j \in 1 .. Len(w.queue[q]) : w.queue[q][i] = w.queue[q][j] => i = j
    BY <2>1
  <2>3. ASSUME NEW q \in Waiting, NEW r \in Waiting, NEW i \in 1 .. Len(v.queue[q]),
               NEW j \in 1 .. Len(v.queue[r]), v.queue[q][i] = v.queue[r][j]
        PROVE  q = r /\ i = j
    <3>1. PICK k \in [1 .. Len(v.queue[q]) -> 1 .. Len(w.queue[q])] :
            /\ \A m \in 1 .. Len(v.queue[q]) : v.queue[q][m] = w.queue[q][k[m]]
            /\ \A m, n \in 1 .. Len(v.queue[q]) : k[m] = k[n] => m = n
      BY <1>4 DEF PartOf
    <3>2. PICK h \in [1 .. Len(v.queue[r]) -> 1 .. Len(w.queue[r])] :
            \A m \in 1 .. Len(v.queue[r]) : v.queue[r][m] = w.queue[r][h[m]]
      BY <1>4 DEF PartOf
    <3>3. k[i] \in 1 .. Len(w.queue[q]) /\ h[j] \in 1 .. Len(w.queue[r])
      OBVIOUS
    <3>4. w.queue[q][k[i]] = w.queue[r][h[j]]
      BY <2>3, <3>1, <3>2
    <3>5. q = r
      BY <2>1, <3>3, <3>4
    <3>6. w.queue[q][k[i]] = w.queue[q][k[j]] /\ k[j] \in 1 .. Len(w.queue[q])
      BY <2>3, <3>1, <3>5
    <3>7. k[i] = k[j]
      BY <2>2, <3>3, <3>6
    <3>8. QED  BY <3>1, <3>5, <3>7
  <2>4. ASSUME NEW q \in Waiting, NEW i \in 1 .. Len(v.queue[q])
        PROVE  /\ v.queue[q][i] \in w.posted /\ ~ IsFree(w, v.queue[q][i][1])
               /\ v.queue[q][i] # e
    <3>1. PICK n \in 1 .. Len(w.queue[q]) : v.queue[q][i] = w.queue[q][n] /\ w.queue[q][n] # e
      BY <1>4, <2>2 DEF PartOf
    <3>2. w.queue[q][n] \in w.posted /\ ~ IsFree(w, w.queue[q][n][1])
      BY <1>6 DEF IoOK, QueuesOK
    <3>3. QED  BY <3>1, <3>2
  <2>5. QED  BY <2>3, <2>4
<1>7. QueuesOK(v)
  <2>1. \A c : IsFree(v, c) <=> IsFree(w, c)
    BY <1>1 DEF IsFree
  <2>2. ASSUME backend = "epoll"
        PROVE  \A q \in Waiting : \A i \in 1 .. Len(v.queue[q]) :
                 v.queue[q][i] \in v.posted /\ ~ IsFree(v, v.queue[q][i][1])
    BY <1>1, <1>6, <2>1, <2>2
  <2>3. QED  BY <1>3, <1>4, <1>6, <2>2 DEF QueuesOK
<1>8. FdsOK(v) /\ SlotsOK(v) /\ KeysOK(v) /\ WatchOK(v)
  BY <1>1, Frames DEF IoOK
<1>9. SameConns(w, v) /\ KeysLater(w, v)
  BY <1>1 DEF SameConns, KeysLater
<1>10. backend = "epoll" => \A q \in Waiting : e \notin InSeq(v.queue[q])
  BY <1>6 DEF InSeq
<1>11. w.queue["now"] = <<>> => v.queue["now"] = <<>>
  BY <1>4 DEF Waiting
<1>12. IoOK(v)
  BY <1>1, <1>7, <1>8 DEF IoOK
<1>13. QED  BY <1>1, <1>5, <1>9, <1>10, <1>11, <1>12 DEF v

\* A call that changes only what is registered.
OnlyWatch(w, v) ==
  /\ DOMAIN v = DOMAIN w /\ SameConns(w, v)
  /\ v.open = w.open /\ v.key = w.key /\ v.now = w.now /\ v.queue = w.queue /\ v.posted = w.posted
LEMMA OnlyWatchKeeps ==
  ASSUME NEW w, NEW v, IoOK(w), OnlyWatch(w, v), SlotsOK(v), WatchOK(v)
  PROVE  IoOK(v) /\ SameConns(w, v) /\ KeysLater(w, v) /\ v.queue = w.queue /\ v.open = w.open
                /\ v.key = w.key
<1>1. v.free = w.free /\ v.fd = w.fd
  BY DEF OnlyWatch, SameConns
<1>2. FdsOK(v) /\ KeysOK(v) /\ QueuesOK(v)
  BY <1>1, Frames DEF IoOK, OnlyWatch
<1>3. KeysLater(w, v)
  BY DEF KeysLater, OnlyWatch
<1>4. QED  BY <1>2, <1>3 DEF IoOK, OnlyWatch

\* select.
LEMMA SelectAddKeeps ==
  ASSUME NEW w, IoOK(w), backend # "epoll", NEW e \in Event
  PROVE  LET v == SelectAdd(w, e) IN OnlyWatch(w, v) /\ SlotsOK(v) /\ WatchOK(v)
<1> DEFINE v == SelectAdd(w, e)
<1>1. CASE v = w
  BY <1>1 DEF OnlyWatch, SameConns, IoOK
<1>2. CASE v # w
  <2>1. /\ DOMAIN v = DOMAIN w /\ v.fd = w.fd /\ v.free = w.free /\ v.open = w.open /\ v.now = w.now
        /\ v.key = w.key /\ v.queue = w.queue /\ v.posted = w.posted
        /\ v.active = w.active \cup {e} /\ v.slots = Append(w.slots, e)
        /\ v.index = [w.index EXCEPT ![e] = Len(w.slots) + 1]
    BY <1>2 DEF SelectAdd, IoOK, IoFields
  <2> HIDE DEF v
  <2>2. w.slots \in Seq(Event) /\ w.index \in [Event -> Nat] /\ Len(w.slots) \in Nat
    BY DEF IoOK, SlotsOK
  <2>3. v.slots \in Seq(Event) /\ Len(v.slots) = Len(w.slots) + 1
    BY <2>1, <2>2
  <2>4. v.slots[Len(w.slots) + 1] = e /\ \A i \in 1 .. Len(w.slots) : v.slots[i] = w.slots[i]
    BY <2>1, <2>2
  <2>5. v.index \in [Event -> Nat]
    BY <2>1, <2>2
  <2>6. ASSUME NEW x \in Event, v.index[x] # 0
        PROVE  v.index[x] <= Len(v.slots) /\ v.slots[v.index[x]] = x
    <3>1. CASE x = e
      <4>1. v.index[x] = Len(w.slots) + 1
        BY <2>1, <2>2, <3>1
      <4>2. QED  BY <2>2, <2>3, <2>4, <3>1, <4>1
    <3>2. CASE x # e
      <4>1. v.index[x] = w.index[x]
        BY <2>1, <2>2, <3>2
      <4>2. w.index[x] \in 1 .. Len(w.slots) /\ w.slots[w.index[x]] = x
        BY <2>2, <2>6, <4>1 DEF IoOK, SlotsOK
      <4>3. v.slots[w.index[x]] = x
        BY <2>4, <4>2
      <4>4. w.index[x] <= Len(v.slots)
        BY <2>2, <2>3, <4>2
      <4>5. QED  BY <4>1, <4>3, <4>4
    <3>3. QED  BY <3>1, <3>2
  <2>7. SlotsOK(v)
    BY <2>3, <2>5, <2>6 DEF SlotsOK
  <2>8. WatchOK(v)
    BY <2>1 DEF IoOK, WatchOK
  <2>9. QED  BY <2>1, <2>7, <2>8 DEF OnlyWatch, SameConns, v
<1>3. QED  BY <1>1, <1>2

LEMMA SelectDelKeeps ==
  ASSUME NEW w, IoOK(w), backend # "epoll", NEW e \in Event
  PROVE  LET v == SelectDel(w, e) IN OnlyWatch(w, v) /\ SlotsOK(v) /\ WatchOK(v)
<1> DEFINE v == SelectDel(w, e)
           last == w.slots[Len(w.slots)]
           cut == SubSeq(w.slots, 1, Len(w.slots) - 1)
           i == w.index[e]
<1>1. CASE i = 0
  <2>1. v = [w EXCEPT !.active = @ \ {e}]
    BY <1>1 DEF SelectDel
  <2>2. /\ DOMAIN v = DOMAIN w /\ v.fd = w.fd /\ v.free = w.free /\ v.open = w.open /\ v.now = w.now
        /\ v.key = w.key /\ v.queue = w.queue /\ v.posted = w.posted
        /\ v.active = w.active \ {e} /\ v.slots = w.slots /\ v.index = w.index
    BY <2>1 DEF IoOK, IoFields
  <2>3. SlotsOK(v) /\ WatchOK(v)
    BY <2>2 DEF IoOK, SlotsOK, WatchOK
  <2>4. QED  BY <2>2, <2>3 DEF OnlyWatch, SameConns
<1>2. CASE i # 0
  <2>1. /\ DOMAIN v = DOMAIN w /\ v.fd = w.fd /\ v.free = w.free /\ v.open = w.open /\ v.now = w.now
        /\ v.key = w.key /\ v.queue = w.queue /\ v.posted = w.posted
        /\ v.active = w.active \ {e}
        /\ v.slots = IF i <= Len(cut) THEN [cut EXCEPT ![i] = last] ELSE cut
        /\ v.index = [x \in Event |-> IF x = e THEN 0
                                      ELSE IF x = last /\ i <= Len(cut) THEN i ELSE w.index[x]]
    BY <1>2 DEF SelectDel, IoOK, IoFields
  <2> HIDE DEF v
  <2>2. /\ w.slots \in Seq(Event) /\ w.index \in [Event -> Nat] /\ Len(w.slots) \in Nat
        /\ i \in 1 .. Len(w.slots) /\ w.slots[i] = e
    BY <1>2 DEF IoOK, SlotsOK
  <2>3. last \in Event /\ cut \in Seq(Event) /\ Len(cut) = Len(w.slots) - 1
        /\ \A n \in 1 .. Len(w.slots) - 1 : cut[n] = w.slots[n]
    BY <2>2
  <2> HIDE DEF last, cut
  <2>4. v.slots \in Seq(Event) /\ Len(v.slots) = Len(w.slots) - 1
    BY <2>1, <2>2, <2>3
  <2>5. v.index \in [Event -> Nat]
    BY <2>1, <2>2
  <2>6. ASSUME NEW x \in Event, v.index[x] # 0
        PROVE  v.index[x] <= Len(v.slots) /\ v.slots[v.index[x]] = x
    <3>1. x # e
      BY <2>1, <2>6
    <3>2. CASE x = last /\ i <= Len(cut)
      <4>1. v.index[x] = i /\ v.slots[i] = last
        BY <2>1, <2>2, <2>3, <3>1, <3>2
      <4>2. QED  BY <2>2, <2>3, <2>4, <3>2, <4>1
    <3>3. CASE ~ (x = last /\ i <= Len(cut))
      <4>1. v.index[x] = w.index[x]
        BY <2>1, <3>1, <3>3
      <4>2. w.index[x] \in 1 .. Len(w.slots) /\ w.slots[w.index[x]] = x
        BY <2>2, <2>6, <4>1 DEF IoOK, SlotsOK
      <4>3. w.index[x] # i
        BY <2>2, <3>1, <4>2
      <4>4. w.index[x] # Len(w.slots)
        BY <2>2, <2>3, <3>1, <3>3, <4>2, <4>3 DEF last
      <4>5. w.index[x] \in 1 .. Len(w.slots) - 1
        BY <2>2, <4>2, <4>4
      <4>6. v.slots[w.index[x]] = cut[w.index[x]]
        BY <2>1, <2>2, <2>3, <4>3, <4>5
      <4>7. QED  BY <2>3, <2>4, <4>1, <4>2, <4>5, <4>6
    <3>4. QED  BY <3>2, <3>3
  <2>7. SlotsOK(v)
    BY <2>4, <2>5, <2>6 DEF SlotsOK
  <2>8. WatchOK(v)
    BY <2>1 DEF IoOK, WatchOK
  <2>9. QED  BY <2>1, <2>7, <2>8 DEF OnlyWatch, SameConns, v
<1>3. QED  BY <1>1, <1>2

\* epoll.
LEMMA EpollAddKeeps ==
  ASSUME NEW w, IoOK(w), backend = "epoll", NEW e \in Event, ~ IsFree(w, e[1])
  PROVE  LET v == EpollAdd(w, e) IN OnlyWatch(w, v) /\ SlotsOK(v) /\ WatchOK(v)
<1> DEFINE v == EpollAdd(w, e)
           c == e[1]
<1>1. CASE v = w
  BY <1>1 DEF OnlyWatch, SameConns, IoOK
<1>2. CASE v # w
  <2> DEFINE dirs == IF Pair(e) \in w.active THEN {"read", "write"} ELSE {e[2]}
  <2>1. w.fd[c] # 0 /\ v = [w EXCEPT !.interest = Drop(w, w.fd[c]) \cup {Interest(w, c, dirs)},
                                     !.active = w.active \cup {e}]
    BY <1>2 DEF EpollAdd
  <2> HIDE DEF v
  <2>2. /\ DOMAIN v = DOMAIN w /\ v.fd = w.fd /\ v.free = w.free /\ v.open = w.open /\ v.now = w.now
        /\ v.key = w.key /\ v.queue = w.queue /\ v.posted = w.posted
        /\ v.slots = w.slots /\ v.index = w.index
        /\ v.active = w.active \cup {e}
        /\ v.interest = Drop(w, w.fd[c]) \cup {Interest(w, c, dirs)}
    BY <2>1 DEF IoOK, IoFields
  <2>3. c \in Conn
    BY EventFacts
  <2>4. \A r \in v.interest : r.conn \in Conn /\ r.fd = w.fd[r.conn] /\ r.fd # 0
    BY <2>1, <2>2, <2>3 DEF IoOK, WatchOK, Drop, Interest
  <2>5. WatchOK(v)
    BY <2>2, <2>4 DEF IoOK, WatchOK, IsFree
  <2>6. SlotsOK(v)
    BY <2>2 DEF IoOK, SlotsOK
  <2>7. QED  BY <2>2, <2>5, <2>6 DEF OnlyWatch, SameConns, v
<1>3. QED  BY <1>1, <1>2

LEMMA EpollDelKeeps ==
  ASSUME NEW w, IoOK(w), backend = "epoll", NEW e \in Event
  PROVE  LET v == EpollDel(w, e) IN OnlyWatch(w, v) /\ SlotsOK(v) /\ WatchOK(v)
<1> DEFINE v == EpollDel(w, e)
           c == e[1]
<1>1. CASE v = w
  BY <1>1 DEF OnlyWatch, SameConns, IoOK
<1>2. CASE v # w
  <2> DEFINE rest == IF Pair(e) \in w.active THEN {Interest(w, c, {Pair(e)[2]})} ELSE {}
  <2>1. Registered(w, c) /\ v = [w EXCEPT !.interest = Drop(w, w.fd[c]) \cup rest,
                                          !.active = w.active \ {e}]
    BY <1>2 DEF EpollDel
  <2> HIDE DEF v
  <2>2. /\ DOMAIN v = DOMAIN w /\ v.fd = w.fd /\ v.free = w.free /\ v.open = w.open /\ v.now = w.now
        /\ v.key = w.key /\ v.queue = w.queue /\ v.posted = w.posted
        /\ v.slots = w.slots /\ v.index = w.index
        /\ v.active = w.active \ {e} /\ v.interest = Drop(w, w.fd[c]) \cup rest
    BY <2>1 DEF IoOK, IoFields
  <2>3. c \in Conn /\ w.fd[c] # 0
    BY <2>1, EventFacts DEF Registered, IoOK, WatchOK
  <2>4. \A r \in v.interest : r.conn \in Conn /\ r.fd = w.fd[r.conn] /\ r.fd # 0
    BY <2>2, <2>3 DEF IoOK, WatchOK, Drop, Interest
  <2>5. WatchOK(v)
    BY <2>2, <2>4 DEF IoOK, WatchOK, IsFree
  <2>6. SlotsOK(v)
    BY <2>2 DEF IoOK, SlotsOK
  <2>7. QED  BY <2>2, <2>5, <2>6 DEF OnlyWatch, SameConns, v
<1>3. QED  BY <1>1, <1>2

LEMMA EpollAddConnKeeps ==
  ASSUME NEW w, IoOK(w), backend = "epoll", NEW c \in Conn, w.fd[c] # 0
  PROVE  LET v == EpollAddConn(w, c) IN OnlyWatch(w, v) /\ SlotsOK(v) /\ WatchOK(v)
<1> DEFINE v == EpollAddConn(w, c)
<1>1. /\ DOMAIN v = DOMAIN w /\ v.fd = w.fd /\ v.free = w.free /\ v.open = w.open /\ v.now = w.now
      /\ v.key = w.key /\ v.queue = w.queue /\ v.posted = w.posted
      /\ v.slots = w.slots /\ v.index = w.index
      /\ v.active = w.active \cup Both(c)
      /\ v.interest = w.interest \cup {Interest(w, c, {"read", "write"})}
  BY DEF EpollAddConn, IoOK, IoFields
<1> HIDE DEF v
<1>2. ~ IsFree(w, c)
  BY DEF IoOK, FdsOK
<1>3. \A r \in v.interest : r.conn \in Conn /\ r.fd = w.fd[r.conn] /\ r.fd # 0
  BY <1>1 DEF IoOK, WatchOK, Interest
<1>4. \A e \in Both(c) : e \in Event /\ e[1] = c
  BY DEF Both, Event
<1>5. WatchOK(v)
  BY <1>1, <1>2, <1>3, <1>4 DEF IoOK, WatchOK, IsFree
<1>6. SlotsOK(v)
  BY <1>1 DEF IoOK, SlotsOK
<1>7. QED  BY <1>1, <1>5, <1>6 DEF OnlyWatch, SameConns, v

\* A call that leaves the connections where they are.
Calm(w, v) == IoOK(v) /\ SameConns(w, v) /\ KeysLater(w, v)
LEMMA WatchingIsCalm ==
  ASSUME NEW w, IoOK(w), NEW e \in Event, ~ IsFree(w, e[1])
  PROVE  /\ Calm(w, AddEvent(w, e)) /\ AddEvent(w, e).queue = w.queue
         /\ Calm(w, DelEvent(w, e)) /\ DelEvent(w, e).queue = w.queue
         /\ Calm(w, WriteHandler(w, e))
<1>1. Calm(w, w)
  BY DEF Calm, SameConns, KeysLater
<1>2. Calm(w, AddEvent(w, e)) /\ AddEvent(w, e).queue = w.queue
  <2> DEFINE v == AddEvent(w, e)
  <2>1. OnlyWatch(w, v) /\ SlotsOK(v) /\ WatchOK(v)
    <3>1. CASE backend = "select"
      <4>1. v = SelectAdd(w, e)
        BY <3>1 DEF AddEvent
      <4>2. QED  BY <3>1, <4>1, SelectAddKeeps
    <3>2. CASE backend # "select" /\ backend = "epoll"
      <4>1. v = EpollAdd(w, e)
        BY <3>2 DEF AddEvent
      <4>2. QED  BY <3>2, <4>1, EpollAddKeeps
    <3>3. QED  BY <3>1, <3>2 DEF IoOK
  <2> HIDE DEF v
  <2>2. QED  BY <2>1, OnlyWatchKeeps DEF Calm, v
<1>3. Calm(w, DelEvent(w, e)) /\ DelEvent(w, e).queue = w.queue
  <2> DEFINE v == DelEvent(w, e)
  <2>1. OnlyWatch(w, v) /\ SlotsOK(v) /\ WatchOK(v)
    <3>1. CASE backend = "select"
      <4>1. v = SelectDel(w, e)
        BY <3>1 DEF DelEvent
      <4>2. QED  BY <3>1, <4>1, SelectDelKeeps
    <3>2. CASE backend # "select" /\ backend = "epoll"
      <4>1. v = EpollDel(w, e)
        BY <3>2 DEF DelEvent
      <4>2. QED  BY <3>2, <4>1, EpollDelKeeps
    <3>3. QED  BY <3>1, <3>2 DEF IoOK
  <2> HIDE DEF v
  <2>2. QED  BY <2>1, OnlyWatchKeeps DEF Calm, v
<1>4. Calm(w, WriteHandler(w, e))
  BY <1>1, <1>2, <1>3 DEF WriteHandler
<1>5. QED  BY <1>2, <1>3, <1>4

\* Giving a connection back, when nothing of it is under way any more.
Quiet(w, c) ==
  /\ w.key[<<c, "read">>] = 0 /\ w.key[<<c, "write">>] = 0
  /\ backend = "epoll" =>
       /\ \A e \in w.active : e[1] # c
       /\ \A q \in Waiting : \A i \in 1 .. Len(w.queue[q]) : w.queue[q][i][1] # c
LEMMA GivenBackKeeps ==
  ASSUME NEW w, IoOK(w), NEW c \in Conn, w.fd[c] # 0, Quiet(w, c)
  PROVE  LET v == GivenBack(w, c) IN
         IoOK(v) /\ LostOf(v) = LostOf(w) /\ v.key = w.key /\ v.now = w.now /\ v.queue = w.queue
<1> DEFINE v == GivenBack(w, c)
<1>1. /\ DOMAIN v = IoFields /\ v.now = w.now /\ v.key = w.key
      /\ v.index = w.index /\ v.slots = w.slots /\ v.queue = w.queue /\ v.posted = w.posted
      /\ v.active = w.active
      /\ v.free = Append(w.free, c) /\ v.fd = [w.fd EXCEPT ![c] = 0]
      /\ v.open = w.open \ {w.fd[c]} /\ v.interest = Drop(w, w.fd[c])
  BY DEF GivenBack, IoOK, IoFields
<1> HIDE DEF v
<1>2. w.free \in Seq(Conn) /\ w.fd \in [Conn -> Nat] /\ Len(w.free) \in Nat
  BY DEF IoOK, FdsOK
<1>3. /\ v.free \in Seq(Conn) /\ Len(v.free) = Len(w.free) + 1 /\ v.free[Len(w.free) + 1] = c
      /\ \A i \in 1 .. Len(w.free) : v.free[i] = w.free[i]
  BY <1>1, <1>2
<1>4. \A d : IsFree(v, d) <=> IsFree(w, d) \/ d = c
  <2>1. ASSUME NEW d, IsFree(v, d)  PROVE IsFree(w, d) \/ d = c
    <3>1. PICK i \in 1 .. Len(v.free) : v.free[i] = d
      BY <2>1 DEF IsFree, InSeq
    <3>2. CASE i \in 1 .. Len(w.free)
      <4>1. w.free[i] = d
        BY <1>3, <3>1, <3>2
      <4>2. QED  BY <3>2, <4>1 DEF IsFree, InSeq
    <3>3. CASE i = Len(w.free) + 1
      BY <1>3, <3>1, <3>3
    <3>4. QED  BY <1>2, <1>3, <3>2, <3>3
  <2>2. ASSUME NEW d, IsFree(w, d)  PROVE IsFree(v, d)
    <3>1. PICK i \in 1 .. Len(w.free) : w.free[i] = d
      BY <2>2 DEF IsFree, InSeq
    <3>2. i \in 1 .. Len(v.free) /\ v.free[i] = d
      BY <1>2, <1>3, <3>1
    <3>3. QED  BY <3>2 DEF IsFree, InSeq
  <2>3. IsFree(v, c)
    <3>1. Len(w.free) + 1 \in 1 .. Len(v.free)
      BY <1>2, <1>3
    <3>2. QED  BY <1>3, <3>1 DEF IsFree, InSeq
  <2>4. QED  BY <2>1, <2>2, <2>3
<1>5. v.fd \in [Conn -> Nat] /\ v.fd[c] = 0 /\ \A d \in Conn \ {c} : v.fd[d] = w.fd[d]
  BY <1>1, <1>2
<1>6. ~ IsFree(w, c)
  BY DEF IoOK, FdsOK
<1>7. FdsOK(v)
  <2>1. ASSUME NEW i \in 1 .. Len(v.free), NEW j \in 1 .. Len(v.free), v.free[i] = v.free[j]
        PROVE  i = j
    <3>1. \A n \in 1 .. Len(w.free) : w.free[n] # c
      BY <1>6 DEF IsFree, InSeq
    <3>2. \A m, n \in 1 .. Len(w.free) : w.free[m] = w.free[n] => m = n
      BY DEF IoOK, FdsOK
    <3>3. CASE i \in 1 .. Len(w.free)
      <4>1. v.free[i] = w.free[i] /\ w.free[i] # c
        BY <1>3, <3>1, <3>3
      <4>2. j # Len(w.free) + 1
        BY <1>3, <2>1, <4>1
      <4>3. j \in 1 .. Len(w.free)
        BY <1>2, <1>3, <4>2
      <4>4. QED  BY <1>3, <2>1, <3>2, <3>3, <4>3
    <3>4. CASE i = Len(w.free) + 1
      <4>1. j \notin 1 .. Len(w.free)
        BY <1>3, <2>1, <3>1, <3>4
      <4>2. QED  BY <1>2, <1>3, <3>4, <4>1
    <3>5. QED  BY <1>2, <1>3, <3>3, <3>4
  <2>2. \A d \in Conn : IsFree(v, d) => v.fd[d] = 0
    BY <1>4, <1>5 DEF IoOK, FdsOK
  <2>3. \A d \in Conn : v.fd[d] # 0 => v.fd[d] \in v.open
    BY <1>1, <1>5 DEF IoOK, FdsOK
  <2>4. \A d, b \in Conn : d # b /\ v.fd[d] # 0 => v.fd[d] # v.fd[b]
    BY <1>5 DEF IoOK, FdsOK
  <2>5. QED  BY <1>3, <1>5, <2>1, <2>2, <2>3, <2>4 DEF FdsOK
<1>8. KeysOK(v)
  <2>1. \A e \in Event : e[1] = c => v.key[e] = 0
    BY <1>1, EventFacts DEF Quiet
  <2>2. QED  BY <1>1, <1>4, <2>1 DEF IoOK, KeysOK
<1>9. SlotsOK(v)
  BY <1>1 DEF IoOK, SlotsOK
<1>10. QueuesOK(v)
  BY <1>1, <1>4 DEF IoOK, QueuesOK, Quiet
<1>11. WatchOK(v)
  <2>1. ASSUME backend = "epoll", NEW r \in v.interest
        PROVE  r.conn \in Conn /\ r.fd = v.fd[r.conn] /\ r.fd # 0
    <3>1. r \in w.interest /\ r.fd # w.fd[c]
      BY <1>1, <2>1 DEF Drop
    <3>2. r.conn \in Conn /\ r.fd = w.fd[r.conn] /\ r.fd # 0
      BY <2>1, <3>1 DEF IoOK, WatchOK
    <3>3. QED  BY <1>5, <3>1, <3>2
  <2>2. QED  BY <1>1, <1>4, <2>1 DEF IoOK, WatchOK, Quiet
<1>12. LostOf(v) = LostOf(w)
  <2>1. \A d \in Conn : v.fd[d] = 0 /\ ~ IsFree(v, d) <=> w.fd[d] = 0 /\ ~ IsFree(w, d)
    BY <1>4, <1>5
  <2>2. QED  BY <2>1 DEF LostOf
<1>13. QED  BY <1>1, <1>7, <1>8, <1>9, <1>10, <1>11, <1>12 DEF IoOK, v

\* A connection is closed: nothing of it is under way, and no other is touched.
LEMMA CloseKeeps ==
  ASSUME NEW w, IoOK(w), NEW c \in Conn
  PROVE  LET v == Close(w, c) IN
         /\ IoOK(v) /\ LostOf(v) = LostOf(w) /\ KeysLater(w, v)
         /\ w.queue["now"] = <<>> => v.queue["now"] = <<>>
<1>1. CASE w.fd[c] = 0
  <2>1. Close(w, c) = w
    BY <1>1 DEF Close
  <2>2. QED  BY <2>1 DEF KeysLater
<1>2. CASE w.fd[c] # 0
  <2> DEFINE r == <<c, "read">>  t == <<c, "write">>
             w0 == DelTimer(w, r)  w1 == DelTimer(w0, t)  w2 == DelConnOnClose(w1, c)
             w3 == Unpost(w2, r)  w4 == Unpost(w3, t)  v == GivenBack(w4, c)
  <2>1. Close(w, c) = v
    BY <1>2 DEF Close, Silenced, Untimed
  <2>2. r \in Event /\ t \in Event /\ r # t
    BY EventFacts
  <2> HIDE DEF r, t, v, w4, w3, w2, w1, w0
  <2>3. /\ IoOK(w0) /\ SameConns(w, w0) /\ KeysLater(w, w0) /\ w0.queue = w.queue /\ w0.key[r] = 0
    BY <2>2, DelTimerKeeps DEF w0
  <2>4. /\ IoOK(w1) /\ SameConns(w0, w1) /\ KeysLater(w0, w1) /\ w1.queue = w0.queue
        /\ w1.key[r] = 0 /\ w1.key[t] = 0
    BY <2>2, <2>3, DelTimerKeeps DEF w1
  <2>5. w1.fd[c] # 0
    BY <1>2, <2>3, <2>4 DEF SameConns
  <2>6. /\ OnlyWatch(w1, w2) /\ SlotsOK(w2) /\ WatchOK(w2)
        /\ backend = "epoll" => \A e \in w2.active : e[1] # c
    <3>1. CASE backend = "select"
      <4>1. w2 = SelectAdd(w1, r)
        BY <3>1 DEF w2, DelConnOnClose, SelectConn, r
      <4>2. QED  BY <2>2, <2>4, <3>1, <4>1, SelectAddKeeps
    <3>2. CASE backend # "select"
      <4>1. w2 = [w1 EXCEPT !.active = w1.active \ Both(c)]
        BY <3>2 DEF w2, DelConnOnClose
      <4>2. /\ DOMAIN w2 = DOMAIN w1 /\ w2.fd = w1.fd /\ w2.free = w1.free /\ w2.open = w1.open
            /\ w2.now = w1.now /\ w2.key = w1.key /\ w2.queue = w1.queue /\ w2.posted = w1.posted
            /\ w2.slots = w1.slots /\ w2.index = w1.index /\ w2.interest = w1.interest
            /\ w2.active = w1.active \ Both(c)
        BY <2>4, <4>1 DEF IoOK, IoFields
      <4>3. OnlyWatch(w1, w2) /\ SlotsOK(w2) /\ WatchOK(w2)
        BY <2>4, <4>2 DEF OnlyWatch, SameConns, IoOK, SlotsOK, WatchOK, IsFree
      <4>4. \A e \in w2.active : e[1] # c
        BY <2>4, <4>2, EventFacts DEF IoOK, WatchOK
      <4>5. QED  BY <4>3, <4>4
    <3>3. QED  BY <3>1, <3>2
  <2>7. /\ IoOK(w2) /\ SameConns(w1, w2) /\ KeysLater(w1, w2) /\ w2.queue = w1.queue
        /\ w2.key = w1.key
    BY <2>4, <2>6, OnlyWatchKeeps
  <2>8. /\ IoOK(w3) /\ SameConns(w2, w3) /\ w3.key = w2.key /\ w3.now = w2.now /\ w3.active = w2.active
        /\ w2.queue["now"] = <<>> => w3.queue["now"] = <<>>
        /\ backend = "epoll" => \A q \in Waiting : r \notin InSeq(w3.queue[q])
    BY <2>2, <2>7, UnpostKeeps DEF w3, KeysLater
  <2>9. /\ IoOK(w4) /\ SameConns(w3, w4) /\ w4.key = w3.key /\ w4.now = w3.now /\ w4.active = w3.active
        /\ w3.queue["now"] = <<>> => w4.queue["now"] = <<>>
        /\ \A q \in Waiting : InSeq(w4.queue[q]) \subseteq InSeq(w3.queue[q])
        /\ backend = "epoll" => \A q \in Waiting : t \notin InSeq(w4.queue[q])
    <3>1. /\ IoOK(w4) /\ SameConns(w3, w4) /\ KeysLater(w3, w4) /\ w4.key = w3.key /\ w4.active = w3.active
          /\ w3.queue["now"] = <<>> => w4.queue["now"] = <<>>
          /\ \A q \in Waiting : InSeq(w4.queue[q]) \subseteq InSeq(w3.queue[q])
          /\ backend = "epoll" => \A q \in Waiting : t \notin InSeq(w4.queue[q])
      BY <2>2, <2>8, UnpostKeeps DEF w4
    <3>2. QED  BY <3>1 DEF KeysLater
  <2>10. w4.fd = w.fd /\ w4.free = w.free
    BY <2>3, <2>4, <2>7, <2>8, <2>9 DEF SameConns
  <2>11. Quiet(w4, c)
    <3>1. w4.key[<<c, "read">>] = 0 /\ w4.key[<<c, "write">>] = 0
      BY <2>4, <2>7, <2>8, <2>9 DEF r, t
    <3>2. ASSUME backend = "epoll", NEW q \in Waiting, NEW i \in 1 .. Len(w4.queue[q])
          PROVE  w4.queue[q][i][1] # c
      <4>1. w4.queue[q][i] \in Event
        BY <2>9 DEF IoOK, QueuesOK
      <4>2. w4.queue[q][i] # r /\ w4.queue[q][i] # t
        BY <2>8, <2>9, <3>2 DEF InSeq
      <4>3. QED  BY <4>1, <4>2, EventFacts DEF r, t
    <3>3. QED  BY <2>6, <2>8, <2>9, <3>1, <3>2 DEF Quiet
  <2>12. /\ IoOK(v) /\ LostOf(v) = LostOf(w4) /\ v.key = w4.key /\ v.now = w4.now
         /\ v.queue = w4.queue
    BY <1>2, <2>9, <2>10, <2>11, GivenBackKeeps DEF v
  <2>13. LostOf(w4) = LostOf(w)
    BY <2>10, Frames
  <2>14. KeysLater(w, v)
    BY <2>3, <2>4, <2>7, <2>8, <2>9, <2>12 DEF KeysLater
  <2>15. w.queue["now"] = <<>> => v.queue["now"] = <<>>
    BY <2>3, <2>4, <2>7, <2>8, <2>9, <2>12
  <2>16. QED  BY <2>1, <2>12, <2>13, <2>14, <2>15
<1>3. QED  BY <1>1, <1>2

\* Taking the first free connection, with a descriptor nobody has, or with none.
LEMMA GetKeeps ==
  ASSUME NEW w, IoOK(w), w.free # <<>>, NEW fd \in Nat,
         fd # 0 => fd \in w.open /\ \A d \in Conn : w.fd[d] # fd
  PROVE  LET v == Get(w, fd)  c == Head(w.free) IN
         /\ IoOK(v) /\ KeysLater(w, v) /\ v.open = w.open
         /\ c \in Conn /\ v.fd[c] = fd /\ ~ IsFree(v, c)
         /\ LostOf(v) = IF fd = 0 THEN LostOf(w) \cup {c} ELSE LostOf(w)
<1> DEFINE v == Get(w, fd)
           c == Head(w.free)
<1>1. /\ DOMAIN v = IoFields /\ v.now = w.now /\ v.open = w.open
      /\ v.slots = w.slots /\ v.queue = w.queue /\ v.interest = w.interest
      /\ v.free = Tail(w.free) /\ v.fd = [w.fd EXCEPT ![c] = fd]
      /\ v.index = [e \in Event |-> IF e \in Both(c) THEN 0 ELSE w.index[e]]
      /\ v.key = [e \in Event |-> IF e \in Both(c) THEN 0 ELSE w.key[e]]
      /\ v.active = w.active \ Both(c) /\ v.posted = w.posted \ Both(c)
  BY DEF Get, IoOK, IoFields
<1> HIDE DEF v
<1>2. w.free \in Seq(Conn) /\ w.fd \in [Conn -> Nat] /\ Len(w.free) \in Nat \ {0}
  BY DEF IoOK, FdsOK
<1>3. /\ c = w.free[1] /\ c \in Conn /\ v.free \in Seq(Conn) /\ Len(v.free) = Len(w.free) - 1
      /\ \A i \in 1 .. Len(w.free) - 1 : v.free[i] = w.free[i + 1]
  BY <1>1, <1>2
<1> HIDE DEF c
<1>4. \A i, j \in 1 .. Len(w.free) : w.free[i] = w.free[j] => i = j
  BY DEF IoOK, FdsOK
<1>5. \A d : IsFree(v, d) <=> IsFree(w, d) /\ d # c
  <2>1. ASSUME NEW d, IsFree(v, d)  PROVE IsFree(w, d) /\ d # c
    <3>1. PICK i \in 1 .. Len(v.free) : v.free[i] = d
      BY <2>1 DEF IsFree, InSeq
    <3>2. i + 1 \in 1 .. Len(w.free) /\ i + 1 # 1 /\ w.free[i + 1] = d /\ 1 \in 1 .. Len(w.free)
      <4>1. Len(w.free) \in Nat /\ i \in 1 .. Len(w.free) - 1
        BY <1>2, <1>3
      <4>2. i + 1 \in 1 .. Len(w.free) /\ i + 1 # 1 /\ 1 \in 1 .. Len(w.free)
        BY <4>1
      <4>3. w.free[i + 1] = d
        BY <1>3, <3>1, <4>1
      <4>4. QED  BY <4>2, <4>3
    <3>3. d # c
      BY <1>3, <1>4, <3>2
    <3>4. QED  BY <3>2, <3>3 DEF IsFree, InSeq
  <2>2. ASSUME NEW d, IsFree(w, d), d # c  PROVE IsFree(v, d)
    <3>1. PICK i \in 1 .. Len(w.free) : w.free[i] = d
      BY <2>2 DEF IsFree, InSeq
    <3>2. i # 1
      BY <1>3, <2>2, <3>1
    <3>3. i - 1 \in 1 .. Len(v.free) /\ v.free[i - 1] = d
      BY <1>2, <1>3, <3>1, <3>2
    <3>4. QED  BY <3>3 DEF IsFree, InSeq
  <2>3. QED  BY <2>1, <2>2
<1>6. IsFree(w, c) /\ ~ IsFree(v, c)
  <2>1. 1 \in 1 .. Len(w.free)
    BY <1>2
  <2>2. QED  BY <1>3, <1>5, <2>1 DEF IsFree, InSeq
<1>7. w.fd[c] = 0
  BY <1>3, <1>6 DEF IoOK, FdsOK
<1>8. v.fd \in [Conn -> Nat] /\ v.fd[c] = fd /\ \A d \in Conn \ {c} : v.fd[d] = w.fd[d]
  BY <1>1, <1>2, <1>3
<1>9. \A e \in Event : e \in Both(c) <=> e[1] = c
  BY <1>3, EventFacts
<1>10. FdsOK(v)
  <2>1. \A i, j \in 1 .. Len(v.free) : v.free[i] = v.free[j] => i = j
    <3>1. SUFFICES ASSUME NEW i \in 1 .. Len(v.free), NEW j \in 1 .. Len(v.free), v.free[i] = v.free[j]
                   PROVE  i = j
      OBVIOUS
    <3>2. i + 1 \in 1 .. Len(w.free) /\ j + 1 \in 1 .. Len(w.free) /\ w.free[i + 1] = w.free[j + 1]
      BY <1>2, <1>3, <3>1
    <3>3. i + 1 = j + 1
      BY <1>4, <3>2
    <3>4. QED  BY <1>2, <1>3, <3>3
  <2>2. \A d \in Conn : IsFree(v, d) => v.fd[d] = 0
    BY <1>5, <1>8 DEF IoOK, FdsOK
  <2>3. \A d \in Conn : v.fd[d] # 0 => v.fd[d] \in v.open
    BY <1>1, <1>8 DEF IoOK, FdsOK
  <2>4. \A d, b \in Conn : d # b /\ v.fd[d] # 0 => v.fd[d] # v.fd[b]
    <3>1. SUFFICES ASSUME NEW d \in Conn, NEW b \in Conn, d # b, v.fd[d] # 0
                   PROVE  v.fd[d] # v.fd[b]
      OBVIOUS
    <3>2. CASE d = c
      <4>1. v.fd[d] = fd /\ v.fd[b] = w.fd[b] /\ fd # 0
        BY <1>8, <3>1, <3>2
      <4>2. QED  BY <4>1
    <3>3. CASE b = c
      <4>1. v.fd[b] = fd /\ v.fd[d] = w.fd[d]
        BY <1>8, <3>1, <3>3
      <4>2. QED  BY <3>1, <4>1
    <3>4. CASE d # c /\ b # c
      <4>1. v.fd[d] = w.fd[d] /\ v.fd[b] = w.fd[b]
        BY <1>8, <3>4
      <4>2. QED  BY <3>1, <4>1 DEF IoOK, FdsOK
    <3>5. QED  BY <3>2, <3>3, <3>4
  <2>5. QED  BY <1>3, <1>8, <2>1, <2>2, <2>3, <2>4 DEF FdsOK
<1>11. KeysOK(v)
  BY <1>1, <1>5 DEF IoOK, KeysOK
<1>12. SlotsOK(v)
  <2>1. v.index \in [Event -> Nat] /\ \A e \in Event : v.index[e] # 0 => v.index[e] = w.index[e]
    BY <1>1 DEF IoOK, SlotsOK
  <2>2. QED  BY <1>1, <2>1 DEF IoOK, SlotsOK
<1>13. QueuesOK(v)
  <2>1. ASSUME backend = "epoll", NEW q \in Waiting, NEW i \in 1 .. Len(w.queue[q])
        PROVE  w.queue[q][i] \in v.posted /\ ~ IsFree(v, w.queue[q][i][1])
    <3>1. /\ w.queue[q][i] \in w.posted /\ ~ IsFree(w, w.queue[q][i][1])
          /\ w.queue[q][i] \in Event
      BY <2>1 DEF IoOK, QueuesOK
    <3>2. w.queue[q][i] \notin Both(c)
      BY <1>6, <1>9, <3>1
    <3>3. QED  BY <1>1, <1>5, <3>1, <3>2
  <2>2. \A q \in Waiting : w.queue[q] \in Seq(Event)
    BY DEF IoOK, QueuesOK
  <2>3. QED  BY <1>1, <2>1 DEF IoOK, QueuesOK
<1>14. WatchOK(v)
  <2>1. ASSUME backend = "epoll", NEW r \in w.interest
        PROVE  r.conn \in Conn /\ r.fd = v.fd[r.conn] /\ r.fd # 0
    <3>1. r.conn \in Conn /\ r.fd = w.fd[r.conn] /\ r.fd # 0
      BY <2>1 DEF IoOK, WatchOK
    <3>2. QED  BY <1>7, <1>8, <3>1
  <2>2. QED  BY <1>1, <1>5, <2>1 DEF IoOK, WatchOK
<1>15. KeysLater(w, v)
  BY <1>1 DEF KeysLater
<1>16. LostOf(v) = IF fd = 0 THEN LostOf(w) \cup {c} ELSE LostOf(w)
  <2>1. ASSUME NEW d \in Conn
        PROVE  d \in LostOf(v) <=> d \in LostOf(w) \/ (d = c /\ fd = 0)
    <3>1. CASE d = c
      BY <1>6, <1>8, <3>1 DEF LostOf
    <3>2. CASE d # c
      BY <1>5, <1>8, <3>2 DEF LostOf
    <3>3. QED  BY <3>1, <3>2
  <2>2. LostOf(v) \subseteq Conn /\ LostOf(w) \subseteq Conn
    BY DEF LostOf
  <2>3. QED  BY <1>3, <2>1, <2>2
<1>17. IoOK(v)
  BY <1>1, <1>10, <1>11, <1>12, <1>13, <1>14 DEF IoOK
<1>18. QED  BY <1>1, <1>3, <1>6, <1>8, <1>15, <1>16, <1>17 DEF v, c

\* What a handler does, and the connection event_accept hands it.
LEMMA HandlerKeeps ==
  ASSUME NEW w, IoOK(w), NEW v \in HandlerDoes(w)
  PROVE  IoOK(v) /\ LostOf(v) = LostOf(w) /\ KeysLater(w, v)
<1>1. ASSUME Calm(w, v)  PROVE IoOK(v) /\ LostOf(v) = LostOf(w) /\ KeysLater(w, v)
  BY <1>1, Frames DEF Calm, SameConns
<1>2. \A c \in Open(w) : /\ c \in Conn /\ ~ IsFree(w, c)
                         /\ <<c, "read">> \in Event /\ <<c, "write">> \in Event
  BY EventFacts DEF Open, IoOK, FdsOK
<1>3. \/ v = w \/ \E c \in Conn \ {1} : v = Close(w, c)
      \/ \E c \in Open(w) : v \in HandlesOne(w, c)
  BY DEF HandlerDoes
<1>4. CASE v = w
  BY <1>4 DEF KeysLater
<1>5. ASSUME NEW c \in Conn \ {1}, v = Close(w, c)
      PROVE  IoOK(v) /\ LostOf(v) = LostOf(w) /\ KeysLater(w, v)
  BY <1>5, CloseKeeps
<1>6. ASSUME NEW c \in Open(w), v \in HandlesOne(w, c)
      PROVE  Calm(w, v)
  <2> DEFINE r == <<c, "read">>  t == <<c, "write">>
  <2>1. /\ r \in Event /\ ~ IsFree(w, r[1]) /\ t \in Event /\ ~ IsFree(w, t[1])
        /\ "next" \in Waiting /\ Delays \subseteq Nat
    BY <1>2, LoopAssumption DEF Waiting
  <2>2. \/ \E d \in Delays : v = AddTimer(w, r, d)
        \/ v = DelTimer(w, r) \/ v = Post(w, r, "next") \/ v = WriteHandler(w, t) \/ v = PartSent(w, t)
    BY <1>6 DEF HandlesOne
  <2> HIDE DEF r, t
  <2>3. ASSUME NEW d \in Delays, v = AddTimer(w, r, d)  PROVE Calm(w, v)
    BY <2>1, <2>3, AddTimerKeeps DEF Calm
  <2>4. CASE v = DelTimer(w, r)
    BY <2>1, <2>4, DelTimerKeeps DEF Calm
  <2>5. CASE v = Post(w, r, "next")
    BY <2>1, <2>5, PostKeeps DEF Calm
  <2>6. CASE v = WriteHandler(w, t)
    BY <2>1, <2>6, WatchingIsCalm
  <2>7. CASE v = PartSent(w, t)
    <3>1. /\ DOMAIN v = IoFields /\ v.fd = w.fd /\ v.free = w.free /\ v.open = w.open /\ v.now = w.now
          /\ v.index = w.index /\ v.slots = w.slots /\ v.queue = w.queue /\ v.posted = w.posted
          /\ v.active = w.active /\ v.interest = w.interest /\ v.key = w.key
      BY <2>7 DEF IoOK, IoFields, PartSent
    <3>2. IoOK(v)
      BY <3>1, Frames DEF IoOK
    <3>3. QED  BY <3>1, <3>2 DEF Calm, SameConns, KeysLater
  <2>8. QED  BY <2>2, <2>3, <2>4, <2>5, <2>6, <2>7
<1>7. QED  BY <1>1, <1>3, <1>4, <1>5, <1>6

LEMMA AcceptedKeeps ==
  ASSUME NEW w, IoOK(w), w.free # <<>>, NEW fd \in Fds \ w.open
  PROVE  LET o == [w EXCEPT !.open = @ \cup {fd}]  v == Accepted(w, fd) IN
         /\ IoOK(o) /\ LostOf(o) = LostOf(w) /\ KeysLater(w, o) /\ o.free = w.free
         /\ fd \in Nat /\ fd # 0 /\ fd \in o.open /\ \A d \in Conn : o.fd[d] # fd
         /\ IoOK(v) /\ LostOf(v) = LostOf(w) /\ KeysLater(w, v)
<1> DEFINE o == [w EXCEPT !.open = w.open \cup {fd}]
           c == Head(o.free)
           g == Get(o, fd)
           u == [g EXCEPT !.write = g.write \cup {<<c, "read">>}, !.ready = g.ready \cup {<<c, "write">>}]
           v == Accepted(w, fd)
<1>1. /\ DOMAIN o = IoFields /\ o.fd = w.fd /\ o.free = w.free /\ o.now = w.now
      /\ o.index = w.index /\ o.slots = w.slots /\ o.queue = w.queue /\ o.posted = w.posted
      /\ o.active = w.active /\ o.interest = w.interest /\ o.key = w.key
      /\ o.open = w.open \cup {fd}
  BY DEF IoOK, IoFields
<1>2. v = IF backend = "select" THEN SelectConn(u, c) ELSE EpollAddConn(u, c)
  BY <1>1 DEF Accepted
<1> HIDE DEF o
<1>3. fd \in Nat /\ fd # 0 /\ fd \in o.open /\ \A d \in Conn : o.fd[d] # fd
  BY <1>1, LoopAssumption DEF IoOK, FdsOK
<1>4. IoOK(o) /\ LostOf(o) = LostOf(w) /\ KeysLater(w, o)
  <2>1. FdsOK(o)
    BY <1>1 DEF IoOK, FdsOK, IsFree
  <2>2. KeysOK(o) /\ SlotsOK(o) /\ QueuesOK(o) /\ WatchOK(o) /\ LostOf(o) = LostOf(w)
    BY <1>1, Frames DEF IoOK
  <2>3. QED  BY <1>1, <2>1, <2>2 DEF IoOK, KeysLater
<1>5. /\ IoOK(g) /\ KeysLater(o, g) /\ c \in Conn /\ g.fd[c] = fd /\ ~ IsFree(g, c)
      /\ LostOf(g) = LostOf(o)
  BY <1>1, <1>3, <1>4, GetKeeps
<1> HIDE DEF c, g
<1>6. /\ DOMAIN u = IoFields /\ u.fd = g.fd /\ u.free = g.free /\ u.now = g.now /\ u.open = g.open
      /\ u.index = g.index /\ u.slots = g.slots /\ u.queue = g.queue /\ u.posted = g.posted
      /\ u.active = g.active /\ u.interest = g.interest /\ u.key = g.key
  BY <1>5 DEF IoOK, IoFields
<1> HIDE DEF u
<1>7. IoOK(u) /\ LostOf(u) = LostOf(g) /\ KeysLater(g, u)
  BY <1>5, <1>6, Frames DEF IoOK, KeysLater
<1>8. OnlyWatch(u, v) /\ SlotsOK(v) /\ WatchOK(v)
  <2>1. CASE backend = "select"
    <3>1. v = SelectAdd(u, <<c, "read">>) /\ <<c, "read">> \in Event
      BY <1>2, <1>5, <2>1, EventFacts DEF SelectConn
    <3>2. QED  BY <1>7, <2>1, <3>1, SelectAddKeeps
  <2>2. CASE backend # "select"
    <3>1. v = EpollAddConn(u, c) /\ backend = "epoll" /\ u.fd[c] # 0
      BY <1>2, <1>3, <1>5, <1>6, <2>2 DEF IoOK
    <3>2. QED  BY <1>5, <1>7, <3>1, EpollAddConnKeeps
  <2>3. QED  BY <2>1, <2>2
<1> HIDE DEF v
<1>9. IoOK(v) /\ SameConns(u, v) /\ KeysLater(u, v)
  BY <1>7, <1>8, OnlyWatchKeeps
<1>10. LostOf(v) = LostOf(u)
  BY <1>9, Frames DEF SameConns
<1>11. KeysLater(w, v)
  BY <1>4, <1>5, <1>7, <1>9 DEF KeysLater
<1>12. IoOK(v) /\ LostOf(v) = LostOf(w) /\ KeysLater(w, v)
  BY <1>4, <1>5, <1>7, <1>9, <1>10, <1>11
<1>13. QED  BY <1>1, <1>3, <1>4, <1>12 DEF o, v

\* With select and before a connection was closed, each bit has its slot: the
\* slots are those of connections that have a descriptor, each event once, and
\* the bit looked at for it is the one that was set.
BitsMatch(w) ==
  /\ \A c \in Conn : w.fd[c] # 0 => <<c, "write">> \in w.write
  /\ \A i \in 1 .. Len(w.slots) :
       /\ w.fd[w.slots[i][1]] # 0 /\ w.index[w.slots[i]] = i
       /\ w.slots[i] \in w.write <=> w.slots[i][2] = "write"
  /\ \A m \in w.master : \E i \in 1 .. Len(w.slots) : m = <<w.fd[w.slots[i][1]], w.slots[i][2]>>
Matched(w) == w.shut \in BOOLEAN /\ (backend = "select" /\ ~ w.shut => BitsMatch(w))

\* What most calls do to that: nothing; and all of them leave the clock alone.
SameSlots(w, v) ==
  /\ v.fd = w.fd /\ v.write = w.write /\ v.slots = w.slots /\ v.index = w.index
  /\ v.master = w.master /\ v.shut = w.shut /\ v.late = w.late
Steady(w, v) == Matched(v) /\ v.late = w.late /\ (w.shut => v.shut)
LEMMA SameSlotsSteady ==
  ASSUME NEW w, NEW v, Matched(w), SameSlots(w, v)
  PROVE  Steady(w, v)
BY DEF Matched, BitsMatch, SameSlots, Steady
LEMMA SteadyOn ==
  ASSUME NEW w, NEW u, NEW v, Steady(w, u), Steady(u, v)
  PROVE  Steady(w, v)
BY DEF Steady
LEMMA ShutSteady ==
  ASSUME NEW w, NEW v, v.shut = TRUE, v.late = w.late
  PROVE  Steady(w, v)
BY DEF Steady, Matched

LEMMA CallsKeepSlots ==
  ASSUME NEW w, IoOK(w), NEW e
  PROVE  /\ SameSlots(w, DelTimer(w, e)) /\ SameSlots(w, Unpost(w, e)) /\ SameSlots(w, PartSent(w, e))
         /\ \A delay : SameSlots(w, AddTimer(w, e, delay))
         /\ \A q : SameSlots(w, Post(w, e, q))
         /\ SameSlots(w, EpollAdd(w, e)) /\ SameSlots(w, EpollDel(w, e))
         /\ \A c : SameSlots(w, EpollAddConn(w, c))
<1>1. SameSlots(w, DelTimer(w, e))
  BY DEF SameSlots, DelTimer, IoOK, IoFields
<1>2. SameSlots(w, Unpost(w, e))
  BY DEF SameSlots, Unpost, IoOK, IoFields
<1>3. SameSlots(w, PartSent(w, e))
  BY DEF SameSlots, PartSent, IoOK, IoFields
<1>4. ASSUME NEW delay  PROVE SameSlots(w, AddTimer(w, e, delay))
  BY DEF SameSlots, AddTimer, IoOK, IoFields
<1>5. ASSUME NEW q  PROVE SameSlots(w, Post(w, e, q))
  BY DEF SameSlots, Post, IoOK, IoFields
<1>6. SameSlots(w, EpollAdd(w, e))
  BY DEF SameSlots, EpollAdd, IoOK, IoFields
<1>7. SameSlots(w, EpollDel(w, e))
  BY DEF SameSlots, EpollDel, IoOK, IoFields
<1>8. ASSUME NEW c  PROVE SameSlots(w, EpollAddConn(w, c))
  BY DEF SameSlots, EpollAddConn, IoOK, IoFields
<1>9. QED  BY <1>1, <1>2, <1>3, <1>4, <1>5, <1>6, <1>7, <1>8

\* select registers an event of a connection that has a descriptor, and takes
\* one out.
LEMMA SelectAddSteady ==
  ASSUME NEW w, IoOK(w), Matched(w), backend = "select", NEW e \in Event, w.fd[e[1]] # 0
  PROVE  Steady(w, SelectAdd(w, e))
<1> DEFINE v == SelectAdd(w, e)
<1>1. CASE v = w
  BY <1>1 DEF Steady
<1>2. CASE v # w
  <2>1. /\ v.fd = w.fd /\ v.write = w.write /\ v.shut = w.shut /\ v.late = w.late
        /\ v.master = w.master \cup {<<w.fd[e[1]], e[2]>>} /\ v.slots = Append(w.slots, e)
        /\ v.index = [w.index EXCEPT ![e] = Len(w.slots) + 1]
        /\ w.index[e] = 0 /\ ~ (e[2] = "read" /\ e \in w.write)
    BY <1>2 DEF SelectAdd, FdOf, IoOK, IoFields
  <2> HIDE DEF v
  <2>2. w.slots \in Seq(Event) /\ w.index \in [Event -> Nat] /\ Len(w.slots) \in Nat
    BY DEF IoOK, SlotsOK
  <2>3. Len(v.slots) = Len(w.slots) + 1 /\ v.slots[Len(w.slots) + 1] = e
        /\ \A i \in 1 .. Len(w.slots) : v.slots[i] = w.slots[i] /\ w.slots[i] \in Event
    BY <2>1, <2>2
  <2>4. ASSUME ~ w.shut  PROVE BitsMatch(v)
    <3>1. BitsMatch(w)
      BY <2>4 DEF Matched
    <3>2. ASSUME NEW i \in 1 .. Len(v.slots)
          PROVE  /\ v.fd[v.slots[i][1]] # 0 /\ v.index[v.slots[i]] = i
                 /\ v.slots[i] \in v.write <=> v.slots[i][2] = "write"
      <4>1. CASE i \in 1 .. Len(w.slots)
        <5>1. v.slots[i] = w.slots[i] /\ w.index[w.slots[i]] = i /\ w.fd[w.slots[i][1]] # 0
              /\ (w.slots[i] \in w.write <=> w.slots[i][2] = "write") /\ w.slots[i] \in Event
          BY <2>3, <3>1, <4>1 DEF BitsMatch
        <5>2. w.slots[i] # e
          BY <2>1, <4>1, <5>1
        <5>3. v.index[w.slots[i]] = w.index[w.slots[i]]
          BY <2>1, <2>2, <5>1, <5>2
        <5>4. QED  BY <2>1, <5>1, <5>3
      <4>2. CASE i = Len(w.slots) + 1
        <5>1. v.slots[i] = e /\ v.index[e] = i
          BY <2>1, <2>2, <2>3, <4>2
        <5>2. e \in w.write <=> e[2] = "write"
          <6>1. CASE e[2] = "read"
            BY <2>1, <6>1
          <6>2. CASE e[2] = "write"
            <7>1. e = <<e[1], "write">> /\ e[1] \in Conn
              BY <6>2, EventFacts
            <7>2. QED  BY <3>1, <6>2, <7>1 DEF BitsMatch
          <6>3. QED  BY <6>1, <6>2, EventFacts
        <5>3. QED  BY <2>1, <5>1, <5>2
      <4>3. QED  BY <2>2, <2>3, <4>1, <4>2
    <3>3. ASSUME NEW m \in v.master
          PROVE  \E i \in 1 .. Len(v.slots) : m = <<v.fd[v.slots[i][1]], v.slots[i][2]>>
      <4>1. CASE m \in w.master
        <5>1. PICK i \in 1 .. Len(w.slots) : m = <<w.fd[w.slots[i][1]], w.slots[i][2]>>
          BY <3>1, <4>1 DEF BitsMatch
        <5>2. i \in 1 .. Len(v.slots) /\ v.slots[i] = w.slots[i]
          BY <2>2, <2>3
        <5>3. QED  BY <2>1, <5>1, <5>2
      <4>2. CASE m = <<w.fd[e[1]], e[2]>>
        <5>1. Len(w.slots) + 1 \in 1 .. Len(v.slots)
          BY <2>2, <2>3
        <5>2. QED  BY <2>1, <2>3, <4>2, <5>1
      <4>3. QED  BY <2>1, <4>1, <4>2
    <3>4. QED  BY <2>1, <3>1, <3>2, <3>3 DEF BitsMatch
  <2>5. QED  BY <2>1, <2>4 DEF Steady, Matched, v
<1>3. QED  BY <1>1, <1>2

LEMMA SelectDelSteady ==
  ASSUME NEW w, IoOK(w), Matched(w), backend = "select", NEW e \in Event
  PROVE  Steady(w, SelectDel(w, e))
<1> DEFINE v == SelectDel(w, e)
           n == Len(w.slots)
           last == w.slots[n]
           cut == SubSeq(w.slots, 1, n - 1)
           i == w.index[e]
<1>1. CASE i = 0
  <2>1. v = [w EXCEPT !.active = @ \ {e}]
    BY <1>1 DEF SelectDel
  <2>2. SameSlots(w, v)
    BY <2>1 DEF SameSlots, IoOK, IoFields
  <2>3. QED  BY <2>2, SameSlotsSteady
<1>2. CASE i # 0
  <2>1. /\ v.fd = w.fd /\ v.write = w.write /\ v.shut = w.shut /\ v.late = w.late
        /\ v.master = w.master \ {<<w.fd[e[1]], e[2]>>}
        /\ v.slots = IF i <= Len(cut) THEN [cut EXCEPT ![i] = last] ELSE cut
        /\ v.index = [x \in Event |-> IF x = e THEN 0
                                      ELSE IF x = last /\ i <= Len(cut) THEN i ELSE w.index[x]]
    BY <1>2 DEF SelectDel, FdOf, IoOK, IoFields
  <2> HIDE DEF v
  <2>2. /\ w.slots \in Seq(Event) /\ w.index \in [Event -> Nat] /\ n \in Nat
        /\ i \in 1 .. n /\ w.slots[i] = e
    BY <1>2 DEF IoOK, SlotsOK
  <2>3. /\ last \in Event /\ Len(cut) = n - 1 /\ cut \in Seq(Event)
        /\ \A k \in 1 .. n - 1 : cut[k] = w.slots[k] /\ cut[k] \in Event
    BY <2>2
  <2> HIDE DEF cut
  \* Slot k is the one that was at k, or the last one, moved into the free place.
  <2>4. /\ Len(v.slots) = n - 1
        /\ \A k \in 1 .. n - 1 : v.slots[k] = IF k = i THEN last ELSE w.slots[k]
    <3>1. CASE i <= Len(cut)
      <4>1. v.slots = [cut EXCEPT ![i] = last]
        BY <2>1, <3>1
      <4>2. Len(v.slots) = n - 1
        BY <4>1, <2>3
      <4>3. \A k \in 1 .. n - 1 : v.slots[k] = IF k = i THEN last ELSE cut[k]
        BY <4>1, <2>3
      <4>4. QED  BY <4>2, <4>3, <2>3
    <3>2. CASE ~ (i <= Len(cut))
      <4>1. v.slots = cut /\ i = n
        BY <2>1, <3>2, <2>2, <2>3
      <4>2. QED  BY <4>1, <2>2, <2>3
    <3>3. QED  BY <3>1, <3>2
  <2>5. ASSUME ~ w.shut  PROVE BitsMatch(v)
    <3>1. BitsMatch(w)
      BY <2>5 DEF Matched
    <3>2. w.index[last] = n /\ \A k \in 1 .. n : w.index[w.slots[k]] = k
      BY <2>2, <3>1 DEF BitsMatch
    <3>3. ASSUME NEW k \in 1 .. Len(v.slots)
          PROVE  /\ v.fd[v.slots[k][1]] # 0 /\ v.index[v.slots[k]] = k
                 /\ v.slots[k] \in v.write <=> v.slots[k][2] = "write"
      <4>0. k \in 1 .. n - 1 /\ k \in 1 .. n /\ n \in 1 .. n
        BY <2>2, <2>4
      <4>1. CASE k = i
        <5>1. v.slots[k] = last /\ i <= Len(cut)
          BY <2>3, <2>4, <4>0, <4>1
        <5>2. last # e
          BY <2>2, <3>2, <4>0, <4>1
        <5>3. v.index[last] = i
          BY <2>1, <2>3, <5>1, <5>2
        <5>4. w.fd[last[1]] # 0 /\ (last \in w.write <=> last[2] = "write")
          BY <3>1, <4>0 DEF BitsMatch
        <5>5. QED  BY <2>1, <4>1, <5>1, <5>3, <5>4
      <4>2. CASE k # i
        <5>1. v.slots[k] = w.slots[k] /\ w.slots[k] \in Event
          BY <2>3, <2>4, <4>0, <4>2
        <5>2. w.slots[k] # e /\ w.slots[k] # last
          BY <2>2, <3>2, <4>0, <4>2
        <5>3. v.index[w.slots[k]] = k
          BY <2>1, <3>2, <4>0, <5>1, <5>2
        <5>4. w.fd[w.slots[k][1]] # 0 /\ (w.slots[k] \in w.write <=> w.slots[k][2] = "write")
          BY <3>1, <4>0 DEF BitsMatch
        <5>5. QED  BY <2>1, <5>1, <5>3, <5>4
      <4>3. QED  BY <4>1, <4>2
    <3>4. ASSUME NEW m \in v.master
          PROVE  \E k \in 1 .. Len(v.slots) : m = <<v.fd[v.slots[k][1]], v.slots[k][2]>>
      <4>1. PICK k \in 1 .. n : m = <<w.fd[w.slots[k][1]], w.slots[k][2]>>
        BY <2>1, <3>1 DEF BitsMatch
      <4>2. k # i
        BY <2>1, <2>2, <4>1
      <4>3. CASE k = n
        <5>1. i \in 1 .. n - 1
          BY <2>2, <4>2, <4>3
        <5>2. i \in 1 .. Len(v.slots) /\ v.slots[i] = last
          BY <2>4, <5>1
        <5>3. QED  BY <2>1, <4>1, <4>3, <5>2
      <4>4. CASE k # n
        <5>1. k \in 1 .. n - 1
          BY <2>2, <4>4
        <5>2. k \in 1 .. Len(v.slots) /\ v.slots[k] = w.slots[k]
          BY <2>4, <4>2, <5>1
        <5>3. QED  BY <2>1, <4>1, <5>2
      <4>5. QED  BY <4>3, <4>4
    <3>5. QED  BY <2>1, <3>1, <3>3, <3>4 DEF BitsMatch
  <2>6. QED  BY <2>1, <2>5 DEF Steady, Matched, v
<1>3. QED  BY <1>1, <1>2

LEMMA WatchingSteady ==
  ASSUME NEW w, IoOK(w), Matched(w), NEW e \in Event
  PROVE  /\ w.fd[e[1]] # 0 => Steady(w, AddEvent(w, e)) /\ Steady(w, WriteHandler(w, e))
         /\ Steady(w, DelEvent(w, e))
<1>1. Steady(w, w)
  BY DEF Steady
<1>2. Steady(w, DelEvent(w, e))
  <2>1. CASE backend = "select"
    BY <2>1, SelectDelSteady DEF DelEvent
  <2>2. CASE backend # "select"
    BY <2>2, CallsKeepSlots, SameSlotsSteady DEF DelEvent
  <2>3. QED  BY <2>1, <2>2
<1>3. ASSUME w.fd[e[1]] # 0  PROVE Steady(w, AddEvent(w, e))
  <2>1. CASE backend = "select"
    BY <1>3, <2>1, SelectAddSteady DEF AddEvent
  <2>2. CASE backend # "select"
    BY <2>2, CallsKeepSlots, SameSlotsSteady DEF AddEvent
  <2>3. QED  BY <2>1, <2>2
<1>4. ASSUME w.fd[e[1]] # 0  PROVE Steady(w, WriteHandler(w, e))
  BY <1>1, <1>2, <1>3, <1>4 DEF WriteHandler
<1>5. QED  BY <1>2, <1>3, <1>4

\* After a close nothing is said of the bits any more.
LEMMA CloseSteady ==
  ASSUME NEW w, IoOK(w), Matched(w), NEW c \in Conn
  PROVE  Steady(w, Close(w, c))
<1>1. CASE w.fd[c] = 0
  BY <1>1 DEF Close, Steady
<1>2. CASE w.fd[c] # 0
  <2> DEFINE r == <<c, "read">>  t == <<c, "write">>
             w0 == DelTimer(w, r)  w1 == DelTimer(w0, t)  w2 == DelConnOnClose(w1, c)
             w3 == Unpost(w2, r)  w4 == Unpost(w3, t)  v == GivenBack(w4, c)
  <2>1. Close(w, c) = v
    BY <1>2 DEF Close, Silenced, Untimed
  <2> HIDE DEF r, t, v, w4, w3, w2, w1, w0
  <2>2. DOMAIN w = IoFields
    BY DEF IoOK
  <2>3. DOMAIN w0 = IoFields /\ w0.late = w.late
    BY <2>2 DEF w0, DelTimer, IoFields
  <2>4. DOMAIN w1 = IoFields /\ w1.late = w.late
    BY <2>3 DEF w1, DelTimer, IoFields
  <2>5. DOMAIN w2 = IoFields /\ w2.late = w.late
    BY <2>4 DEF w2, DelConnOnClose, SelectConn, SelectAdd, IoFields
  <2>6. DOMAIN w3 = IoFields /\ w3.late = w.late
    BY <2>5 DEF w3, Unpost, IoFields
  <2>7. DOMAIN w4 = IoFields /\ w4.late = w.late
    BY <2>6 DEF w4, Unpost, IoFields
  <2>8. v.late = w.late /\ v.shut = TRUE
    BY <2>7 DEF v, GivenBack, IoFields
  <2>9. QED  BY <2>1, <2>8, ShutSteady
<1>3. QED  BY <1>1, <1>2

\* A connection that is taken has no slot.
LEMMA GetSteady ==
  ASSUME NEW w, IoOK(w), Matched(w), w.free # <<>>, NEW fd \in Nat
  PROVE  LET v == Get(w, fd) IN Steady(w, v) /\ \A e \in Both(Head(w.free)) : v.index[e] = 0
<1> DEFINE v == Get(w, fd)
           c == Head(w.free)
<1>1. /\ v.slots = w.slots /\ v.master = w.master /\ v.shut = w.shut /\ v.late = w.late
      /\ v.fd = [w.fd EXCEPT ![c] = fd]
      /\ v.index = [e \in Event |-> IF e \in Both(c) THEN 0 ELSE w.index[e]]
      /\ v.write = (w.write \ Both(c)) \cup {<<c, "write">>}
  BY DEF Get, IoOK, IoFields
<1> HIDE DEF v
<1>2. w.free \in Seq(Conn) /\ w.fd \in [Conn -> Nat] /\ c \in Conn /\ c = w.free[1]
  BY DEF IoOK, FdsOK
<1>3. w.fd[c] = 0
  <2>1. 1 \in 1 .. Len(w.free)
    BY <1>2
  <2>2. IsFree(w, c)
    BY <1>2, <2>1 DEF IsFree, InSeq
  <2>3. QED  BY <1>2, <2>2 DEF IoOK, FdsOK
<1> HIDE DEF c
<1>4. \A e \in Both(c) : e \in Event /\ v.index[e] = 0
  <2>1. \A e \in Both(c) : e \in Event
    BY <1>2 DEF Both, Event
  <2>2. QED  BY <1>1, <2>1
<1>5. ASSUME backend = "select", ~ w.shut  PROVE BitsMatch(v)
  <2>1. BitsMatch(w)
    BY <1>5 DEF Matched
  <2>2. \A d \in Conn : v.fd[d] = IF d = c THEN fd ELSE w.fd[d]
    BY <1>1, <1>2
  <2>3. \A i \in 1 .. Len(w.slots) :
          /\ w.slots[i] \in Event /\ w.slots[i][1] \in Conn /\ w.slots[i][1] # c
          /\ w.slots[i] \notin Both(c)
    <3>1. \A i \in 1 .. Len(w.slots) : w.slots[i] \in Event
      BY DEF IoOK, SlotsOK
    <3>2. QED  BY <1>2, <1>3, <2>1, <3>1, EventFacts DEF BitsMatch
  <2>4. \A d \in Conn : v.fd[d] # 0 => <<d, "write">> \in v.write
    <3>1. ASSUME NEW d \in Conn, d # c, v.fd[d] # 0  PROVE <<d, "write">> \in v.write
      <4>1. <<d, "write">> \in w.write /\ <<d, "write">> \notin Both(c)
        BY <1>2, <2>1, <2>2, <3>1 DEF BitsMatch, Both
      <4>2. QED  BY <1>1, <4>1
    <3>2. QED  BY <1>1, <3>1
  <2>5. ASSUME NEW i \in 1 .. Len(v.slots)
        PROVE  /\ v.fd[v.slots[i][1]] # 0 /\ v.index[v.slots[i]] = i
               /\ v.slots[i] \in v.write <=> v.slots[i][2] = "write"
    <3>1. /\ w.slots[i] \in Event /\ w.slots[i][1] \in Conn /\ w.slots[i][1] # c
          /\ w.slots[i] \notin Both(c) /\ w.fd[w.slots[i][1]] # 0 /\ w.index[w.slots[i]] = i
          /\ (w.slots[i] \in w.write <=> w.slots[i][2] = "write")
      BY <1>1, <2>1, <2>3 DEF BitsMatch
    <3>2. v.index[w.slots[i]] = i /\ v.fd[w.slots[i][1]] # 0
      BY <1>1, <2>2, <3>1
    <3>3. w.slots[i] # <<c, "write">>
      BY <3>1 DEF Both
    <3>4. QED  BY <1>1, <3>1, <3>2, <3>3
  <2>6. ASSUME NEW m \in v.master
        PROVE  \E i \in 1 .. Len(v.slots) : m = <<v.fd[v.slots[i][1]], v.slots[i][2]>>
    <3>1. PICK i \in 1 .. Len(w.slots) : m = <<w.fd[w.slots[i][1]], w.slots[i][2]>>
      BY <1>1, <2>1 DEF BitsMatch
    <3>2. v.fd[w.slots[i][1]] = w.fd[w.slots[i][1]]
      BY <2>2, <2>3
    <3>3. QED  BY <1>1, <3>1, <3>2
  <2>7. QED  BY <2>4, <2>5, <2>6 DEF BitsMatch
<1>6. QED  BY <1>1, <1>4, <1>5 DEF Steady, Matched, v, c

LEMMA AcceptedSteady ==
  ASSUME NEW w, IoOK(w), Matched(w), w.free # <<>>, NEW fd \in Fds \ w.open
  PROVE  /\ Steady(w, [w EXCEPT !.open = @ \cup {fd}])
         /\ Steady(w, Accepted(w, fd))
<1> DEFINE o == [w EXCEPT !.open = w.open \cup {fd}]
           c == Head(o.free)
           g == Get(o, fd)
           u == [g EXCEPT !.write = g.write \cup {<<c, "read">>}, !.ready = g.ready \cup {<<c, "write">>}]
           v == Accepted(w, fd)
<1>1. o.free = w.free /\ SameSlots(w, o)
  BY DEF SameSlots, IoOK, IoFields
<1>2. v = IF backend = "select" THEN SelectConn(u, c) ELSE EpollAddConn(u, c)
  BY <1>1 DEF Accepted
<1>3. Steady(w, o) /\ Matched(o)
  BY <1>1, SameSlotsSteady DEF Steady
<1>4. /\ IoOK(o) /\ fd \in Nat /\ fd # 0 /\ fd \in o.open /\ \A d \in Conn : o.fd[d] # fd
  BY AcceptedKeeps
<1> HIDE DEF o
<1>5. /\ IoOK(g) /\ c \in Conn /\ Steady(o, g) /\ \A e \in Both(c) : g.index[e] = 0
  BY <1>1, <1>3, <1>4, GetKeeps, GetSteady
<1> HIDE DEF c, g
<1>6. /\ DOMAIN u = IoFields /\ u.fd = g.fd /\ u.slots = g.slots /\ u.index = g.index
      /\ u.master = g.master /\ u.shut = g.shut /\ u.late = g.late
      /\ u.write = g.write \cup {<<c, "read">>}
  BY <1>5 DEF IoOK, IoFields
<1> HIDE DEF u
<1>7. Steady(g, u)
  <2>1. ASSUME backend = "select", ~ g.shut  PROVE BitsMatch(u)
    <3>1. BitsMatch(g)
      BY <1>5, <2>1 DEF Steady, Matched
    <3>2. \A i \in 1 .. Len(g.slots) : g.slots[i] # <<c, "read">>
      <4>1. g.index[<<c, "read">>] = 0
        BY <1>5 DEF Both
      <4>2. QED  BY <3>1, <4>1 DEF BitsMatch
    <3>3. QED  BY <1>6, <3>1, <3>2 DEF BitsMatch
  <2>2. QED  BY <1>5, <1>6, <2>1 DEF Steady, Matched
<1>8. Steady(u, v)
  <2>1. CASE backend = "select"
    <3>1. v = u
      BY <1>2, <1>6, <2>1 DEF SelectConn, SelectAdd
    <3>2. QED  BY <1>7, <3>1 DEF Steady
  <2>2. CASE backend # "select"
    <3>1. v = EpollAddConn(u, c)
      BY <1>2, <2>2
    <3>2. SameSlots(u, v)
      BY <1>6, <3>1 DEF EpollAddConn, SameSlots, IoFields
    <3>3. QED  BY <1>7, <3>2, SameSlotsSteady DEF Steady
  <2>3. QED  BY <2>1, <2>2
<1> HIDE DEF v
<1>9. Steady(w, v)
  BY <1>3, <1>5, <1>7, <1>8, SteadyOn
<1>10. QED  BY <1>3, <1>9 DEF o, v

LEMMA HandlerSteady ==
  ASSUME NEW w, IoOK(w), Matched(w), NEW v \in HandlerDoes(w)
  PROVE  Steady(w, v)
<1>1. \/ v = w \/ \E c \in Conn \ {1} : v = Close(w, c)
      \/ \E c \in Open(w) : v \in HandlesOne(w, c)
  BY DEF HandlerDoes
<1>2. CASE v = w
  BY <1>2 DEF Steady
<1>3. ASSUME NEW c \in Conn \ {1}, v = Close(w, c)  PROVE Steady(w, v)
  BY <1>3, CloseSteady
<1>4. ASSUME NEW c \in Open(w), v \in HandlesOne(w, c)  PROVE Steady(w, v)
  <2> DEFINE r == <<c, "read">>  t == <<c, "write">>
  <2>1. t \in Event /\ w.fd[t[1]] # 0
    BY EventFacts DEF Open
  <2>2. \/ \E d \in Delays : v = AddTimer(w, r, d)
        \/ v = DelTimer(w, r) \/ v = Post(w, r, "next") \/ v = WriteHandler(w, t) \/ v = PartSent(w, t)
    BY <1>4 DEF HandlesOne
  <2> HIDE DEF r, t
  <2>3. CASE v = WriteHandler(w, t)
    BY <2>1, <2>3, WatchingSteady
  <2>4. CASE v # WriteHandler(w, t)
    <3>1. SameSlots(w, v)
      BY <2>2, <2>4, CallsKeepSlots
    <3>2. QED  BY <3>1, SameSlotsSteady
  <2>5. QED  BY <2>3, <2>4
<1>5. QED  BY <1>1, <1>2, <1>3, <1>4

\* As long as the bits match, select counts as many bits as slots are found.
LEMMA CountsAgree ==
  ASSUME NEW w, IoOK(w), Matched(w), backend = "select", ~ w.shut,
         NEW bits, bits \subseteq w.master, NEW gone, gone \subseteq Gone(w)
  PROVE  Cardinality(gone \cup {i \in DOMAIN w.slots : FdBit(w, w.slots[i]) \in bits}) = Cardinality(bits)
<1> DEFINE D == 1 .. Len(w.slots)
           bit(i) == <<w.fd[w.slots[i][1]], w.slots[i][2]>>
           S == {i \in D : bit(i) \in bits}
           f == [i \in S |-> bit(i)]
<1>1. BitsMatch(w) /\ w.slots \in Seq(Event) /\ DOMAIN w.slots = D /\ Len(w.slots) \in Nat
  BY DEF Matched, IoOK, SlotsOK
<1>2. \A i \in D : w.slots[i] \in Event /\ w.fd[w.slots[i][1]] # 0 /\ w.index[w.slots[i]] = i
  BY <1>1 DEF BitsMatch
<1>3. \A i \in D : FdBit(w, w.slots[i]) = bit(i)
  <2>1. ASSUME NEW i \in D  PROVE FdBit(w, w.slots[i]) = bit(i)
    <3>1. w.slots[i] \in w.write <=> w.slots[i][2] = "write"
      BY <1>1 DEF BitsMatch
    <3>2. w.slots[i][2] \in {"read", "write"}
      BY <1>2, EventFacts
    <3>3. QED  BY <3>1, <3>2 DEF FdBit, FdOf
  <2>2. QED  BY <2>1
<1>4. gone = {}
  BY <1>1, <1>2 DEF Gone, FdOf
<1>5. gone \cup {i \in DOMAIN w.slots : FdBit(w, w.slots[i]) \in bits} = S
  BY <1>1, <1>3, <1>4
<1>6. \A i, j \in D : bit(i) = bit(j) => i = j
  <2>1. ASSUME NEW i \in D, NEW j \in D, bit(i) = bit(j)  PROVE i = j
    <3>1. /\ w.slots[i][1] \in Conn /\ w.slots[j][1] \in Conn
          /\ w.slots[i] = <<w.slots[i][1], w.slots[i][2]>> /\ w.slots[j] = <<w.slots[j][1], w.slots[j][2]>>
      BY <1>2, EventFacts
    <3>2. w.fd[w.slots[i][1]] = w.fd[w.slots[j][1]] /\ w.slots[i][2] = w.slots[j][2]
      BY <2>1
    <3>3. w.slots[i][1] = w.slots[j][1]
      BY <1>2, <3>1, <3>2 DEF IoOK, FdsOK
    <3>4. w.slots[i] = w.slots[j]
      BY <3>1, <3>2, <3>3
    <3>5. QED  BY <1>2, <3>4
  <2>2. QED  BY <2>1
<1>7. \A m \in bits : \E i \in S : f[i] = m
  <2>1. ASSUME NEW m \in bits  PROVE \E i \in S : f[i] = m
    <3>1. PICK i \in D : m = bit(i)
      BY <1>1 DEF BitsMatch
    <3>2. i \in S /\ f[i] = m
      BY <3>1
    <3>3. QED  BY <3>2
  <2>2. QED  BY <2>1
<1>8. f \in [S -> bits] /\ \A i, j \in S : f[i] = f[j] => i = j
  BY <1>6
<1>9. IsFiniteSet(S)
  <2>1. IsFiniteSet(D)
    <3>1. 1 \in Int /\ Len(w.slots) \in Int
      BY <1>1
    <3>2. QED  BY <3>1, FS_Interval, Zenon
  <2>2. S \subseteq D
    OBVIOUS
  <2> HIDE DEF S, D
  <2>3. QED  BY <2>1, <2>2, FS_Subset
<1> HIDE DEF S, f
<1>10. f \in Bijection(S, bits)
  BY <1>7, <1>8 DEF Bijection, Injection, Surjection, IsInjective
<1>11. ExistsBijection(S, bits)
  BY <1>10 DEF ExistsBijection
<1>12. Cardinality(S) = Cardinality(bits)
  BY <1>9, <1>11, FS_Bijection, Zenon
<1>13. QED  BY <1>5, <1>12

\* What a poll posts.
LEMMA PostFoundKeeps ==
  ASSUME NEW w, IoOK(w), NEW F, F \subseteq Event, backend = "epoll" => \A e \in F : ~ IsFree(w, e[1]),
         NEW s \in Orders(F \ (w.posted \cup {Listening}))
  PROVE  Calm(w, PostFound(w, F, s))
<1> DEFINE v == PostFound(w, F, s)
           G == F \ (w.posted \cup {Listening})
           n == Cardinality(G)
<1>1. /\ DOMAIN v = IoFields /\ v.fd = w.fd /\ v.free = w.free /\ v.open = w.open /\ v.now = w.now
      /\ v.index = w.index /\ v.slots = w.slots /\ v.key = w.key
      /\ v.active = w.active /\ v.interest = w.interest /\ v.posted = w.posted \cup F
  BY DEF PostFound, IoOK, IoFields
<1>2. DOMAIN w.queue = Waiting /\ \A q \in Waiting : w.queue[q] \in Seq(Event)
  BY DEF IoOK, QueuesOK
<1>3. /\ DOMAIN v.queue = Waiting /\ v.queue["next"] = w.queue["next"]
      /\ v.queue["now"] = w.queue["now"] \o s
      /\ v.queue["accept"] = IF Listening \in F \ w.posted THEN Append(w.queue["accept"], Listening)
                                                           ELSE w.queue["accept"]
  <2> DEFINE first == [w.queue EXCEPT !["accept"] =
                         IF Listening \in F \ w.posted THEN Append(w.queue["accept"], Listening)
                                                       ELSE w.queue["accept"]]
  <2>1. v.queue = [first EXCEPT !["now"] = first["now"] \o s]
    BY DEF PostFound, IoOK, IoFields
  <2>2. /\ DOMAIN first = Waiting /\ first["next"] = w.queue["next"] /\ first["now"] = w.queue["now"]
        /\ first["accept"] = IF Listening \in F \ w.posted THEN Append(w.queue["accept"], Listening)
                                                           ELSE w.queue["accept"]
    BY <1>2 DEF Waiting
  <2> HIDE DEF first, v
  <2>3. QED  BY <2>1, <2>2 DEF Waiting
<1> HIDE DEF v
<1>4. G \subseteq F /\ \A e \in G : e \notin w.posted /\ e # Listening
  OBVIOUS
<1>5. n \in Nat
  <2>1. IsFiniteSet(Event)
    <3>1. IsFiniteSet({"read"}) /\ {"read", "write"} = {"read"} \cup {"write"}
      BY FS_Singleton
    <3>2. IsFiniteSet({"read"} \cup {"write"})
      BY <3>1, FS_AddElement, Zenon
    <3>3. IsFiniteSet(Conn)
      BY LoopAssumption
    <3>4. IsFiniteSet({"read", "write"})
      BY <3>1, <3>2
    <3>5. QED  BY <3>3, <3>4, FS_Product, Zenon DEF Event
  <2>2. IsFiniteSet(G)
    BY <1>4, <2>1, FS_Subset
  <2>3. QED  BY <2>2, FS_CardinalityType
<1>6. s \in [1 .. n -> G] /\ \A i, j \in 1 .. n : s[i] = s[j] => i = j
  BY DEF Orders
<1> HIDE DEF G, n
<1>7. s \in Seq(Event) /\ Len(s) = n
  BY <1>4, <1>5, <1>6
\* Each place is one there was, or a new one.
<1> DEFINE Was(q, i) == i \in 1 .. Len(w.queue[q]) /\ v.queue[q][i] = w.queue[q][i]
           Accepts1(q, i) == /\ q = "accept" /\ i = Len(w.queue[q]) + 1 /\ v.queue[q][i] = Listening
                             /\ Listening \in F /\ Listening \notin w.posted
           Found(q, i) == /\ q = "now" /\ i - Len(w.queue[q]) \in 1 .. n
                          /\ v.queue[q][i] = s[i - Len(w.queue[q])]
<1>8. ASSUME NEW q \in Waiting
      PROVE  /\ v.queue[q] \in Seq(Event)
             /\ \A i \in 1 .. Len(v.queue[q]) : Was(q, i) \/ Accepts1(q, i) \/ Found(q, i)
  <2>1. CASE q = "accept" /\ Listening \in F \ w.posted
    <3>1. v.queue[q] = Append(w.queue[q], Listening) /\ Listening \in Event /\ w.queue[q] \in Seq(Event)
      BY <1>2, <1>3, <2>1
    <3>2. /\ v.queue[q] \in Seq(Event) /\ Len(v.queue[q]) = Len(w.queue[q]) + 1 /\ Len(w.queue[q]) \in Nat
          /\ \A i \in 1 .. Len(w.queue[q]) : v.queue[q][i] = w.queue[q][i]
          /\ v.queue[q][Len(w.queue[q]) + 1] = Listening
      BY <3>1
    <3>3. QED  BY <2>1, <3>2
  <2>2. CASE q = "now"
    <3> DEFINE t == w.queue[q]
    <3>1. v.queue[q] = t \o s /\ t \in Seq(Event)
      BY <1>2, <1>3, <2>2
    <3> HIDE DEF t
    <3>2. /\ t \o s \in Seq(Event) /\ Len(t \o s) = Len(t) + Len(s)
          /\ \A i \in 1 .. Len(t) + Len(s) :
               (t \o s)[i] = IF i <= Len(t) THEN t[i] ELSE s[i - Len(t)]
      BY <1>7, <3>1, ConcatProperties, Zenon
    <3>3. Len(t) \in Nat
      BY <3>1
    <3>4. ASSUME NEW i \in 1 .. Len(v.queue[q])
          PROVE  \/ i \in 1 .. Len(t) /\ v.queue[q][i] = t[i]
                 \/ i - Len(t) \in 1 .. n /\ v.queue[q][i] = s[i - Len(t)]
      BY <1>5, <1>7, <3>1, <3>2, <3>3
    <3>5. QED  BY <2>2, <3>1, <3>2, <3>4 DEF t
  <2>3. CASE v.queue[q] = w.queue[q]
    BY <1>2, <2>3
  <2>4. QED  BY <1>3, <2>1, <2>2, <2>3 DEF Waiting
<1>9. ASSUME NEW q, NEW i, Accepts1(q, i) \/ Found(q, i)
      PROVE  v.queue[q][i] \in F /\ v.queue[q][i] \notin w.posted
  <2>1. CASE Accepts1(q, i)
    BY <2>1
  <2>2. CASE Found(q, i)
    <3>1. v.queue[q][i] \in G
      BY <1>6, <2>2
    <3>2. QED  BY <1>4, <3>1
  <2>3. QED  BY <1>9, <2>1, <2>2
<1>10. ASSUME backend = "epoll"
       PROVE  /\ \A q, r \in Waiting : \A i \in 1 .. Len(v.queue[q]), j \in 1 .. Len(v.queue[r]) :
                   v.queue[q][i] = v.queue[r][j] => q = r /\ i = j
              /\ \A q \in Waiting : \A i \in 1 .. Len(v.queue[q]) :
                   v.queue[q][i] \in v.posted /\ ~ IsFree(v, v.queue[q][i][1])
  <2>1. /\ \A q, r \in Waiting : \A i \in 1 .. Len(w.queue[q]), j \in 1 .. Len(w.queue[r]) :
             w.queue[q][i] = w.queue[r][j] => q = r /\ i = j
        /\ \A q \in Waiting : \A i \in 1 .. Len(w.queue[q]) :
             w.queue[q][i] \in w.posted /\ ~ IsFree(w, w.queue[q][i][1])
    BY <1>10 DEF IoOK, QueuesOK
  <2>2. ASSUME NEW q \in Waiting, NEW r \in Waiting, NEW i \in 1 .. Len(v.queue[q]),
               NEW j \in 1 .. Len(v.queue[r]), v.queue[q][i] = v.queue[r][j]
        PROVE  q = r /\ i = j
    <3>1. CASE Was(q, i)
      <4>1. v.queue[r][j] \in w.posted
        BY <2>1, <2>2, <3>1
      <4>2. Was(r, j)
        BY <1>8, <1>9, <4>1
      <4>3. w.queue[q][i] = w.queue[r][j]
        BY <2>2, <3>1, <4>2
      <4>4. QED  BY <2>1, <3>1, <4>2, <4>3
    <3>2. CASE Accepts1(q, i) \/ Found(q, i)
      <4>1. v.queue[r][j] \notin w.posted
        BY <1>9, <2>2, <3>2
      <4>2. ~ Was(r, j)
        BY <2>1, <4>1
      <4>3. Accepts1(r, j) \/ Found(r, j)
        BY <1>8, <4>2
      <4>4. CASE Accepts1(q, i) /\ Accepts1(r, j)
        BY <4>4
      <4>5. CASE Found(q, i) /\ Found(r, j)
        <5>1. q = r /\ s[i - Len(w.queue[q])] = s[j - Len(w.queue[q])]
          BY <2>2, <4>5
        <5>2. i - Len(w.queue[q]) = j - Len(w.queue[q])
          BY <1>6, <4>5, <5>1
        <5>3. i \in Int /\ j \in Int /\ Len(w.queue[q]) \in Int
          BY <1>2
        <5>4. QED  BY <5>1, <5>2, <5>3
      <4>6. \A p, k : Found(p, k) => v.queue[p][k] # Listening
        BY <1>4, <1>6
      <4>7. \A p, k : Accepts1(p, k) => v.queue[p][k] = Listening
        OBVIOUS
      <4>8. QED  BY <2>2, <3>2, <4>3, <4>4, <4>5, <4>6, <4>7
    <3>3. QED  BY <1>8, <3>1, <3>2
  <2>3. ASSUME NEW q \in Waiting, NEW i \in 1 .. Len(v.queue[q])
        PROVE  v.queue[q][i] \in v.posted /\ ~ IsFree(v, v.queue[q][i][1])
    <3>1. \A c : IsFree(v, c) <=> IsFree(w, c)
      BY <1>1 DEF IsFree
    <3>2. CASE Was(q, i)
      BY <1>1, <2>1, <3>1, <3>2
    <3>3. CASE Accepts1(q, i) \/ Found(q, i)
      <4>1. v.queue[q][i] \in F
        BY <1>9, <3>3
      <4>2. QED  BY <1>1, <1>10, <3>1, <4>1
    <3>4. QED  BY <1>8, <3>2, <3>3
  <2>4. QED  BY <2>2, <2>3
<1>11. QueuesOK(v)
  <2>1. \A q \in Waiting : v.queue[q] \in Seq(Event)
    BY <1>8
  <2>2. QED  BY <1>3, <1>10, <2>1 DEF QueuesOK
<1>12. FdsOK(v) /\ SlotsOK(v) /\ KeysOK(v) /\ WatchOK(v)
  BY <1>1, Frames DEF IoOK
<1>13. SameConns(w, v) /\ KeysLater(w, v)
  BY <1>1 DEF SameConns, KeysLater
<1>14. IoOK(v)
  BY <1>1, <1>11, <1>12 DEF IoOK
<1>15. QED  BY <1>13, <1>14 DEF Calm, v

LEMMA PostAllKeeps ==
  ASSUME NEW w, IoOK(w), NEW F, F \subseteq Event, backend = "epoll" => \A e \in F : ~ IsFree(w, e[1]),
         NEW v \in PostAll(w, F)
  PROVE  Calm(w, v) /\ SameSlots(w, v) /\ v.max = w.max /\ v.open = w.open
<1>1. PICK s \in Orders(F \ (w.posted \cup {Listening})) : v = PostFound(w, F, s)
  BY DEF PostAll
<1>2. SameSlots(w, v) /\ v.max = w.max /\ v.open = w.open
  BY <1>1 DEF PostFound, SameSlots, IoOK, IoFields
<1>3. QED  BY <1>1, <1>2, PostFoundKeeps

\* The first timer, when nothing is overdue.
Timely(w) == \A e \in Event : w.key[e] = 0 \/ w.key[e] >= w.now
LEMMA LeastIs ==
  ASSUME NEW w, IoOK(w), Timers(w) # {}
  PROVE  /\ \E e \in Timers(w) : LeastOf(w) = w.key[e]
         /\ \A e \in Timers(w) : LeastOf(w) <= w.key[e]
<1> DEFINE K == {w.key[e] : e \in Timers(w)}
<1>1. K \subseteq Nat /\ K # {}
  BY DEF Timers, IoOK, KeysOK
<1>2. \E k \in K : \A e \in Timers(w) : k <= w.key[e]
  <2>1. PICK k \in K : \A y \in K : k <= y
    <3> HIDE DEF K
    <3>1. QED  BY <1>1, LeastMember
  <2>2. QED  BY <2>1
<1>3. LeastOf(w) \in K /\ \A e \in Timers(w) : LeastOf(w) <= w.key[e]
  BY <1>2 DEF LeastOf
<1>4. QED  BY <1>3

LEMMA FindTimerIs ==
  ASSUME NEW w, IoOK(w), Timely(w)
  PROVE  /\ FindTimer(w) \in Nat
         /\ \A e \in Timers(w) : w.now + FindTimer(w) <= w.key[e]
<1>1. CASE Timers(w) = {}
  BY <1>1, LoopAssumption DEF FindTimer
<1>2. CASE Timers(w) # {}
  <2>1. FindTimer(w) = LeastOf(w) - w.now
    BY <1>2 DEF FindTimer
  <2>2. \A e \in Timers(w) : w.key[e] \in Nat /\ w.key[e] >= w.now /\ w.now \in Nat
    BY DEF Timers, Timely, IoOK, KeysOK
  <2>3. LeastOf(w) \in Nat /\ LeastOf(w) >= w.now /\ w.now \in Nat
    BY <1>2, <2>2, LeastIs
  <2>4. \A e \in Timers(w) : LeastOf(w) <= w.key[e]
    BY <1>2, LeastIs
  <2>5. QED  BY <2>1, <2>2, <2>3, <2>4
<1>3. QED  BY <1>1, <1>2

\* The invariant of the loop.
LoopInv ==
  /\ IoOK(io)
  /\ errors \in Nat /\ IsFiniteSet(LostOf(io)) /\ Cardinality(LostOf(io)) <= errors
  /\ lpc \in {"posted", "turn"} => Timely(io)
  /\ lpc = "turn" => io.queue["now"] = <<>>
  /\ Matched(io) /\ NapsOnceShut
  /\ WaitBounded

LEMMA LoopInvInit == LoopInit => LoopInv
<1> SUFFICES ASSUME LoopInit  PROVE LoopInv
  OBVIOUS
<1> DEFINE n == Cardinality(Conn)  w == Start  e == Listening
<1>1. /\ Conn = 1 .. n /\ n \in Nat /\ 1 \in Conn
  BY LoopAssumption, FS_CardinalityType
<1>2. backend \in {"select", "epoll"} /\ lpc = "turn" /\ wait = 0 /\ errors = 0
      /\ (io = w \/ io = AddEvent(w, e))
  BY DEF LoopInit
<1>3. /\ DOMAIN w = IoFields /\ w.now = 1 /\ w.open = {1} /\ w.active = {} /\ w.interest = {}
      /\ w.fd = [c \in Conn |-> IF c = 1 THEN 1 ELSE 0]
      /\ w.free = [i \in 1 .. n - 1 |-> i + 1]
      /\ w.index = [x \in Event |-> 0] /\ w.key = [x \in Event |-> 0] /\ w.slots = <<>>
      /\ w.queue = [accept |-> <<>>, now |-> <<>>, next |-> <<>>]
      /\ w.master = {} /\ w.write = {<<1, "write">>} /\ w.shut = FALSE /\ w.late = 0
  BY DEF Start, IoFields
<1> HIDE DEF w
<1>4. w.free \in Seq(Conn) /\ Len(w.free) = n - 1 /\ \A i \in 1 .. n - 1 : w.free[i] = i + 1
  <2>1. n - 1 \in Nat
    BY <1>1
  <2>2. w.free \in [1 .. n - 1 -> Conn]
    BY <1>1, <1>3
  <2>3. w.free \in Seq(Conn) /\ Len(w.free) = n - 1
    BY <2>1, <2>2
  <2>4. \A i \in 1 .. n - 1 : w.free[i] = i + 1
    BY <1>3
  <2>5. QED  BY <2>3, <2>4
<1>5. \A c \in Conn : IsFree(w, c) <=> c # 1
  <2>1. ASSUME NEW c \in Conn, IsFree(w, c)  PROVE c # 1
    <3>1. PICK i \in 1 .. n - 1 : w.free[i] = c
      BY <1>4, <2>1 DEF IsFree, InSeq
    <3>2. QED  BY <1>1, <1>4, <3>1
  <2>2. ASSUME NEW c \in Conn, c # 1  PROVE IsFree(w, c)
    <3>1. c - 1 \in 1 .. Len(w.free) /\ w.free[c - 1] = c
      BY <1>1, <1>4, <2>2
    <3>2. QED  BY <3>1 DEF IsFree, InSeq
  <2>3. QED  BY <2>1, <2>2
<1>6. FdsOK(w)
  BY <1>1, <1>3, <1>4, <1>5 DEF FdsOK
<1>7. KeysOK(w) /\ SlotsOK(w) /\ WatchOK(w)
  BY <1>3 DEF KeysOK, SlotsOK, WatchOK
<1>8. QueuesOK(w) /\ w.queue["now"] = <<>>
  <2>1. DOMAIN w.queue = Waiting /\ \A q \in Waiting : w.queue[q] = <<>>
    BY <1>3 DEF Waiting
  <2>2. <<>> \in Seq(Event) /\ Len(<<>>) = 0
    BY EmptySeq
  <2>3. \A i \in 1 .. Len(<<>>) : FALSE
    BY <2>2
  <2>4. QED  BY <2>1, <2>2, <2>3 DEF QueuesOK, Waiting
<1>9. IoOK(w)
  BY <1>2, <1>3, <1>6, <1>7, <1>8 DEF IoOK
<1>10. LostOf(w) = {} /\ Timely(w)
  BY <1>3, <1>5 DEF LostOf, Timely
<1>11. e \in Event /\ e[1] = 1 /\ ~ IsFree(w, e[1])
  BY <1>1, <1>5, EventFacts DEF Listening
<1>12. Calm(w, io) /\ io.queue = w.queue
  <2>1. CASE io = w
    BY <1>9, <2>1 DEF Calm, SameConns, KeysLater
  <2>2. CASE io = AddEvent(w, e)
    <3> HIDE DEF e
    <3>1. QED  BY <1>9, <1>11, <2>2, WatchingIsCalm
  <2>3. QED  BY <1>2, <2>1, <2>2
<1>13. IoOK(io) /\ LostOf(io) = {} /\ Timely(io) /\ io.queue["now"] = <<>>
  <2>1. LostOf(io) = {}
    BY <1>10, <1>12, Frames DEF Calm, SameConns
  <2>2. Timely(io)
    BY <1>9, <1>10, <1>12 DEF Calm, KeysLater, Timely
  <2>3. QED  BY <1>8, <1>12, <2>1, <2>2 DEF Calm
<1>14. IsFiniteSet(LostOf(io)) /\ Cardinality(LostOf(io)) <= errors
  BY <1>2, <1>13, FS_EmptySet
<1>15. Matched(io) /\ io.late = 0
  <2>1. BitsMatch(w) /\ Matched(w)
    <3>1. \A c \in Conn : w.fd[c] # 0 => <<c, "write">> \in w.write
      BY <1>3
    <3>2. 1 .. Len(w.slots) = {}
      BY <1>3
    <3>3. QED  BY <1>3, <3>1, <3>2 DEF BitsMatch, Matched
  <2>2. w.fd[e[1]] # 0
    BY <1>1, <1>3, <1>11
  <2> HIDE DEF e
  <2>3. CASE io = w
    BY <1>3, <2>1, <2>3
  <2>4. CASE io = AddEvent(w, e)
    BY <1>3, <1>9, <1>11, <2>1, <2>2, <2>4, WatchingSteady DEF Steady
  <2>5. QED  BY <1>2, <2>3, <2>4
<1>16. QED  BY <1>2, <1>13, <1>14, <1>15 DEF LoopInv, WaitBounded, NapsOnceShut

\* A turn begins: what was posted for it is moved, and the wait is found.
LEMMA TurnKeeps ==
  ASSUME LoopInv, Turn
  PROVE  LoopInv'
<1> DEFINE w == io  v == MovePostedNext(w)
           first == FindTimer(w)
           most == IF mutex /\ first > MutexDelay THEN MutexDelay ELSE first
<1>1. /\ lpc = "turn" /\ lpc' = "poll" /\ io' = v /\ errors' = errors /\ backend' = backend
      /\ wait' = IF w.queue.next # <<>> THEN 0 ELSE most
  BY DEF Turn, Fixed
<1>2. IoOK(w) /\ Timely(w) /\ w.queue["now"] = <<>>
  BY <1>1 DEF LoopInv
<1>3. /\ DOMAIN v = IoFields /\ v.fd = w.fd /\ v.free = w.free /\ v.open = w.open /\ v.now = w.now
      /\ v.index = w.index /\ v.slots = w.slots /\ v.posted = w.posted
      /\ v.active = w.active /\ v.interest = w.interest /\ v.key = w.key
      /\ v.queue = [w.queue EXCEPT !["now"] = w.queue["now"] \o w.queue["next"], !["next"] = <<>>]
  BY <1>2 DEF MovePostedNext, IoOK, IoFields
<1> HIDE DEF v
<1>4. DOMAIN w.queue = Waiting /\ \A q \in Waiting : w.queue[q] \in Seq(Event)
  BY <1>2 DEF IoOK, QueuesOK
<1>5. w.queue["now"] \o w.queue["next"] = w.queue["next"]
  <2>1. w.queue["next"] \in Seq(Event)
    BY <1>4 DEF Waiting
  <2>2. QED  BY <1>2, <2>1, ConcatEmptySeq
<1>6. /\ DOMAIN v.queue = Waiting
      /\ v.queue["now"] = w.queue["next"] /\ v.queue["next"] = <<>> /\ v.queue["accept"] = w.queue["accept"]
  <2> DEFINE moved == [w.queue EXCEPT !["now"] = w.queue["next"]]
  <2>1. v.queue = [moved EXCEPT !["next"] = <<>>]
    BY <1>3, <1>5
  <2>2. /\ DOMAIN moved = Waiting /\ moved["now"] = w.queue["next"]
        /\ moved["accept"] = w.queue["accept"]
    BY <1>4 DEF Waiting
  <2> HIDE DEF moved
  <2>3. QED  BY <2>1, <2>2 DEF Waiting
<1>7. QueuesOK(v)
  <2> DEFINE from == [q \in Waiting |-> IF q = "now" THEN "next" ELSE q]
  <2>1. \A q \in Waiting : from[q] \in Waiting
    BY DEF Waiting
  <2>2. \A q \in Waiting : v.queue[q] \in Seq(Event)
    <3>1. v.queue["next"] \in Seq(Event)
      BY <1>6, EmptySeq
    <3>2. v.queue["now"] \in Seq(Event) /\ v.queue["accept"] \in Seq(Event)
      BY <1>4, <1>6 DEF Waiting
    <3>3. QED  BY <3>1, <3>2 DEF Waiting
  <2>3. \A q \in Waiting : \A i \in 1 .. Len(v.queue[q]) :
          i \in 1 .. Len(w.queue[from[q]]) /\ v.queue[q][i] = w.queue[from[q]][i] /\ q # "next"
    BY <1>6 DEF Waiting
  <2>4. \A q, r \in Waiting : q # "next" /\ r # "next" /\ from[q] = from[r] => q = r
    BY DEF Waiting
  <2> HIDE DEF from
  <2>5. ASSUME backend = "epoll"
        PROVE  /\ \A q, r \in Waiting : \A i \in 1 .. Len(v.queue[q]), j \in 1 .. Len(v.queue[r]) :
                    v.queue[q][i] = v.queue[r][j] => q = r /\ i = j
               /\ \A q \in Waiting : \A i \in 1 .. Len(v.queue[q]) :
                    v.queue[q][i] \in v.posted /\ ~ IsFree(v, v.queue[q][i][1])
    <3>1. \A q, r \in Waiting : \A i \in 1 .. Len(w.queue[q]), j \in 1 .. Len(w.queue[r]) :
            w.queue[q][i] = w.queue[r][j] => q = r /\ i = j
      BY <1>2, <2>5 DEF IoOK, QueuesOK
    <3>2. \A q \in Waiting : \A i \in 1 .. Len(w.queue[q]) :
            w.queue[q][i] \in w.posted /\ ~ IsFree(w, w.queue[q][i][1])
      BY <1>2, <2>5 DEF IoOK, QueuesOK
    <3>3. ASSUME NEW q \in Waiting, NEW r \in Waiting, NEW i \in 1 .. Len(v.queue[q]),
                 NEW j \in 1 .. Len(v.queue[r]), v.queue[q][i] = v.queue[r][j]
          PROVE  q = r /\ i = j
      <4>1. /\ i \in 1 .. Len(w.queue[from[q]]) /\ j \in 1 .. Len(w.queue[from[r]])
            /\ w.queue[from[q]][i] = w.queue[from[r]][j] /\ q # "next" /\ r # "next"
        BY <2>3, <3>3
      <4>2. from[q] = from[r] /\ i = j
        BY <2>1, <3>1, <4>1
      <4>3. QED  BY <2>4, <4>1, <4>2
    <3>4. ASSUME NEW q \in Waiting, NEW i \in 1 .. Len(v.queue[q])
          PROVE  v.queue[q][i] \in v.posted /\ ~ IsFree(v, v.queue[q][i][1])
      <4>1. i \in 1 .. Len(w.queue[from[q]]) /\ v.queue[q][i] = w.queue[from[q]][i]
        BY <2>3
      <4>2. \A c : IsFree(v, c) <=> IsFree(w, c)
        BY <1>3 DEF IsFree
      <4>3. QED  BY <1>3, <2>1, <3>2, <4>1, <4>2
    <3>5. QED  BY <3>3, <3>4
  <2>6. QED  BY <1>6, <2>2, <2>5 DEF QueuesOK
<1>8. IoOK(v) /\ LostOf(v) = LostOf(w)
  BY <1>2, <1>3, <1>7, Frames DEF IoOK
<1>9. first \in Nat /\ \A e \in Timers(w) : w.now + first <= w.key[e]
  BY <1>2, FindTimerIs
<1> HIDE DEF first
<1>10. most \in Nat /\ most <= first
  BY <1>9, LoopAssumption
<1> HIDE DEF most
<1>11. wait' \in Nat /\ wait' <= first /\ (w.queue["next"] # <<>> => wait' = 0)
  BY <1>1, <1>9, <1>10
<1>12. Timers(v) = Timers(w) /\ v.now \in Nat
  BY <1>2, <1>3 DEF Timers, IoOK, KeysOK
<1>16. /\ Matched(v) /\ v.late = w.late /\ v.shut = w.shut
       /\ v.late = 0 \/ (backend = "select" /\ v.shut /\ v.late = Nap)
  <2>1. SameSlots(w, v)
    BY <1>2 DEF v, MovePostedNext, SameSlots, IoOK, IoFields
  <2>2. QED  BY <2>1, SameSlotsSteady DEF SameSlots, Steady, LoopInv, NapsOnceShut
<1>17. Matched(io)' /\ NapsOnceShut'
  BY <1>1, <1>16 DEF Matched, BitsMatch, NapsOnceShut
<1>13. WaitBounded'
  <2>1. ASSUME NEW e \in Timers(v)  PROVE v.now + v.late + wait' <= v.key[e] + IF v.shut THEN Nap ELSE 0
    <3>1. w.now + first <= w.key[e] /\ w.key[e] \in Nat /\ w.now \in Nat
      BY <1>2, <1>9, <1>12, <2>1 DEF Timers, IoOK, KeysOK
    <3>2. v.late <= (IF v.shut THEN Nap ELSE 0) /\ v.late \in Nat /\ (IF v.shut THEN Nap ELSE 0) \in Nat
      BY <1>16, NapAssumption
    <3>3. QED  BY <1>3, <1>9, <1>11, <3>1, <3>2
  <2>2. (v.queue).now # <<>> => wait' = 0
    BY <1>6, <1>11
  <2>3. wait' >= 0
    BY <1>11
  <2>4. QED  BY <1>1, <2>1, <2>2, <2>3 DEF WaitBounded, Timers
<1>14. IoOK(io)'
  BY <1>1, <1>8 DEF IoOK, FdsOK, KeysOK, SlotsOK, QueuesOK, WatchOK
<1>15. QED  BY <1>1, <1>8, <1>13, <1>14, <1>17 DEF LoopInv, LostOf, IsFree

\* A poll changes what is known of the descriptors, posts, and may repair.
LEMMA RepairKeeps ==
  ASSUME NEW w, IoOK(w)
  PROVE  LET v == SelectRepair(w) IN
         /\ IoOK(v) /\ LostOf(v) = LostOf(w) /\ v.shut = w.shut /\ v.late = w.late
         /\ \A n : LET x == [v EXCEPT !.late = n] IN
              IoOK(x) /\ LostOf(x) = LostOf(w) /\ x.shut = w.shut /\ x.late = n
<1> DEFINE v == SelectRepair(w)
<1>1. /\ DOMAIN v = IoFields /\ v.fd = w.fd /\ v.free = w.free /\ v.open = w.open /\ v.now = w.now
      /\ v.index = w.index /\ v.slots = w.slots /\ v.queue = w.queue /\ v.posted = w.posted
      /\ v.active = w.active /\ v.interest = w.interest /\ v.key = w.key
      /\ v.shut = w.shut /\ v.late = w.late
  BY DEF IoOK, IoFields, SelectRepair
<1> HIDE DEF v
<1>2. IoOK(v) /\ LostOf(v) = LostOf(w)
  BY <1>1, Frames DEF IoOK
<1>3. ASSUME NEW n
      PROVE  LET x == [v EXCEPT !.late = n] IN
             IoOK(x) /\ LostOf(x) = LostOf(w) /\ x.shut = w.shut /\ x.late = n
  <2> DEFINE x == [v EXCEPT !.late = n]
  <2>1. /\ DOMAIN x = IoFields /\ x.fd = v.fd /\ x.free = v.free /\ x.open = v.open /\ x.now = v.now
        /\ x.index = v.index /\ x.slots = v.slots /\ x.queue = v.queue /\ x.posted = v.posted
        /\ x.active = v.active /\ x.interest = v.interest /\ x.key = v.key
        /\ x.shut = v.shut /\ x.late = n
    BY <1>1 DEF IoFields
  <2> HIDE DEF x
  <2>2. IoOK(x) /\ LostOf(x) = LostOf(v)
    BY <1>2, <2>1, Frames DEF IoOK
  <2>3. QED  BY <1>1, <1>2, <2>1, <2>2 DEF x
<1>4. QED  BY <1>1, <1>2, <1>3 DEF v

LEMMA SelectPollsKeeps ==
  ASSUME NEW w, IoOK(w), Matched(w), backend = "select", w.late = 0, NEW x \in SelectPolls(w)
  PROVE  /\ IoOK(x) /\ LostOf(x) = LostOf(w) /\ Matched(x)
         /\ x.late = 0 \/ (x.shut /\ x.late = Nap)
<1> DEFINE v == Sought(w)
           polled == {m \in v.master : m[1] <= v.max}
<1>1. /\ DOMAIN v = IoFields /\ v.fd = w.fd /\ v.free = w.free /\ v.open = w.open /\ v.now = w.now
      /\ v.index = w.index /\ v.slots = w.slots /\ v.queue = w.queue /\ v.posted = w.posted
      /\ v.active = w.active /\ v.interest = w.interest /\ v.key = w.key
      /\ SameSlots(w, v)
  BY DEF IoOK, IoFields, Sought, SameSlots
<1>2. \/ x = SelectRepair(v) /\ \E m \in polled : m[1] \notin v.open
      \/ x = v
      \/ \E gone \in SUBSET Gone(v), bits \in SUBSET polled : x \in SelectFinds(v, bits, gone)
  BY DEF SelectPolls
<1> HIDE DEF v
<1>3. IoOK(v) /\ LostOf(v) = LostOf(w) /\ Matched(v) /\ v.late = 0
  <2>1. IoOK(v) /\ LostOf(v) = LostOf(w)
    BY <1>1, Frames DEF IoOK
  <2>2. Steady(w, v)
    BY <1>1, SameSlotsSteady
  <2>3. QED  BY <2>1, <2>2 DEF Steady
<1>4. CASE x = SelectRepair(v) /\ \E m \in polled : m[1] \notin v.open
  <2>1. v.shut
    <3>1. SUFFICES ASSUME ~ v.shut  PROVE FALSE
      OBVIOUS
    <3>2. PICK m \in v.master : m[1] \notin v.open
      BY <1>4
    <3>3. BitsMatch(v)
      BY <1>3, <3>1 DEF Matched
    <3>4. PICK i \in 1 .. Len(v.slots) : m = <<v.fd[v.slots[i][1]], v.slots[i][2]>>
      BY <3>2, <3>3 DEF BitsMatch
    <3>5. v.slots[i][1] \in Conn /\ v.fd[v.slots[i][1]] # 0
      <4>1. v.slots[i] \in Event
        BY <1>3 DEF IoOK, SlotsOK
      <4>2. QED  BY <3>3, <4>1, EventFacts DEF BitsMatch
    <3>6. QED  BY <1>3, <3>2, <3>4, <3>5 DEF IoOK, FdsOK
  <2>2. v.shut = TRUE
    BY <1>3, <2>1 DEF Matched
  <2>3. QED  BY <1>3, <1>4, <2>2, RepairKeeps DEF Matched
<1>5. CASE x = v
  BY <1>3, <1>5
<1>6. ASSUME NEW gone \in SUBSET Gone(v), NEW bits \in SUBSET polled, x \in SelectFinds(v, bits, gone)
      PROVE  /\ IoOK(x) /\ LostOf(x) = LostOf(w) /\ Matched(x)
             /\ x.late = 0 \/ (x.shut /\ x.late = Nap)
  <2> DEFINE found == gone \cup {i \in DOMAIN v.slots : FdBit(v, v.slots[i]) \in bits}
             F == {v.slots[i] : i \in found}
  <2>1. \/ x \in PostAll(v, F)
        \/ /\ Cardinality(found) # Cardinality(bits)
           /\ \E p \in PostAll(v, F) : x = [SelectRepair(p) EXCEPT !.late = Nap]
    BY <1>6 DEF SelectFinds
  <2>2. F \subseteq Event /\ bits \subseteq v.master
    <3>1. found \subseteq DOMAIN v.slots /\ \A i \in DOMAIN v.slots : v.slots[i] \in Event
      BY <1>3, <1>6 DEF Gone, IoOK, SlotsOK
    <3>2. QED  BY <1>6, <3>1
  <2>3. Cardinality(found) # Cardinality(bits) => v.shut
    BY <1>3, <1>6, <2>2, CountsAgree
  <2> HIDE DEF F, found
  <2>4. ASSUME NEW p \in PostAll(v, F)
        PROVE  IoOK(p) /\ LostOf(p) = LostOf(w) /\ Matched(p) /\ p.late = 0 /\ p.shut = v.shut
    <3>1. Calm(v, p) /\ SameSlots(v, p)
      BY <1>3, <2>2, <2>4, PostAllKeeps
    <3>2. LostOf(p) = LostOf(v)
      BY <3>1, Frames DEF Calm, SameConns
    <3>3. Steady(v, p)
      BY <1>3, <3>1, SameSlotsSteady
    <3>4. QED  BY <1>3, <3>1, <3>2, <3>3 DEF Calm, Steady, SameSlots
  <2>5. CASE x \in PostAll(v, F)
    BY <2>4, <2>5
  <2>6. ASSUME Cardinality(found) # Cardinality(bits), NEW p \in PostAll(v, F),
               x = [SelectRepair(p) EXCEPT !.late = Nap]
        PROVE  /\ IoOK(x) /\ LostOf(x) = LostOf(w) /\ Matched(x) /\ x.shut /\ x.late = Nap
    <3>1. v.shut = TRUE
      BY <1>3, <2>3, <2>6 DEF Matched
    <3>2. IoOK(x) /\ LostOf(x) = LostOf(p) /\ x.shut = p.shut /\ x.late = Nap
      BY <2>4, <2>6, RepairKeeps
    <3>3. QED  BY <2>4, <3>1, <3>2 DEF Matched
  <2>7. QED  BY <2>1, <2>5, <2>6
<1>7. QED  BY <1>2, <1>4, <1>5, <1>6

\* The clock goes on, by no more than the invariant needs to know.
LEMMA PollKeeps ==
  ASSUME LoopInv, Poll
  PROVE  LoopInv'
<1> DEFINE v == io'
<1>1. /\ lpc' = "accepts" /\ errors' = errors /\ backend' = backend
      /\ IoOK(io) /\ Matched(io)
  BY DEF LoopInv, Poll, Fixed
<1>2. PICK t \in io.now .. MaxNow :
        LET w == [io EXCEPT !.now = t, !.late = 0] IN
        v \in IF backend = "select" THEN SelectPolls(w) ELSE EpollPolls(w)
  BY DEF Poll, Later
<1> DEFINE w == [io EXCEPT !.now = t, !.late = 0]
<1>3. v \in IF backend = "select" THEN SelectPolls(w) ELSE EpollPolls(w)
  BY <1>2
<1>4. /\ DOMAIN w = IoFields /\ w.fd = io.fd /\ w.free = io.free /\ w.open = io.open /\ w.now = t
      /\ w.index = io.index /\ w.slots = io.slots /\ w.queue = io.queue /\ w.posted = io.posted
      /\ w.active = io.active /\ w.interest = io.interest /\ w.key = io.key
      /\ w.master = io.master /\ w.write = io.write /\ w.shut = io.shut /\ w.late = 0
  BY <1>1 DEF IoOK, IoFields
<1> HIDE DEF w
<1>5. IoOK(w) /\ LostOf(w) = LostOf(io) /\ Matched(w)
  <2>1. t \in Nat \ {0}
    BY <1>1, LoopAssumption DEF IoOK, KeysOK
  <2>2. KeysOK(w)
    BY <1>1, <1>4, <2>1 DEF IoOK, KeysOK, IsFree
  <2>3. FdsOK(w) /\ SlotsOK(w) /\ QueuesOK(w) /\ WatchOK(w) /\ LostOf(w) = LostOf(io)
    BY <1>1, <1>4, Frames DEF IoOK
  <2>4. Matched(w)
    BY <1>1, <1>4 DEF Matched, BitsMatch
  <2>5. QED  BY <1>1, <1>4, <2>2, <2>3, <2>4 DEF IoOK
<1>6. /\ IoOK(v) /\ LostOf(v) = LostOf(w) /\ Matched(v)
      /\ v.late = 0 \/ (backend = "select" /\ v.shut /\ v.late = Nap)
  <2>1. CASE backend = "select"
    <3>1. v \in SelectPolls(w)
      BY <1>3, <2>1
    <3> HIDE DEF v
    <3>2. QED  BY <1>4, <1>5, <2>1, <3>1, SelectPollsKeeps
  <2>2. CASE backend # "select"
    <3> DEFINE es == {e \in w.active : \E r \in w.interest :
                        /\ r.conn = e[1] /\ e[2] \in r.dirs
                        /\ w.fd[e[1]] # 0 /\ r.instance = w.instance[e[1]]}
    <3>1. v \in PostSome(w, es)
      BY <1>3, <2>2 DEF EpollPolls
    <3>2. backend = "epoll"
      BY <1>1, <2>2 DEF IoOK
    <3>3. w.active \subseteq Event /\ \A e \in w.active : ~ IsFree(w, e[1])
      BY <1>5, <3>2 DEF IoOK, WatchOK
    <3>4. es \subseteq Event /\ \A e \in es : ~ IsFree(w, e[1])
      BY <3>3
    <3> HIDE DEF es
    <3>5. PICK F \in SUBSET es : v \in PostAll(w, F)
      BY <3>1 DEF PostSome
    <3>6. F \subseteq Event /\ \A e \in F : ~ IsFree(w, e[1])
      BY <3>4
    <3> HIDE DEF v
    <3>7. Calm(w, v) /\ SameSlots(w, v)
      BY <1>5, <3>5, <3>6, PostAllKeeps
    <3>8. LostOf(v) = LostOf(w) /\ Steady(w, v)
      BY <1>5, <3>7, Frames, SameSlotsSteady DEF Calm, SameConns
    <3>9. QED  BY <1>4, <3>7, <3>8 DEF Calm, Steady
  <2>3. QED  BY <2>1, <2>2
<1> HIDE DEF v
<1>7. IoOK(io)'
  BY <1>1, <1>6 DEF IoOK, FdsOK, KeysOK, SlotsOK, QueuesOK, WatchOK, IsFree, v
<1>8. Matched(io)' /\ NapsOnceShut'
  BY <1>1, <1>6 DEF Matched, BitsMatch, NapsOnceShut, v
<1>9. QED  BY <1>1, <1>5, <1>6, <1>7, <1>8 DEF LoopInv, WaitBounded, LostOf, IsFree, v

\* A step of the queues: no wait is under way, so it is enough to say of the
\* state and of what it lost.
LEMMA StepKeeps ==
  ASSUME LoopInv, backend' = backend, lpc' # "poll",
         NEW v, io' = v, IoOK(v), Steady(io, v),
         errors' \in Nat, IsFiniteSet(LostOf(v)), Cardinality(LostOf(v)) <= errors',
         lpc' \in {"posted", "turn"} => Timely(v),
         lpc' = "turn" => v.queue["now"] = <<>>
  PROVE  LoopInv'
<1>1. IoOK(io)'
  BY DEF IoOK, FdsOK, KeysOK, SlotsOK, QueuesOK, WatchOK, IsFree
<1>2. LostOf(io)' = LostOf(v) /\ (Timely(io)' <=> Timely(v))
  BY DEF LostOf, IsFree, Timely
<1>3. WaitBounded'
  BY DEF WaitBounded
<1>4. Matched(io)' /\ NapsOnceShut'
  BY DEF LoopInv, Steady, Matched, BitsMatch, NapsOnceShut
<1>5. QED  BY <1>1, <1>2, <1>3, <1>4 DEF LoopInv

\* The state keeps its lost connections and, later, its timers.
LEMMA TimelyKept ==
  ASSUME NEW w, NEW v, IoOK(w), Timely(w), KeysLater(w, v)
  PROVE  Timely(v)
BY DEF Timely, KeysLater

\* One accept, or one that fails.
LEMMA AcceptsKeeps ==
  ASSUME LoopInv, Accepts
  PROVE  LoopInv'
<1> DEFINE a == Listening
           w == Unpost(io, a)
<1>1. a \in Event /\ 1 \in Conn
  BY LoopAssumption, EventFacts DEF Listening
<1>2. IoOK(io) /\ backend' = backend /\ lpc = "accepts" /\ lpc' \in {"accepts", "broken"}
      /\ errors \in Nat /\ IsFiniteSet(LostOf(io)) /\ Cardinality(LostOf(io)) <= errors
      /\ Matched(io)
  BY DEF LoopInv, Accepts, Fixed
<1> HIDE DEF a
<1>3. IoOK(w) /\ w.open = io.open /\ w.free = io.free /\ LostOf(w) = LostOf(io)
  BY <1>1, <1>2, UnpostKeeps, Frames DEF SameConns
<1>0. Steady(io, w) /\ Steady(io, io) /\ Matched(w)
  BY <1>2, CallsKeepSlots, SameSlotsSteady DEF Steady
<1>4. \/ io' = w /\ errors' = errors
      \/ io' = io /\ errors' = errors
      \/ \E fd \in Fds \ w.open : w.free # <<>> /\ io' \in HandlerDoes(Accepted(w, fd)) /\ errors' = errors
      \/ \E fd \in Fds \ w.open : w.free # <<>> /\ errors' = errors
                                  /\ io' = Close(Get([w EXCEPT !.open = @ \cup {fd}], fd), Head(w.free))
      \/ errors' = errors + 1 /\ w.free # <<>> /\ io' = Close(Get(w, 0), Head(w.free))
  BY <1>3 DEF Accepts, a
<1> HIDE DEF w
<1>5. ASSUME NEW v, io' = v, IoOK(v), LostOf(v) = LostOf(w), Steady(io, v), errors' = errors
      PROVE  LoopInv'
  BY <1>2, <1>3, <1>5, StepKeeps
<1>6. CASE io' = w /\ errors' = errors
  BY <1>0, <1>3, <1>5, <1>6
<1>7. CASE io' = io /\ errors' = errors
  BY <1>0, <1>2, <1>3, <1>5, <1>7
<1>8. ASSUME NEW fd \in Fds \ w.open, w.free # <<>>, io' \in HandlerDoes(Accepted(w, fd)), errors' = errors
      PROVE  LoopInv'
  <2> DEFINE u == Accepted(w, fd)  v == io'
  <2>1. IoOK(u) /\ LostOf(u) = LostOf(w) /\ Steady(w, u) /\ Matched(u)
    BY <1>0, <1>3, <1>8, AcceptedKeeps, AcceptedSteady DEF Steady
  <2>2. v \in HandlerDoes(u)
    BY <1>8
  <2> HIDE DEF u
  <2>3. IoOK(v) /\ LostOf(v) = LostOf(w) /\ Steady(io, v)
    BY <1>0, <2>1, <2>2, HandlerKeeps, HandlerSteady, SteadyOn
  <2>4. QED  BY <1>5, <1>8, <2>3
<1>9. ASSUME NEW fd \in Fds \ w.open, w.free # <<>>, errors' = errors,
             io' = Close(Get([w EXCEPT !.open = @ \cup {fd}], fd), Head(w.free))
      PROVE  LoopInv'
  <2> DEFINE o == [w EXCEPT !.open = @ \cup {fd}]  g == Get(o, fd)  c == Head(w.free)  v == Close(g, c)
  <2>1. /\ IoOK(o) /\ LostOf(o) = LostOf(w) /\ o.free = w.free
        /\ fd \in Nat /\ fd # 0 /\ fd \in o.open /\ \A d \in Conn : o.fd[d] # fd
        /\ Steady(w, o) /\ Matched(o)
    BY <1>0, <1>3, <1>9, AcceptedKeeps, AcceptedSteady DEF Steady
  <2> HIDE DEF o
  <2>2. IoOK(g) /\ c \in Conn /\ LostOf(g) = LostOf(o) /\ Steady(o, g) /\ Matched(g)
    BY <1>9, <2>1, GetKeeps, GetSteady DEF Steady
  <2> HIDE DEF g, c
  <2>3. IoOK(v) /\ LostOf(v) = LostOf(g) /\ Steady(io, v)
    BY <1>0, <2>1, <2>2, CloseKeeps, CloseSteady, SteadyOn
  <2>4. io' = v
    BY <1>9 DEF o, g, c
  <2>5. QED  BY <1>5, <1>9, <2>1, <2>2, <2>3, <2>4
<1>10. CASE errors' = errors + 1 /\ w.free # <<>> /\ io' = Close(Get(w, 0), Head(w.free))
  <2> DEFINE v == Get(w, 0)  c == Head(w.free)
  <2>1. IoOK(v) /\ c \in Conn /\ v.fd[c] = 0 /\ LostOf(v) = LostOf(w) \cup {c}
    BY <1>3, <1>10, GetKeeps
  <2>6. Steady(io, v)
    BY <1>0, <1>3, <1>10, GetSteady, SteadyOn
  <2> HIDE DEF v, c
  <2>2. io' = v
    BY <1>10, <2>1 DEF Close, v, c
  <2>3. /\ IsFiniteSet(LostOf(v)) /\ Cardinality(LostOf(w)) \in Nat
        /\ \/ Cardinality(LostOf(v)) = Cardinality(LostOf(w))
           \/ Cardinality(LostOf(v)) = Cardinality(LostOf(w)) + 1
    BY <1>2, <1>3, <2>1, FS_AddElement, FS_CardinalityType
  <2>4. errors' \in Nat /\ Cardinality(LostOf(v)) <= errors'
    BY <1>2, <1>3, <1>10, <2>3
  <2>5. QED  BY <1>2, <2>1, <2>2, <2>3, <2>4, <2>6, StepKeeps
<1>11. QED  BY <1>4, <1>6, <1>7, <1>8, <1>9, <1>10

\* The first timer expires, and its handler runs.
LEMMA ExpireKeeps ==
  ASSUME LoopInv, Expire
  PROVE  LoopInv'
<1>1. /\ IoOK(io) /\ backend' = backend /\ lpc = "expire" /\ lpc' = "expire" /\ errors' = errors
      /\ errors \in Nat /\ IsFiniteSet(LostOf(io)) /\ Cardinality(LostOf(io)) <= errors
      /\ Matched(io)
  BY DEF LoopInv, Expire, Fixed
<1>2. PICK e \in Due(io) : io' \in HandlerDoes(DelTimer(io, e))
  BY DEF Expire
<1> DEFINE w == DelTimer(io, e)  v == io'
<1>3. e \in Event
  BY <1>2 DEF Due, Timers
<1>4. IoOK(w) /\ LostOf(w) = LostOf(io) /\ Steady(io, w) /\ Matched(w)
  BY <1>1, <1>3, DelTimerKeeps, CallsKeepSlots, SameSlotsSteady, Frames DEF SameConns, Steady
<1>5. v \in HandlerDoes(w)
  BY <1>2
<1> HIDE DEF w
<1>6. IoOK(v) /\ LostOf(v) = LostOf(w) /\ Steady(io, v)
  BY <1>4, <1>5, HandlerKeeps, HandlerSteady, SteadyOn
<1>7. QED  BY <1>1, <1>4, <1>6, StepKeeps

\* The first posted event is taken out, and its handler runs.
LEMMA PostedKeeps ==
  ASSUME LoopInv, Posted
  PROVE  LoopInv'
<1> DEFINE e == Head(io.queue["now"])  w == Unpost(io, e)  v == io'
<1>1. /\ IoOK(io) /\ backend' = backend /\ lpc = "posted" /\ lpc' = "posted" /\ errors' = errors
      /\ Timely(io) /\ io.queue["now"] # <<>> /\ v \in HandlerDoes(w)
      /\ errors \in Nat /\ IsFiniteSet(LostOf(io)) /\ Cardinality(LostOf(io)) <= errors
      /\ Matched(io)
  BY DEF LoopInv, Posted, Fixed
<1>2. e \in Event
  <2>1. io.queue["now"] \in Seq(Event)
    BY <1>1 DEF IoOK, QueuesOK, Waiting
  <2>2. QED  BY <1>1, <2>1
<1> HIDE DEF e
<1>3. IoOK(w) /\ LostOf(w) = LostOf(io) /\ Timely(w)
  BY <1>1, <1>2, UnpostKeeps, TimelyKept, Frames DEF SameConns
<1>6. Steady(io, w) /\ Matched(w)
  BY <1>1, CallsKeepSlots, SameSlotsSteady DEF Steady
<1> HIDE DEF w
<1>4. IoOK(v) /\ LostOf(v) = LostOf(w) /\ Timely(v) /\ Steady(io, v)
  BY <1>1, <1>3, <1>6, HandlerKeeps, HandlerSteady, SteadyOn, TimelyKept
<1>5. QED  BY <1>1, <1>3, <1>4, StepKeeps

\* A queue is at its end.  When no timer is due, none is overdue.
LEMMA QueueDoneKeeps ==
  ASSUME LoopInv, QueueDone
  PROVE  LoopInv'
<1>1. /\ IoOK(io) /\ backend' = backend /\ io' = io /\ errors' = errors
      /\ errors \in Nat /\ IsFiniteSet(LostOf(io)) /\ Cardinality(LostOf(io)) <= errors
      /\ Steady(io, io)
  BY DEF LoopInv, QueueDone, Fixed, Steady
<1>2. \/ lpc' = "expire"
      \/ lpc' = "posted" /\ Due(io) = {}
      \/ lpc' = "turn" /\ lpc = "posted" /\ io.queue["now"] = <<>>
  BY DEF QueueDone
<1>3. CASE lpc' = "expire"
  BY <1>1, <1>3, StepKeeps
<1>4. CASE lpc' = "posted" /\ Due(io) = {}
  <2>1. ASSUME NEW e \in Event, io.key[e] # 0  PROVE io.key[e] >= io.now
    <3>1. e \in Timers(io)
      BY <2>1 DEF Timers
    <3>2. PICK l \in Timers(io) : LeastOf(io) = io.key[l]
      BY <1>1, <3>1, LeastIs
    <3>3. LeastOf(io) <= io.key[e]
      BY <1>1, <3>1, LeastIs
    <3>4. ~ (io.key[l] <= io.now)
      BY <1>4, <3>2 DEF Due
    <3>5. io.key[l] \in Nat /\ io.key[e] \in Nat /\ io.now \in Nat
      BY <1>1, <3>1, <3>2 DEF IoOK, KeysOK, Timers
    <3>6. QED  BY <3>2, <3>3, <3>4, <3>5
  <2>2. Timely(io)
    BY <2>1 DEF Timely
  <2>3. QED  BY <1>1, <1>4, <2>2, StepKeeps
<1>5. CASE lpc' = "turn" /\ lpc = "posted" /\ io.queue["now"] = <<>>
  <2>1. Timely(io)
    BY <1>5 DEF LoopInv
  <2>2. QED  BY <1>1, <1>5, <2>1, StepKeeps
<1>6. QED  BY <1>2, <1>3, <1>4, <1>5

\* The listening connection is closed between two turns.
LEMMA ListeningClosesKeeps ==
  ASSUME LoopInv, ListeningCloses
  PROVE  LoopInv'
<1> DEFINE a == Listening
           w == IF a \in io.active THEN DelEvent(io, a) ELSE io
           v == Close(w, 1)
<1>1. a \in Event /\ a[1] = 1 /\ 1 \in Conn
  BY LoopAssumption, EventFacts DEF Listening
<1>2. /\ IoOK(io) /\ backend' = backend /\ lpc = "turn" /\ lpc' = "turn" /\ errors' = errors
      /\ Timely(io) /\ io.queue["now"] = <<>> /\ io.fd[1] # 0 /\ io' = v
      /\ errors \in Nat /\ IsFiniteSet(LostOf(io)) /\ Cardinality(LostOf(io)) <= errors
      /\ Matched(io)
  BY DEF LoopInv, ListeningCloses, Fixed
<1>3. ~ IsFree(io, 1)
  BY <1>1, <1>2 DEF IoOK, FdsOK
<1> HIDE DEF a
<1>4. IoOK(w) /\ LostOf(w) = LostOf(io) /\ Timely(w) /\ w.queue["now"] = <<>>
  <2>1. CASE w = io
    BY <1>2, <2>1
  <2>2. CASE w = DelEvent(io, a)
    <3>1. Calm(io, w) /\ w.queue = io.queue
      BY <1>1, <1>2, <1>3, <2>2, WatchingIsCalm
    <3>2. QED  BY <1>2, <3>1, TimelyKept, Frames DEF Calm, SameConns
  <2>3. QED  BY <2>1, <2>2
<1>7. Steady(io, w) /\ Matched(w)
  <2>1. CASE w = io
    BY <1>2, <2>1 DEF Steady
  <2>2. CASE w = DelEvent(io, a)
    BY <1>1, <1>2, <2>2, WatchingSteady DEF Steady
  <2>3. QED  BY <2>1, <2>2
<1> HIDE DEF w
<1>5. /\ IoOK(v) /\ LostOf(v) = LostOf(w) /\ Timely(v) /\ v.queue["now"] = <<>>
      /\ Steady(io, v)
  BY <1>1, <1>4, <1>7, CloseKeeps, CloseSteady, SteadyOn, TimelyKept
<1>6. QED  BY <1>2, <1>4, <1>5, StepKeeps

LEMMA LoopInvStep == LoopInv /\ [LoopNext]_loopVars => LoopInv'
<1> SUFFICES ASSUME LoopInv, [LoopNext]_loopVars  PROVE LoopInv'
  OBVIOUS
<1>1. CASE Turn
  BY <1>1, TurnKeeps
<1>2. CASE Poll
  BY <1>2, PollKeeps
<1>3. CASE Accepts
  BY <1>3, AcceptsKeeps
<1>4. CASE Expire
  BY <1>4, ExpireKeeps
<1>5. CASE Posted
  BY <1>5, PostedKeeps
<1>6. CASE QueueDone
  BY <1>6, QueueDoneKeeps
<1>7. CASE ListeningCloses
  BY <1>7, ListeningClosesKeeps
<1>8. CASE UNCHANGED loopVars
  <2>1. /\ lpc' = lpc /\ backend' = backend /\ io' = io /\ errors' = errors /\ wait' = wait
    BY <1>8 DEF loopVars
  <2>2. IoOK(io)' /\ LostOf(io)' = LostOf(io) /\ (Timely(io)' <=> Timely(io))
        /\ (WaitBounded' <=> WaitBounded) /\ Matched(io)' /\ NapsOnceShut'
    BY <2>1 DEF LoopInv, Matched, BitsMatch, NapsOnceShut, IoOK, FdsOK, KeysOK, SlotsOK, QueuesOK, WatchOK, IsFree, LostOf, Timely,
                WaitBounded, Timers
  <2>3. QED  BY <2>1, <2>2 DEF LoopInv
<1>9. QED  BY <1>1, <1>2, <1>3, <1>4, <1>5, <1>6, <1>7, <1>8 DEF LoopNext

\* A sequence without a member twice has as many members as places.
LEMMA OnceEach ==
  ASSUME NEW S, NEW s \in Seq(S), \A i, j \in 1 .. Len(s) : s[i] = s[j] => i = j
  PROVE  Cardinality(InSeq(s)) = Len(s)
<1>1. Len(s) \in Nat /\ IsFiniteSet(1 .. Len(s)) /\ Cardinality(1 .. Len(s)) = Len(s)
  <2>1. Len(s) \in Nat
    OBVIOUS
  <2>2. /\ IsFiniteSet(1 .. Len(s))
        /\ Cardinality(1 .. Len(s)) = IF 1 > Len(s) THEN 0 ELSE Len(s) - 1 + 1
    <3>1. 1 \in Int /\ Len(s) \in Int
      BY <2>1
    <3>2. QED  BY <3>1, FS_Interval, Zenon
  <2>3. QED  BY <2>1, <2>2
<1> DEFINE f == [i \in 1 .. Len(s) |-> s[i]]
<1>2. f \in [1 .. Len(s) -> InSeq(s)]
  BY DEF InSeq
<1>3. \A i, j \in 1 .. Len(s) : f[i] = f[j] => i = j
  OBVIOUS
<1>4. \A y \in InSeq(s) : \E i \in 1 .. Len(s) : f[i] = y
  BY DEF InSeq
<1> HIDE DEF f
<1>5. f \in Bijection(1 .. Len(s), InSeq(s))
  BY <1>2, <1>3, <1>4 DEF Bijection, Injection, Surjection, IsInjective
<1>6. ExistsBijection(1 .. Len(s), InSeq(s))
  BY <1>5 DEF ExistsBijection
<1>7. QED  BY <1>1, <1>6, FS_Bijection, Zenon

LEMMA LoopInvSound == LoopInv => LoopSound
<1> SUFFICES ASSUME LoopInv  PROVE LoopSound
  OBVIOUS
<1>1. IoOK(io) /\ WaitBounded /\ NapsOnceShut /\ Cardinality(LostOf(io)) <= errors
  BY DEF LoopInv
<1>2. Accounted
  <2>1. {c \in Conn : io.fd[c] = 0 /\ c \notin InSeq(io.free)} = LostOf(io)
    BY DEF LostOf, IsFree
  <2>2. io.free \in Seq(Conn) /\ \A i, j \in 1 .. Len(io.free) : io.free[i] = io.free[j] => i = j
    BY <1>1 DEF IoOK, FdsOK
  <2>3. Cardinality(InSeq(io.free)) = Len(io.free)
    BY <2>2, OnceEach
  <2>4. InSeq(io.free) \subseteq Conn
    BY <2>2 DEF InSeq
  <2>5. \A c \in InSeq(io.free) : io.fd[c] = 0
    BY <1>1, <2>4 DEF IoOK, FdsOK, IsFree
  <2>6. \A c, d \in Conn : c # d /\ io.fd[c] # 0 => io.fd[c] # io.fd[d]
    BY <1>1 DEF IoOK, FdsOK
  <2>7. QED  BY <1>1, <2>1, <2>3, <2>5, <2>6 DEF Accounted
<1>3. ASSUME NEW c \in InSeq(io.free), NEW e \in Both(c)
      PROVE  /\ e \notin Timers(io)
             /\ backend = "epoll" =>
                  /\ e \notin io.active /\ e \notin UNION {InSeq(io.queue[q]) : q \in DOMAIN io.queue}
                  /\ \A r \in io.interest : r.conn # c
  <2>1. c \in Conn /\ IsFree(io, c) /\ io.fd[c] = 0
    BY <1>1, <1>3 DEF IoOK, FdsOK, IsFree, InSeq
  <2>2. e \in Event /\ e[1] = c
    <3>1. e \in Event
      BY <1>3, <2>1 DEF Both, Event
    <3>2. QED  BY <1>3, <2>1, <3>1, EventFacts
  <2>3. e \notin Timers(io)
    BY <1>1, <2>1, <2>2 DEF Timers, IoOK, KeysOK
  <2>4. ASSUME backend = "epoll"
        PROVE  /\ e \notin io.active /\ \A r \in io.interest : r.conn # c
               /\ \A q \in DOMAIN io.queue : e \notin InSeq(io.queue[q])
    <3>1. e \notin io.active /\ \A r \in io.interest : r.conn # c
      BY <1>1, <2>1, <2>2, <2>4 DEF IoOK, WatchOK
    <3>2. DOMAIN io.queue = Waiting /\ \A q \in Waiting : \A i \in 1 .. Len(io.queue[q]) :
            ~ IsFree(io, io.queue[q][i][1])
      BY <1>1, <2>4 DEF IoOK, QueuesOK
    <3>3. QED  BY <2>1, <2>2, <3>1, <3>2 DEF InSeq
  <2>5. QED  BY <2>3, <2>4
<1>4. QuietWhenFree
  BY <1>3 DEF QuietWhenFree
<1>5. QED  BY <1>1, <1>2, <1>4 DEF LoopSound, ConnsSound

\* Whatever the handlers do, with any number of connections, descriptors and
\* timers, the connections stay sound and the loop oversleeps nothing, but for
\* the one sleep of select once a connection was closed (event_connection,
\* event_timer, process_event_and_timers, select_process_events).
THEOREM LoopIsSound == LoopInit /\ [][LoopNext]_loopVars => []LoopSound
<1>1. LoopInit => LoopInv
  BY LoopInvInit
<1>2. LoopInv /\ [LoopNext]_loopVars => LoopInv'
  BY LoopInvStep
<1>3. LoopInv => LoopSound
  BY LoopInvSound
<1>4. QED  BY <1>1, <1>2, <1>3, PTL
=============================================================================
