-------------------------------- MODULE Sockets -------------------------------
(***************************************************************************)
(* The handlers of inet_socket.cpp, through which a node speaks to the     *)
(* management server and to nginx: a descriptor, the addresses of a name   *)
(* (inet_parse.cpp), and TLS over it.  One handler at a time, used as the  *)
(* node's callers do: new, connect, send, select and recv in turns, and    *)
(* then delete it, connect it again, or forget it.                         *)
(***************************************************************************)
EXTENDS Naturals, Sequences, FiniteSets

CONSTANTS
  Addresses,    \* of each name, those it has; of the empty name, none
  Api,          \* what is connected to: records [tls, host]
  NginxSocket,  \* the path of nginx's unix socket
  SocketFd,     \* descriptors there are
  RequestSize,  \* bytes of a request
  MaxConnects,  \* bound: connects
  MaxWire       \* bound: what is on its way to the node

VARIABLES
  step,      \* where the caller is
  handler,   \* the tag_socket
  api,       \* what was connected to last
  rounds,    \* connects of this handler
  peer,      \* of each descriptor: Closed, Unbound or the address it is connected to
  reply,     \* what the last call returned: "ok", "failed", or "code", a number of an error
  gave,      \* bytes of the request the kernel has taken
  wire,      \* what came in: pieces of data and, with TLS, tickets
  layer,     \* decrypted pieces that were not read
  shut,      \* the peer has closed
  lostFds,   \* history: descriptors nobody will close
  lostTls,   \* history: TLS objects nobody will free
  slips,     \* history: connects of a used handler, and handlers forgotten
  connects   \* history: all connects

lossVars   == <<lostFds, lostTls, slips, connects>>
streamed   == <<wire, layer, shut>>
socketVars == <<step, handler, api, rounds, peer, reply, gave, streamed, lossVars>>

Closed  == "closed"
Unbound == "unbound"
NoFd    == 0
Address == STRING \ {Closed, Unbound}

ASSUME SocketAssumption ==
  /\ Api # {} /\ \A a \in Api : a.tls \in BOOLEAN /\ Addresses[a.host] \in Seq(Address)
  /\ NginxSocket \in Address /\ SocketFd \subseteq Nat \ {NoFd}
  /\ RequestSize \in Nat \ {0} /\ MaxConnects \in Nat /\ MaxWire \in Nat

NoHandler == [family |-> "none", fd |-> NoFd, addrs |-> <<>>, at |-> 0,
              ssl_on |-> FALSE, tls |-> "none", pending |-> FALSE]

SocketsInit ==
  /\ step = "none" /\ handler = NoHandler
  /\ api = CHOOSE a \in Api : TRUE
  /\ rounds = 0 /\ peer = [f \in SocketFd |-> Closed]
  /\ reply = "ok" /\ gave = 0
  /\ wire = <<>> /\ layer = 0 /\ shut = FALSE
  /\ lostFds = {} /\ lostTls = 0 /\ slips = 0 /\ connects = 0

Linked(h) == h.fd # NoFd /\ peer[h.fd] # Unbound
Used(h)   == IF h.fd = NoFd THEN {} ELSE {h.fd}
Spoilt(h) == IF h.tls \in {"none", "junk"} THEN 0 ELSE 1
-----------------------------------------------------------------------------
\* inet_socket_new: whether TLS is on, and its objects, are what the memory
\* held before.
NewSocket(family) ==
  /\ step = "none" /\ connects < MaxConnects
  /\ \E on \in BOOLEAN, tls \in {"none", "junk"} :
       handler' = [NoHandler EXCEPT !.family = family, !.ssl_on = on, !.tls = tls]
  /\ step' = "new" /\ rounds' = 0
  /\ UNCHANGED <<api, peer, reply, gave, streamed, lossVars>>

\* inet_socket::init: a descriptor in the place of the one before, TLS off;
\* without one the rest stays as it was, and nobody looks.
InitSocketKeeps(h) ==
  {[h EXCEPT !.fd = f, !.ssl_on = FALSE] : f \in {f \in SocketFd : peer[f] = Closed}}
  \union {[h EXCEPT !.fd = NoFd]}
InitSocket(h) ==
  {[h EXCEPT !.fd = f, !.ssl_on = FALSE, !.pending = FALSE] : f \in {f \in SocketFd : peer[f] = Closed}}
  \union {[h EXCEPT !.fd = NoFd]}

\* nslookup adds the addresses of the name behind those of an earlier one.
Named(h, a) ==
  IF h.family = "unix" THEN [h EXCEPT !.addrs = <<NginxSocket>>, !.at = 1]
  ELSE [h EXCEPT !.addrs = @ \o Addresses[a.host], !.at = 1, !.ssl_on = @ \/ a.tls]

\* inet_socket_connect, called on a new handler or, after a redirect or an
\* answer that cannot be parsed, on the same one.
Connects(a) ==
  /\ \/ step = "new"
     \/ step = "parses" /\ handler.family = "tcp"
  /\ connects < MaxConnects
  /\ \E h \in InitSocket(handler) :
       /\ handler' = Named(h, a)
       /\ peer' = IF h.fd = NoFd THEN peer ELSE [peer EXCEPT ![h.fd] = Unbound]
  /\ step' = "tries" /\ api' = a /\ reply' = "ok"
  /\ rounds' = rounds + 1 /\ connects' = connects + 1
  /\ slips' = IF step = "new" THEN slips ELSE slips + 1
  /\ lostFds' = lostFds \union Used(handler)
  /\ gave' = 0 /\ wire' = <<>> /\ layer' = 0 /\ shut' = FALSE
  /\ UNCHANGED lostTls

\* inet_socket::connect, one address after the other until one answers.
TriesAddress ==
  /\ step = "tries" /\ handler.at <= Len(handler.addrs) /\ ~Linked(handler)
  /\ \/ /\ handler.fd # NoFd
        /\ peer' = [peer EXCEPT ![handler.fd] = handler.addrs[handler.at]]
        /\ reply' = "ok" /\ UNCHANGED handler
     \/ /\ handler' = [handler EXCEPT !.at = @ + 1] /\ reply' = "failed"
        /\ UNCHANGED peer
  /\ UNCHANGED <<step, api, rounds, gave, streamed, lossVars>>

TriedAll ==
  /\ step = "tries" /\ (Linked(handler) \/ handler.at > Len(handler.addrs))
  /\ step' = IF handler.ssl_on /\ handler.family = "tcp" THEN "handshake" ELSE "connected"
  /\ UNCHANGED <<handler, api, rounds, peer, reply, gave, streamed, lossVars>>

\* init_ssl writes over the objects of an earlier connect; a session may be
\* missing beside its context, and a handshake that failed is noticed here
\* only.
Handshakes ==
  /\ step = "handshake" /\ step' = "connected"
  /\ lostTls' = lostTls + Spoilt(handler)
  /\ \E tls \in {"none", "context"} \union (IF Linked(handler) THEN {"up", "down"} ELSE {}) :
       handler' = [handler EXCEPT !.tls = tls]
  /\ UNCHANGED <<api, rounds, peer, reply, gave, streamed, lostFds, slips, connects>>

\* What a caller does with what connect or send returned: -1 is a failure,
\* and anything else is not.
CallerDecides ==
  /\ \/ step = "connected" /\ step' = (IF reply = "failed" THEN "gives up" ELSE "sends")
     \/ step = "sent" /\ step' = (IF reply = "failed" THEN "gives up" ELSE "waits")
  /\ UNCHANGED <<handler, api, rounds, peer, reply, gave, streamed, lossVars>>
-----------------------------------------------------------------------------
\* send_tcp: pieces until all is sent or one fails.
SendsTcp ==
  /\ step = "sends" /\ ~handler.ssl_on
  /\ \/ /\ Linked(handler) /\ gave < RequestSize
        /\ gave' \in gave + 1 .. RequestSize /\ UNCHANGED <<step, reply>>
     \/ gave = RequestSize /\ step' = "sent" /\ reply' = "ok" /\ UNCHANGED gave
     \/ gave < RequestSize /\ step' = "sent" /\ reply' = "failed" /\ UNCHANGED gave
  /\ UNCHANGED <<handler, api, rounds, peer, streamed, lossVars>>

\* send_ssl: all of it or, from a session that fails, an error number or 0.
SendsTls ==
  /\ step = "sends" /\ handler.ssl_on /\ step' = "sent"
  /\ \/ handler.fd # NoFd /\ handler.tls = "up" /\ gave' = RequestSize /\ reply' = "ok"
     \/ handler.fd # NoFd /\ handler.tls \in {"up", "down"} /\ reply' = "code" /\ UNCHANGED gave
     \/ (handler.fd = NoFd \/ handler.tls \in {"none", "context"}) /\ reply' = "failed" /\ UNCHANGED gave
  /\ UNCHANGED <<handler, api, rounds, peer, streamed, lossVars>>

\* inet_socket_select, which asks nobody when TLS holds more.  A signal while
\* nothing is there makes it return -1, and the callers, who look for 0 only,
\* go on to recv as if something were.
Selects ==
  /\ step = "waits"
  /\ \/ handler.ssl_on /\ handler.pending /\ step' = "ready"
     \/ /\ ~(handler.ssl_on /\ handler.pending)
        /\ IF wire # <<>> \/ shut THEN step' = "ready"
           ELSE step' \in {"parses", "interrupted"}              \* a second went by, or a signal came
  /\ UNCHANGED <<handler, api, rounds, peer, reply, gave, streamed, lossVars>>

\* recv_tcp, which waits for data, the end or another signal.  Some callers
\* parse after every piece and others when a second brought none; a 0 is the
\* end for some, and others select again.
ReadsTcp ==
  /\ step \in {"ready", "interrupted"} /\ ~handler.ssl_on
  /\ \/ wire # <<>> /\ wire' = Tail(wire) /\ step' \in {"waits", "parses"}
     \/ wire = <<>> /\ shut /\ step' \in {"waits", "parses"} /\ UNCHANGED wire
     \/ step' \in {"parses", "gives up"} /\ UNCHANGED wire                  \* -1
  /\ UNCHANGED <<handler, api, rounds, peer, reply, gave, layer, shut, lossVars>>

\* recv_ssl.  SSL_read waits for data: a ticket that comes first is no data.
ReadsTls ==
  /\ step \in {"ready", "interrupted", "inside"} /\ handler.ssl_on
  /\ \/ /\ layer > 0 /\ layer' = layer - 1
        /\ handler' = [handler EXCEPT !.pending = layer' > 0]
        /\ step' \in {"waits", "parses"} /\ UNCHANGED wire
     \/ /\ layer = 0 /\ wire # <<>> /\ wire' = Tail(wire)
        /\ \/ Head(wire) = "ticket" /\ step' = "inside" /\ UNCHANGED <<handler, layer>>
           \/ /\ Head(wire) = "data" /\ layer' \in 0..1
              /\ handler' = [handler EXCEPT !.pending = layer' > 0]
              /\ step' \in {"waits", "parses"}
     \/ /\ layer = 0 /\ wire = <<>> /\ shut
        /\ handler' = [handler EXCEPT !.pending = FALSE]
        /\ step' \in {"waits", "parses", "gives up"} /\ UNCHANGED <<wire, layer>>
     \/ /\ handler.tls = "down" \/ layer = 0                               \* a reset, another signal
        /\ handler' = [handler EXCEPT !.pending = FALSE]
        /\ step' \in {"parses", "gives up"} /\ UNCHANGED <<wire, layer>>
  /\ UNCHANGED <<api, rounds, peer, reply, gave, shut, lossVars>>

\* inet_socket_delete; objects that are not there are released too when TLS
\* was on by accident.
Deletes ==
  /\ step \in {"parses", "gives up"}
  /\ IF handler.ssl_on /\ handler.tls = "junk" THEN step' = "crashed" /\ UNCHANGED <<handler, peer, lostTls>>
     ELSE /\ step' = "none" /\ handler' = NoHandler
          /\ peer' = [f \in SocketFd |-> IF f = handler.fd THEN Closed ELSE peer[f]]
          /\ lostTls' = IF handler.ssl_on THEN lostTls ELSE lostTls + Spoilt(handler)
  /\ UNCHANGED <<api, rounds, reply, gave, streamed, lostFds, slips, connects>>

\* A caller that returns after a recv of -1 without deleting; these callers
\* had seen all of the request sent.
Forgets ==
  /\ step = "gives up" /\ gave = RequestSize
  /\ step' = "none" /\ handler' = NoHandler
  /\ lostFds' = lostFds \union Used(handler) /\ lostTls' = lostTls + Spoilt(handler)
  /\ slips' = slips + 1
  /\ UNCHANGED <<api, rounds, peer, reply, gave, streamed, connects>>

\* The other end: external.
PeerDoes ==
  /\ handler.fd # NoFd /\ Linked(handler) /\ ~shut
  /\ step \notin {"tries", "handshake"}
  /\ \/ Len(wire) < MaxWire /\ wire' = Append(wire, "data") /\ UNCHANGED shut
     \/ handler.ssl_on /\ Len(wire) < MaxWire /\ wire' = Append(wire, "ticket") /\ UNCHANGED shut
     \/ shut' = TRUE /\ UNCHANGED wire
  /\ UNCHANGED <<step, handler, api, rounds, peer, reply, gave, layer, lossVars>>

SocketsNext ==
  \/ \E family \in {"tcp", "unix"} : NewSocket(family)
  \/ \E a \in Api : Connects(a)
  \/ TriesAddress \/ TriedAll \/ Handshakes \/ CallerDecides \/ SendsTcp \/ SendsTls
  \/ Selects \/ ReadsTcp \/ ReadsTls \/ Deletes \/ Forgets \/ PeerDoes

SocketsSpec == SocketsInit /\ [][SocketsNext]_socketVars
-----------------------------------------------------------------------------
\* A connect that succeeds is to an address of its name the first time, to
\* one of an earlier name too after that; a name without addresses succeeds
\* and is connected to nothing (inet_socket.cpp:229-312).
ConnectsRight ==
  step = "connected" /\ reply = "ok" /\ handler.family = "tcp" =>
    /\ Linked(handler) => \E i \in DOMAIN handler.addrs : peer[handler.fd] = handler.addrs[i]
    /\ rounds = 1 => handler.addrs = Addresses[api.host]
    /\ ~Linked(handler) => handler.addrs = <<>>

\* What goes out of an https request goes through TLS, and of another not; a
\* send over TCP that does not fail has given all of it to the kernel
\* (inet_socket.cpp:331-355, 391-439, 495-499).
SendsRight ==
  /\ gave > 0 /\ step \in {"sends", "sent", "waits", "ready", "interrupted", "inside", "parses"} =>
       /\ handler.family = "tcp" => (api.tls <=> handler.ssl_on)
       /\ handler.ssl_on => handler.tls = "up"
  /\ step \in {"waits", "ready", "interrupted"} =>
       \/ gave = RequestSize /\ Linked(handler)
       \/ reply = "code" /\ handler.ssl_on

\* Unless a signal came while it waited for a select, a caller enters recv
\* only when there is something to return, and TLS is asked for more only while
\* it holds more: nobody waits without the second's limit except behind a
\* ticket or that signal (inet_socket.cpp:358-388, 514-549).
WaitsRight ==
  /\ step = "ready" => wire # <<>> \/ layer > 0 \/ shut
  /\ handler.pending /\ handler.fd # NoFd => handler.ssl_on /\ layer > 0

\* Every open descriptor is the handler's or lost, every loss comes from a
\* handler that was connected again or forgotten, and only the delete of a
\* unix handler without a descriptor may touch memory it does not own.
ClosesRight ==
  /\ {f \in SocketFd : peer[f] # Closed} = lostFds \union Used(handler)
  /\ Used(handler) \cap lostFds = {}
  /\ Cardinality(lostFds) <= slips /\ lostTls <= slips
  /\ step = "crashed" => handler.family = "unix" /\ handler.fd = NoFd

SocketsSound == ConnectsRight /\ SendsRight /\ WaitsRight /\ ClosesRight
=============================================================================
