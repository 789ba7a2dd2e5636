--------------------------- MODULE Uploads_proofs ---------------------------
(***************************************************************************)
(* Proofs about what leaves the node: how a handler is connected, whatever *)
(* names, addresses and descriptors there are, and how the logs are read   *)
(* and their delivery is taken for done.                                   *)
(***************************************************************************)
EXTENDS Sockets, Upload, FiniteSetTheorems, WellFoundedInduction, TLAPS

\* A set of numbers has a least member.
LEMMA LeastMember ==
  ASSUME NEW T, T \subseteq Nat, T # {}
  PROVE  \E x \in T : \A y \in T : x <= y
<1>1. IsWellFoundedOn(OpToRel(<, Nat), Nat)
  BY NatLessThanWellFounded
<1>2. PICK x \in T : \A y \in T : ~ (<<y, x>> \in OpToRel(<, Nat))
  BY <1>1, WFMin
<1>3. \A y \in T : x <= y
  <2>1. ASSUME NEW y \in T  PROVE x <= y
    <3>1. ~ (y < x)
      BY <1>2 DEF OpToRel
    <3>2. QED  BY <3>1
  <2>2. QED  BY <2>1
<1>4. QED  BY <1>3

(*****************************************************************************)
(* Sockets: how a handler is connected.                                      *)
(*****************************************************************************)

Steps_   == {"none", "new", "tries", "handshake", "connected", "sends", "sent", "waits",
             "ready", "interrupted", "inside", "parses", "gives up", "crashed"}
Pieces   == {"data", "ticket"}
Handlers == [family : {"none", "tcp", "unix"}, fd : SocketFd \cup {NoFd}, addrs : Seq(Address), at : Nat,
             ssl_on : BOOLEAN, tls : {"none", "junk", "context", "up", "down"}, pending : BOOLEAN]

SocketTypes ==
  /\ step \in Steps_ /\ handler \in Handlers /\ api \in Api
  /\ peer \in [SocketFd -> Address \cup {Closed, Unbound}]
  /\ reply \in {"ok", "failed", "code"}
  /\ {rounds, gave, layer, lostTls, slips, connects} \subseteq Nat
  /\ wire \in Seq(Pieces) /\ shut \in BOOLEAN

\* From the call of connect on, and once it has returned.
Tried == {"tries", "handshake", "connected", "sends", "sent", "waits",
          "ready", "interrupted", "inside", "parses", "gives up"}
Ended == Tried \ {"tries", "handshake"}

\* Where the addresses come from and which of them is tried.
AddrsOK ==
  /\ step = "new" => handler.addrs = <<>> /\ rounds = 0
  /\ step \in Tried => rounds >= 1
  /\ step \in Tried /\ handler.family = "tcp" /\ rounds = 1 => handler.addrs = Addresses[api.host]
  /\ step = "tries" =>
       /\ handler.at >= 1 /\ (reply = "ok" /\ ~Linked(handler) => handler.at = 1)
       /\ reply \in {"ok", "failed"}
  /\ step \in {"tries", "handshake", "connected"} /\ Linked(handler) =>
       \E i \in DOMAIN handler.addrs : peer[handler.fd] = handler.addrs[i]
  /\ step \in {"handshake", "connected"} /\ reply = "ok" /\ ~Linked(handler) => handler.addrs = <<>>

\* What TLS of the handler is at each point.
TlsOK ==
  /\ step = "none" => handler = NoHandler
  /\ step # "none" => handler.family \in {"tcp", "unix"}
  /\ step = "new" => handler.tls \in {"none", "junk"} /\ ~handler.pending /\ handler.fd = NoFd
  /\ handler.family = "unix" => handler.tls \in {"none", "junk"}
  /\ step = "handshake" => handler.family = "tcp" /\ handler.ssl_on
  /\ step \in Tried /\ handler.fd # NoFd =>
       handler.ssl_on = (handler.family = "tcp" /\ api.tls)
  /\ step \in Ended /\ handler.family = "tcp" /\ handler.ssl_on =>
       /\ handler.tls # "junk"
       /\ handler.tls \in {"up", "down"} => Linked(handler)
  /\ handler.pending /\ handler.fd # NoFd => handler.ssl_on /\ layer > 0

\* What went out, and what the last call said of it.
SentOK ==
  /\ step \in Tried => gave <= RequestSize
  /\ step \in {"tries", "handshake", "connected"} => gave = 0
  /\ step \in Tried /\ gave > 0 => Linked(handler) /\ (handler.ssl_on => handler.tls = "up")
  /\ step = "sent" => \/ reply = "failed"
                      \/ reply = "ok" /\ gave = RequestSize
                      \/ reply = "code" /\ handler.ssl_on /\ handler.fd # NoFd
  /\ step \in {"waits", "ready", "interrupted", "inside"} =>
       \/ gave = RequestSize
       \/ reply = "code" /\ handler.ssl_on /\ handler.fd # NoFd
  /\ step = "ready" => wire # <<>> \/ layer > 0 \/ shut

\* The objects a handler still holds that none of its calls will free.
AtRisk == IF handler.tls \notin {"none", "junk"} /\ (step \in {"tries", "handshake"} \/ ~handler.ssl_on)
          THEN 1 ELSE 0

LossOK ==
  /\ {f \in SocketFd : peer[f] # Closed} = lostFds \cup Used(handler)
  /\ Used(handler) \cap lostFds = {}
  /\ IsFiniteSet(lostFds) /\ Cardinality(lostFds) <= slips
  /\ lostTls + AtRisk <= slips
  /\ step = "crashed" => handler.family = "unix" /\ handler.fd = NoFd

SocketInv == SocketTypes /\ AddrsOK /\ TlsOK /\ SentOK /\ LossOK
-----------------------------------------------------------------------------
\* A sequence without a first place has no element.
LEMMA NoFirstPlace == ASSUME NEW s \in Seq(Address), ~(1 <= Len(s))  PROVE s = <<>>
  OBVIOUS

\* The addresses of a name go behind those there were.
LEMMA NamedAddrs ==
  ASSUME NEW h \in Handlers, NEW a \in Api
  PROVE  /\ Named(h, a) \in Handlers
         /\ Named(h, a).at = 1 /\ Named(h, a).fd = h.fd /\ Named(h, a).family = h.family
         /\ Named(h, a).tls = h.tls /\ Named(h, a).pending = h.pending
         /\ h.family # "unix" => Named(h, a).ssl_on = (h.ssl_on \/ a.tls)
         /\ h.family = "unix" => Named(h, a).ssl_on = h.ssl_on
         /\ h.family # "unix" /\ h.addrs = <<>> => Named(h, a).addrs = Addresses[a.host]
<1>1. Addresses[a.host] \in Seq(Address) /\ a.tls \in BOOLEAN /\ <<NginxSocket>> \in Seq(Address)
  BY SocketAssumption
<1>2. h.addrs \o Addresses[a.host] \in Seq(Address)
  BY <1>1 DEF Handlers
<1>3. h.addrs = <<>> => h.addrs \o Addresses[a.host] = Addresses[a.host]
  BY <1>1
<1> QED BY <1>1, <1>2, <1>3 DEF Named, Handlers

\* What init makes of a handler: another descriptor that was closed, or none.
LEMMA InitSocketFacts ==
  ASSUME NEW h \in Handlers, peer \in [SocketFd -> Address \cup {Closed, Unbound}], NEW i \in InitSocket(h)
  PROVE  /\ i \in Handlers
         /\ i.family = h.family /\ i.addrs = h.addrs /\ i.tls = h.tls
         /\ \/ i.fd \in SocketFd /\ peer[i.fd] = Closed /\ ~i.ssl_on /\ ~i.pending
            \/ i.fd = NoFd /\ i.ssl_on = h.ssl_on /\ i.pending = h.pending
<1>1. SocketFd \subseteq Nat \ {NoFd}
  BY SocketAssumption
<1>2. CASE i = [h EXCEPT !.fd = NoFd]
  BY <1>2 DEF Handlers
<1>3. CASE \E f \in SocketFd : peer[f] = Closed /\ i = [h EXCEPT !.fd = f, !.ssl_on = FALSE, !.pending = FALSE]
  BY <1>3 DEF Handlers
<1> QED BY <1>2, <1>3 DEF InitSocket

LEMMA SocketsBegin == SocketsInit => SocketInv
<1> SUFFICES ASSUME SocketsInit  PROVE SocketInv
  OBVIOUS
<1> USE DEF SocketsInit, NoHandler, NoFd
<1>1. SocketTypes
  <2>1. api \in Api
    BY SocketAssumption
  <2>2. handler \in Handlers
    BY DEF Handlers
  <2>3. peer \in [SocketFd -> Address \cup {Closed, Unbound}]
    OBVIOUS
  <2>4. wire \in Seq(Pieces) /\ {rounds, gave, layer, lostTls, slips, connects} \subseteq Nat
    OBVIOUS
  <2> QED BY <2>1, <2>2, <2>3, <2>4 DEF SocketTypes, Steps_
<1>2. AddrsOK /\ TlsOK /\ SentOK
  BY SocketAssumption DEF AddrsOK, TlsOK, SentOK, Tried, Ended, Linked
<1>3. LossOK
  <2>1. {f \in SocketFd : peer[f] # Closed} = {} /\ Used(handler) = {} /\ AtRisk = 0
    BY DEF Used, AtRisk
  <2> QED BY <2>1, FS_EmptySet DEF LossOK
<1> QED BY <1>1, <1>2, <1>3 DEF SocketInv

\* The handler's own: most steps leave handler, peer and what is lost alone.
LEMMA LossKept ==
  ASSUME SocketInv, UNCHANGED <<peer, lostFds, lostTls, slips>>, handler'.fd = handler.fd,
         AtRisk' = AtRisk \/ AtRisk' = 0,
         step' = "crashed" => handler'.family = "unix" /\ handler'.fd = NoFd
  PROVE  LossOK'
<1>1. lostTls \in Nat /\ slips \in Nat /\ AtRisk \in Nat
  BY DEF SocketInv, SocketTypes, AtRisk
<1>2. lostTls + AtRisk <= slips /\ lostTls + 0 <= slips
  BY <1>1 DEF SocketInv, LossOK
<1>3. lostTls' + AtRisk' <= slips'
  BY <1>2
<1> QED BY <1>3 DEF SocketInv, LossOK, Used

\* inet_socket_new.
LEMMA NewSocketKeeps == ASSUME SocketInv, NEW family \in {"tcp", "unix"}, NewSocket(family)  PROVE SocketInv'
<1> USE DEF SocketInv, NewSocket, NoHandler, NoFd, streamed, lossVars
<1>1. PICK on \in BOOLEAN, tls \in {"none", "junk"} :
        handler' = [NoHandler EXCEPT !.family = family, !.ssl_on = on, !.tls = tls]
  OBVIOUS
<1>2. handler' \in Handlers /\ handler'.addrs = <<>> /\ handler'.fd = NoFd /\ ~handler'.pending
      /\ handler'.tls = tls /\ handler'.family = family
  <2>1. handler' = [family |-> family, fd |-> NoFd, addrs |-> <<>>, at |-> 0,
                    ssl_on |-> on, tls |-> tls, pending |-> FALSE]
    BY <1>1
  <2>2. <<>> \in Seq(Address) /\ 0 \in Nat
    OBVIOUS
  <2> QED BY <2>1, <2>2 DEF Handlers
<1>3. SocketTypes'
  BY <1>2 DEF SocketTypes, Steps_
<1>4. AddrsOK' /\ TlsOK' /\ SentOK'
  BY <1>2 DEF AddrsOK, TlsOK, SentOK, Tried, Ended, Linked
<1>5. LossOK'
  <2>1. handler.fd = NoFd
    BY DEF TlsOK
  <2> QED BY <1>2, <2>1, LossKept DEF AtRisk
<1> QED BY <1>3, <1>4, <1>5

\* inet_socket_connect up to the first address.
LEMMA ConnectsKeeps == ASSUME SocketInv, NEW a \in Api, Connects(a)  PROVE SocketInv'
<1>0. /\ handler \in Handlers /\ peer \in [SocketFd -> Address \cup {Closed, Unbound}]
      /\ slips \in Nat /\ lostTls \in Nat /\ rounds \in Nat /\ connects \in Nat
      /\ AddrsOK /\ TlsOK /\ SentOK /\ LossOK
  BY DEF SocketInv, SocketTypes
<1>a. /\ step' = "tries" /\ api' = a /\ reply' = "ok" /\ rounds' = rounds + 1 /\ connects' = connects + 1
      /\ slips' = IF step = "new" THEN slips ELSE slips + 1
      /\ lostFds' = lostFds \cup Used(handler) /\ lostTls' = lostTls
      /\ gave' = 0 /\ wire' = <<>> /\ layer' = 0 /\ shut' = FALSE
      /\ step \in {"new", "parses"}
  BY DEF Connects
<1>1. PICK h \in InitSocket(handler) :
        /\ handler' = Named(h, a)
        /\ peer' = IF h.fd = NoFd THEN peer ELSE [peer EXCEPT ![h.fd] = Unbound]
  BY DEF Connects
<1>2. /\ h \in Handlers /\ h.family = handler.family /\ h.addrs = handler.addrs /\ h.tls = handler.tls
      /\ \/ h.fd \in SocketFd /\ peer[h.fd] = Closed /\ ~h.ssl_on /\ ~h.pending
         \/ h.fd = NoFd /\ h.ssl_on = handler.ssl_on /\ h.pending = handler.pending
  BY <1>0, <1>1, InitSocketFacts
<1>3. /\ handler' \in Handlers
      /\ handler'.at = 1 /\ handler'.fd = h.fd /\ handler'.family = handler.family
      /\ handler'.tls = handler.tls /\ handler'.pending = h.pending
      /\ handler.family # "unix" => handler'.ssl_on = (h.ssl_on \/ a.tls)
      /\ handler.family = "unix" => handler'.ssl_on = h.ssl_on
      /\ handler.family # "unix" /\ handler.addrs = <<>> => handler'.addrs = Addresses[a.host]
  BY <1>1, <1>2, NamedAddrs
<1>4. handler.family \in {"tcp", "unix"}
  BY <1>0, <1>a DEF TlsOK
<1>5. SocketTypes'
  <2>1. peer' \in [SocketFd -> Address \cup {Closed, Unbound}]
    BY <1>0, <1>1, <1>2
  <2>2. {rounds', gave', layer', lostTls', slips', connects'} \subseteq Nat
    BY <1>0, <1>a
  <2>3. wire' \in Seq(Pieces) /\ shut' \in BOOLEAN
    <3>1. <<>> \in Seq(Pieces)
      OBVIOUS
    <3> QED BY <3>1, <1>a
  <2> QED BY <2>1, <2>2, <2>3, <1>3, <1>a DEF SocketTypes, Steps_
<1>6. ~Linked(handler)'
  BY <1>0, <1>1, <1>2, <1>3 DEF Linked
<1>7. AddrsOK'
  <2>1. rounds' = 1 => step = "new"
    <3>1. step = "parses" => rounds >= 1
      BY <1>0 DEF AddrsOK, Tried
    <3> QED BY <3>1, <1>0, <1>a
  <2>2. rounds' >= 1
    BY <1>0, <1>a
  <2>3. rounds' = 1 /\ handler.family = "tcp" => handler'.addrs = Addresses[a.host]
    BY <2>1, <1>0, <1>3 DEF AddrsOK
  <2> QED BY <2>1, <2>2, <2>3, <1>a, <1>3, <1>4, <1>6 DEF AddrsOK, Tried
<1>8. TlsOK'
  <2>1. handler'.fd # NoFd => handler'.ssl_on = (handler'.family = "tcp" /\ a.tls) /\ ~handler'.pending
    <3> SUFFICES ASSUME handler'.fd # NoFd
                 PROVE  handler'.ssl_on = (handler'.family = "tcp" /\ a.tls) /\ ~handler'.pending
      OBVIOUS
    <3>1. h.ssl_on = FALSE /\ ~handler'.pending
      BY <1>2, <1>3 DEF Handlers
    <3>2. a.tls \in BOOLEAN
      BY SocketAssumption
    <3>3. CASE handler.family = "unix"
      BY <3>1, <3>3, <1>3
    <3>4. CASE handler.family = "tcp"
      BY <3>1, <3>2, <3>4, <1>3
    <3> QED BY <3>3, <3>4, <1>4
  <2> QED BY <2>1, <1>a, <1>0, <1>3, <1>4 DEF TlsOK, Tried, Ended
<1>9. SentOK'
  <2>1. RequestSize \in Nat
    BY SocketAssumption
  <2> QED BY <2>1, <1>a DEF SentOK, Tried
<1>10. LossOK'
  <2>1. /\ lostFds' = lostFds \cup Used(handler)
        /\ Used(handler)' = IF h.fd = NoFd THEN {} ELSE {h.fd}
    BY <1>3, <1>a DEF Used
  <2>2. h.fd # NoFd => h.fd \notin lostFds \cup Used(handler)
    BY <1>0, <1>2 DEF LossOK
  <2>3. {f \in SocketFd : peer'[f] # Closed} = {f \in SocketFd : peer[f] # Closed} \cup Used(handler)'
    BY <1>0, <1>1, <1>2, <2>1 DEF Closed, Unbound
  <2>4. /\ {f \in SocketFd : peer'[f] # Closed} = lostFds' \cup Used(handler)'
        /\ Used(handler)' \cap lostFds' = {}
    BY <1>0, <2>1, <2>2, <2>3 DEF LossOK
  <2>5. /\ IsFiniteSet(lostFds')
        /\ Cardinality(lostFds') <= slips'
    <3>1. IsFiniteSet(lostFds) /\ Cardinality(lostFds) \in Nat /\ Cardinality(lostFds) <= slips
      BY <1>0, FS_CardinalityType DEF LossOK
    <3>2. CASE step = "new"
      <4>1. Used(handler) = {} /\ slips' = slips
        BY <1>0, <1>a, <3>2 DEF TlsOK, Used
      <4> QED BY <4>1, <3>1, <2>1
    <3>3. CASE step # "new"
      <4>1. slips' = slips + 1
        BY <1>a, <3>3
      <4>2. CASE Used(handler) = {}
        BY <4>1, <4>2, <3>1, <2>1, <1>0
      <4>3. CASE Used(handler) # {}
        <5>1. Used(handler) = {handler.fd} /\ handler.fd \notin lostFds
          BY <1>0, <4>3 DEF Used, LossOK
        <5>2. IsFiniteSet(lostFds') /\ Cardinality(lostFds') = Cardinality(lostFds) + 1
          <6>1. lostFds' = lostFds \cup {handler.fd}
            BY <5>1, <2>1
          <6>2. IsFiniteSet(lostFds \cup {handler.fd})
                /\ Cardinality(lostFds \cup {handler.fd}) = Cardinality(lostFds) + 1
            BY <5>1, <3>1, FS_AddElement
          <6> QED BY <6>1, <6>2
        <5> QED BY <5>2, <4>1, <3>1, <1>0
      <4> QED BY <4>2, <4>3
    <3> QED BY <3>2, <3>3
  <2>6. lostTls' + AtRisk' <= slips'
    <3>1. lostTls <= slips /\ AtRisk' \in {0, 1} /\ lostTls' = lostTls
      BY <1>0, <1>a DEF LossOK, AtRisk
    <3>2. CASE step = "new"
      <4>1. AtRisk' = 0 /\ slips' = slips
        BY <3>2, <1>0, <1>a, <1>3 DEF TlsOK, AtRisk
      <4> QED BY <4>1, <3>1, <1>0
    <3>3. CASE step # "new"
      <4>1. slips' = slips + 1 /\ slips \in Nat /\ lostTls \in Nat
        BY <1>a, <3>3, <1>0
      <4>2. CASE AtRisk' = 0
        BY <4>1, <4>2, <3>1
      <4>3. CASE AtRisk' = 1
        BY <4>1, <4>3, <3>1
      <4> QED BY <3>1, <4>2, <4>3
    <3> QED BY <3>2, <3>3
  <2> QED BY <2>4, <2>5, <2>6, <1>a DEF LossOK
<1> QED BY <1>5, <1>7, <1>8, <1>9, <1>10 DEF SocketInv

\* What the steps below start from.
LEMMA SocketFacts ==
  ASSUME SocketInv
  PROVE  /\ step \in Steps_ /\ handler \in Handlers /\ api \in Api
         /\ peer \in [SocketFd -> Address \cup {Closed, Unbound}]
         /\ reply \in {"ok", "failed", "code"}
         /\ rounds \in Nat /\ gave \in Nat /\ layer \in Nat
         /\ lostTls \in Nat /\ slips \in Nat /\ connects \in Nat
         /\ wire \in Seq(Pieces) /\ shut \in BOOLEAN
         /\ handler.fd \in SocketFd \cup {NoFd} /\ handler.ssl_on \in BOOLEAN /\ handler.pending \in BOOLEAN
         /\ handler.at \in Nat /\ handler.addrs \in Seq(Address)
         /\ Spoilt(handler) \in {0, 1} /\ AtRisk \in {0, 1}
         /\ AddrsOK /\ TlsOK /\ SentOK /\ LossOK
         /\ RequestSize \in Nat /\ RequestSize > 0
  BY SocketAssumption DEF SocketInv, SocketTypes, Handlers, Spoilt, AtRisk

\* inet_socket::connect, an address that answers or the next one.
LEMMA TriesAddressKeeps == ASSUME SocketInv, TriesAddress  PROVE SocketInv'
<1>0. /\ step = "tries" /\ handler.at <= Len(handler.addrs) /\ ~Linked(handler)
      /\ UNCHANGED <<step, api, rounds, gave, wire, layer, shut, lostFds, lostTls, slips, connects>>
  BY DEF TriesAddress, streamed, lossVars
<1>1. handler.at >= 1
  BY <1>0, SocketFacts DEF AddrsOK
<1>2. CASE /\ handler.fd # NoFd
           /\ peer' = [peer EXCEPT ![handler.fd] = handler.addrs[handler.at]]
           /\ reply' = "ok" /\ UNCHANGED handler
  <2>1. handler.at \in DOMAIN handler.addrs /\ handler.addrs[handler.at] \in Address
    BY <1>0, <1>1, SocketFacts
  <2>2. peer'[handler.fd] = handler.addrs[handler.at] /\ handler.fd \in SocketFd /\ peer[handler.fd] = Unbound
    BY <1>0, <1>2, SocketFacts DEF Linked
  <2>3. Linked(handler)'
    BY <1>2, <2>1, <2>2 DEF Linked, Address
  <2>4. SocketTypes'
    BY <1>0, <1>2, <2>1, SocketFacts DEF SocketTypes
  <2>5. AddrsOK' /\ TlsOK' /\ SentOK'
    BY <1>0, <1>2, <2>1, <2>2, <2>3, SocketFacts DEF AddrsOK, TlsOK, SentOK, Tried, Ended
  <2>6. LossOK'
    <3>1. {f \in SocketFd : peer'[f] # Closed} = {f \in SocketFd : peer[f] # Closed}
      BY <1>2, <2>1, <2>2, SocketFacts DEF Address, Closed, Unbound
    <3>2. AtRisk' = AtRisk /\ Used(handler)' = Used(handler)
      BY <1>0, <1>2 DEF AtRisk, Used
    <3> QED BY <1>0, <1>2, <3>1, <3>2, SocketFacts DEF LossOK
  <2> QED BY <2>4, <2>5, <2>6 DEF SocketInv
<1>3. CASE handler' = [handler EXCEPT !.at = @ + 1] /\ reply' = "failed" /\ UNCHANGED peer
  <2>1. /\ handler' \in Handlers /\ handler'.at = handler.at + 1 /\ handler'.fd = handler.fd
        /\ handler'.family = handler.family /\ handler'.addrs = handler.addrs /\ handler'.tls = handler.tls
        /\ handler'.ssl_on = handler.ssl_on /\ handler'.pending = handler.pending
    <3>1. ASSUME NEW h \in Handlers
          PROVE  LET n == [h EXCEPT !.at = @ + 1] IN
                 /\ n \in Handlers /\ n.at = h.at + 1 /\ n.fd = h.fd /\ n.family = h.family
                 /\ n.addrs = h.addrs /\ n.tls = h.tls /\ n.ssl_on = h.ssl_on /\ n.pending = h.pending
      BY DEF Handlers
    <3>2. handler \in Handlers
      BY SocketFacts
    <3>3. QED  BY <1>3, <3>1, <3>2
  <2>2. SocketTypes' /\ ~Linked(handler)'
    BY <1>0, <1>3, <2>1, SocketFacts DEF SocketTypes, Linked
  <2>3. AddrsOK' /\ TlsOK' /\ SentOK'
    BY <1>0, <1>1, <1>3, <2>1, <2>2, SocketFacts DEF AddrsOK, TlsOK, SentOK, Tried, Ended
  <2>4. AtRisk' = AtRisk
    BY <1>0, <2>1 DEF AtRisk
  <2>5. LossOK'
    BY <1>0, <1>3, <2>1, <2>4, LossKept
  <2> QED BY <2>2, <2>3, <2>5 DEF SocketInv
<1> QED BY <1>2, <1>3 DEF TriesAddress

\* inet_socket::connect returns, or TLS comes next.
LEMMA TriedAllKeeps == ASSUME SocketInv, TriedAll  PROVE SocketInv'
<1>0. /\ step = "tries" /\ (Linked(handler) \/ handler.at > Len(handler.addrs))
      /\ step' = IF handler.ssl_on /\ handler.family = "tcp" THEN "handshake" ELSE "connected"
      /\ UNCHANGED <<handler, api, rounds, peer, reply, gave, wire, layer, shut, lostFds, lostTls, slips, connects>>
  BY DEF TriedAll, streamed, lossVars
<1>1. Linked(handler)' = Linked(handler)
  BY <1>0 DEF Linked
<1>2. SocketTypes'
  BY <1>0, SocketFacts DEF SocketTypes, Steps_
<1>3. AddrsOK'
  <2>1. reply = "ok" /\ ~Linked(handler) => handler.addrs = <<>>
    BY <1>0, SocketFacts, NoFirstPlace DEF AddrsOK
  <2> QED BY <1>0, <1>1, <2>1, SocketFacts DEF AddrsOK, Tried
<1>4. TlsOK' /\ SentOK'
  BY <1>0, <1>1, SocketFacts DEF TlsOK, SentOK, Tried, Ended
<1>5. LossOK'
  <2>1. AtRisk' = AtRisk \/ AtRisk' = 0
    BY <1>0 DEF AtRisk
  <2> QED BY <1>0, <2>1, LossKept
<1> QED BY <1>2, <1>3, <1>4, <1>5 DEF SocketInv

\* init_ssl.
LEMMA HandshakesKeeps == ASSUME SocketInv, Handshakes  PROVE SocketInv'
<1>0. /\ step = "handshake" /\ step' = "connected" /\ lostTls' = lostTls + Spoilt(handler)
      /\ UNCHANGED <<api, rounds, peer, reply, gave, wire, layer, shut, lostFds, slips, connects>>
  BY DEF Handshakes, streamed, lossVars
<1>1. PICK tls \in {"none", "context"} \cup (IF Linked(handler) THEN {"up", "down"} ELSE {}) :
        handler' = [handler EXCEPT !.tls = tls]
  BY DEF Handshakes
<1>2. /\ handler' \in Handlers /\ handler'.tls = tls /\ handler'.fd = handler.fd
      /\ handler'.family = handler.family /\ handler'.addrs = handler.addrs
      /\ handler'.ssl_on = handler.ssl_on /\ handler'.pending = handler.pending
  BY <1>1, SocketFacts DEF Handlers
<1>3. Linked(handler)' = Linked(handler)
  BY <1>0, <1>2 DEF Linked
<1>4. SocketTypes'
  BY <1>0, <1>2, SocketFacts DEF SocketTypes, Steps_, Spoilt
<1>5. AddrsOK'
  BY <1>0, <1>2, <1>3, SocketFacts DEF AddrsOK, Tried
<1>6. TlsOK' /\ SentOK'
  BY <1>0, <1>1, <1>2, <1>3, SocketFacts DEF TlsOK, SentOK, Tried, Ended
<1>7. LossOK'
  <2>1. handler.ssl_on
    BY <1>0, SocketFacts DEF TlsOK
  <2>2. Spoilt(handler) = AtRisk /\ AtRisk' = 0 /\ AtRisk \in Nat
    BY <1>0, <1>2, <2>1 DEF Spoilt, AtRisk
  <2>3. Used(handler)' = Used(handler)
    BY <1>2 DEF Used
  <2>4. lostTls' + AtRisk' <= slips'
    BY <1>0, <2>2, SocketFacts DEF LossOK
  <2> QED BY <1>0, <2>3, <2>4, SocketFacts DEF LossOK
<1> QED BY <1>4, <1>5, <1>6, <1>7 DEF SocketInv

\* What a caller makes of a result.
LEMMA CallerDecidesKeeps == ASSUME SocketInv, CallerDecides  PROVE SocketInv'
<1>0. /\ \/ step = "connected" /\ step' \in {"gives up", "sends"}
         \/ step = "sent" /\ step' \in {"gives up", "waits"}
      /\ UNCHANGED <<handler, api, rounds, peer, reply, gave, wire, layer, shut, lostFds, lostTls, slips, connects>>
  BY DEF CallerDecides, streamed, lossVars
<1>1. Linked(handler)' = Linked(handler)
  BY <1>0 DEF Linked
<1>2. SocketTypes'
  BY <1>0, SocketFacts DEF SocketTypes, Steps_, CallerDecides
<1>3. AddrsOK'
  BY <1>0, <1>1, SocketFacts DEF AddrsOK, Tried
<1>4. TlsOK'
  BY <1>0, <1>1, SocketFacts DEF TlsOK, Tried, Ended
<1>5. SentOK'
  BY <1>0, <1>1, SocketFacts DEF SentOK, Tried, CallerDecides
<1>6. LossOK'
  <2>1. step \notin {"tries", "handshake"} /\ step' \notin {"tries", "handshake"} /\ handler' = handler
    BY <1>0
  <2>2. AtRisk' = AtRisk
    BY <2>1 DEF AtRisk
  <2>3. step' = "crashed" => handler'.family = "unix" /\ handler'.fd = NoFd
    BY <1>0, SocketFacts DEF LossOK
  <2>4. handler'.fd = handler.fd /\ UNCHANGED <<peer, lostFds, lostTls, slips>>
    BY <1>0, <2>1
  <2> QED BY <2>2, <2>3, <2>4, LossKept
<1> QED BY <1>2, <1>3, <1>4, <1>5, <1>6 DEF SocketInv

\* send_tcp.
LEMMA SendsTcpKeeps == ASSUME SocketInv, SendsTcp  PROVE SocketInv'
<1>0. /\ step = "sends" /\ step' \in {"sends", "sent"} /\ ~handler.ssl_on
      /\ UNCHANGED <<handler, api, rounds, peer, wire, layer, shut, lostFds, lostTls, slips, connects>>
  BY DEF SendsTcp, streamed, lossVars
<1>1. Linked(handler)' = Linked(handler)
  BY <1>0 DEF Linked
<1>2. SocketTypes'
  <2>1. gave' \in Nat /\ gave' <= RequestSize /\ reply' \in {"ok", "failed", "code"}
    BY <1>0, SocketFacts DEF SendsTcp, SentOK, Tried
  <2> QED BY <1>0, <2>1, SocketFacts DEF SocketTypes, Steps_
<1>3. AddrsOK'
  BY <1>0, <1>1, SocketFacts DEF AddrsOK, Tried
<1>4. TlsOK'
  BY <1>0, <1>1, SocketFacts DEF TlsOK, Tried, Ended
<1>5. SentOK'
  <2>1. CASE Linked(handler) /\ gave < RequestSize /\ gave' \in gave + 1 .. RequestSize /\ UNCHANGED <<step, reply>>
    BY <1>0, <1>1, <2>1, SocketFacts DEF SentOK, Tried
  <2>2. CASE gave = RequestSize /\ step' = "sent" /\ reply' = "ok" /\ UNCHANGED gave
    BY <1>0, <1>1, <2>2, SocketFacts DEF SentOK, Tried
  <2>3. CASE gave < RequestSize /\ step' = "sent" /\ reply' = "failed" /\ UNCHANGED gave
    BY <1>0, <1>1, <2>3, SocketFacts DEF SentOK, Tried
  <2> QED BY <2>1, <2>2, <2>3 DEF SendsTcp
<1>6. LossOK'
  <2>1. step \notin {"tries", "handshake"} /\ step' \notin {"tries", "handshake"} /\ handler' = handler
    BY <1>0
  <2>2. AtRisk' = AtRisk
    BY <2>1 DEF AtRisk
  <2>3. step' = "crashed" => handler'.family = "unix" /\ handler'.fd = NoFd
    BY <1>0, SocketFacts DEF LossOK
  <2>4. handler'.fd = handler.fd /\ UNCHANGED <<peer, lostFds, lostTls, slips>>
    BY <1>0, <2>1
  <2> QED BY <2>2, <2>3, <2>4, LossKept
<1> QED BY <1>2, <1>3, <1>4, <1>5, <1>6 DEF SocketInv

\* send_ssl.
LEMMA SendsTlsKeeps == ASSUME SocketInv, SendsTls  PROVE SocketInv'
<1>0. /\ step = "sends" /\ step' = "sent" /\ handler.ssl_on
      /\ UNCHANGED <<handler, api, rounds, peer, wire, layer, shut, lostFds, lostTls, slips, connects>>
  BY DEF SendsTls, streamed, lossVars
<1>1. Linked(handler)' = Linked(handler)
  BY <1>0 DEF Linked
<1>2. SocketTypes'
  BY <1>0, SocketFacts DEF SocketTypes, Steps_, SendsTls
<1>3. AddrsOK'
  BY <1>0, <1>1, SocketFacts DEF AddrsOK, Tried
<1>4. TlsOK'
  BY <1>0, <1>1, SocketFacts DEF TlsOK, Tried, Ended
<1>5. SentOK'
  <2>1. CASE handler.fd # NoFd /\ handler.tls = "up" /\ gave' = RequestSize /\ reply' = "ok"
    <3>1. handler.family = "tcp"
      BY <1>0, <2>1, SocketFacts DEF TlsOK
    <3>2. Linked(handler)
      BY <1>0, <2>1, <3>1, SocketFacts DEF TlsOK, Ended, Tried
    <3> QED BY <1>0, <1>1, <2>1, <3>2, SocketFacts DEF SentOK, Tried
  <2>2. CASE handler.fd # NoFd /\ reply' = "code" /\ UNCHANGED gave
    BY <1>0, <1>1, <2>2, SocketFacts DEF SentOK, Tried
  <2>3. CASE reply' = "failed" /\ UNCHANGED gave
    BY <1>0, <1>1, <2>3, SocketFacts DEF SentOK, Tried
  <2> QED BY <2>1, <2>2, <2>3 DEF SendsTls
<1>6. LossOK'
  <2>1. step \notin {"tries", "handshake"} /\ step' \notin {"tries", "handshake"} /\ handler' = handler
    BY <1>0
  <2>2. AtRisk' = AtRisk
    BY <2>1 DEF AtRisk
  <2>3. step' = "crashed" => handler'.family = "unix" /\ handler'.fd = NoFd
    BY <1>0, SocketFacts DEF LossOK
  <2>4. handler'.fd = handler.fd /\ UNCHANGED <<peer, lostFds, lostTls, slips>>
    BY <1>0, <2>1
  <2> QED BY <2>2, <2>3, <2>4, LossKept
<1> QED BY <1>2, <1>3, <1>4, <1>5, <1>6 DEF SocketInv

\* inet_socket_select.
LEMMA SelectsKeeps == ASSUME SocketInv, Selects  PROVE SocketInv'
<1>0. /\ step = "waits" /\ step' \in {"ready", "parses", "interrupted"}
      /\ UNCHANGED <<handler, api, rounds, peer, reply, gave, wire, layer, shut, lostFds, lostTls, slips, connects>>
  BY DEF Selects, streamed, lossVars
<1>1. Linked(handler)' = Linked(handler)
  BY <1>0 DEF Linked
<1>2. SocketTypes'
  BY <1>0, SocketFacts DEF SocketTypes, Steps_, Selects
<1>3. AddrsOK'
  BY <1>0, <1>1, SocketFacts DEF AddrsOK, Tried
<1>4. TlsOK'
  BY <1>0, <1>1, SocketFacts DEF TlsOK, Tried, Ended
<1>5. SentOK'
  <2>1. step' = "ready" => wire # <<>> \/ layer > 0 \/ shut
    <3>1. CASE handler.ssl_on /\ handler.pending /\ step' = "ready"
      <4>1. gave = RequestSize \/ handler.fd # NoFd
        BY <1>0, SocketFacts DEF SentOK
      <4>2. handler.fd # NoFd
        BY <1>0, <4>1, SocketFacts DEF SentOK, Tried, Linked
      <4> QED BY <3>1, <4>2, SocketFacts DEF TlsOK
    <3>2. CASE IF wire # <<>> \/ shut THEN step' = "ready" ELSE step' \in {"parses", "interrupted"}
      BY <3>2
    <3> QED BY <3>1, <3>2 DEF Selects
  <2> QED BY <1>0, <1>1, <2>1, SocketFacts DEF SentOK, Tried
<1>6. LossOK'
  <2>1. step \notin {"tries", "handshake"} /\ step' \notin {"tries", "handshake"} /\ handler' = handler
    BY <1>0
  <2>2. AtRisk' = AtRisk
    BY <2>1 DEF AtRisk
  <2>3. step' = "crashed" => handler'.family = "unix" /\ handler'.fd = NoFd
    BY <1>0, SocketFacts DEF LossOK
  <2>4. handler'.fd = handler.fd /\ UNCHANGED <<peer, lostFds, lostTls, slips>>
    BY <1>0, <2>1
  <2> QED BY <2>2, <2>3, <2>4, LossKept
<1> QED BY <1>2, <1>3, <1>4, <1>5, <1>6 DEF SocketInv

\* recv_tcp.
LEMMA ReadsTcpKeeps == ASSUME SocketInv, ReadsTcp  PROVE SocketInv'
<1>0. /\ step \in {"ready", "interrupted"} /\ step' \in {"waits", "parses", "gives up"} /\ ~handler.ssl_on
      /\ UNCHANGED <<handler, api, rounds, peer, reply, gave, layer, shut, lostFds, lostTls, slips, connects>>
  BY DEF ReadsTcp, streamed, lossVars
<1>1. Linked(handler)' = Linked(handler)
  BY <1>0 DEF Linked
<1>2. SocketTypes'
  <2>1. wire' \in Seq(Pieces)
    <3>1. wire # <<>> => Tail(wire) \in Seq(Pieces)
      BY SocketFacts
    <3> QED BY <3>1, SocketFacts DEF ReadsTcp
  <2> QED BY <1>0, <2>1, SocketFacts DEF SocketTypes, Steps_
<1>3. AddrsOK'
  BY <1>0, <1>1, SocketFacts DEF AddrsOK, Tried
<1>4. TlsOK'
  BY <1>0, <1>1, SocketFacts DEF TlsOK, Tried, Ended
<1>5. SentOK'
  BY <1>0, <1>1, SocketFacts DEF SentOK, Tried, ReadsTcp
<1>6. LossOK'
  <2>1. step \notin {"tries", "handshake"} /\ step' \notin {"tries", "handshake"} /\ handler' = handler
    BY <1>0
  <2>2. AtRisk' = AtRisk
    BY <2>1 DEF AtRisk
  <2>3. step' = "crashed" => handler'.family = "unix" /\ handler'.fd = NoFd
    BY <1>0, SocketFacts DEF LossOK
  <2>4. handler'.fd = handler.fd /\ UNCHANGED <<peer, lostFds, lostTls, slips>>
    BY <1>0, <2>1
  <2> QED BY <2>2, <2>3, <2>4, LossKept
<1> QED BY <1>2, <1>3, <1>4, <1>5, <1>6 DEF SocketInv

\* The other end.
LEMMA PeerDoesKeeps == ASSUME SocketInv, PeerDoes  PROVE SocketInv'
<1>0. /\ step \notin {"tries", "handshake"}
      /\ UNCHANGED <<handler, api, rounds, peer, step, reply, gave, layer, lostFds, lostTls, slips, connects>>
  BY DEF PeerDoes, streamed, lossVars
<1>1. Linked(handler)' = Linked(handler)
  BY <1>0 DEF Linked
<1>2. SocketTypes'
  <2>1. wire' \in Seq(Pieces) /\ shut' \in BOOLEAN
    <3>1. "data" \in Pieces /\ "ticket" \in Pieces
      BY DEF Pieces
    <3>2. Append(wire, "data") \in Seq(Pieces) /\ Append(wire, "ticket") \in Seq(Pieces)
      BY <3>1, SocketFacts
    <3>3. wire \in Seq(Pieces) /\ shut \in BOOLEAN
      BY SocketFacts
    <3> QED BY <3>2, <3>3 DEF PeerDoes
  <2> QED BY <1>0, <2>1, SocketFacts DEF SocketTypes, Steps_
<1>3. AddrsOK'
  BY <1>0, <1>1, SocketFacts DEF AddrsOK, Tried
<1>4. TlsOK'
  BY <1>0, <1>1, SocketFacts DEF TlsOK, Tried, Ended
<1>5. SentOK'
  <2>1. Append(wire, "data") # <<>> /\ Append(wire, "ticket") # <<>>
    <3>1. \A s \in Seq(Pieces), x \in Pieces : Len(Append(s, x)) # 0
      OBVIOUS
    <3>2. wire \in Seq(Pieces) /\ "data" \in Pieces /\ "ticket" \in Pieces /\ Len(<<>>) = 0
      BY SocketFacts DEF Pieces
    <3> QED BY <3>1, <3>2
  <2>2. wire # <<>> \/ shut => wire' # <<>> \/ shut'
    BY <2>1 DEF PeerDoes
  <2> QED BY <1>0, <1>1, <2>2, SocketFacts DEF SentOK, Tried
<1>6. LossOK'
  <2>1. step \notin {"tries", "handshake"} /\ step' \notin {"tries", "handshake"} /\ handler' = handler
    BY <1>0
  <2>2. AtRisk' = AtRisk
    BY <2>1 DEF AtRisk
  <2>3. step' = "crashed" => handler'.family = "unix" /\ handler'.fd = NoFd
    BY <1>0, SocketFacts DEF LossOK
  <2>4. handler'.fd = handler.fd /\ UNCHANGED <<peer, lostFds, lostTls, slips>>
    BY <1>0, <2>1
  <2> QED BY <2>2, <2>3, <2>4, LossKept
<1> QED BY <1>2, <1>3, <1>4, <1>5, <1>6 DEF SocketInv

\* recv_ssl: what TLS holds, a ticket, data, the end, or a session that fails.
LEMMA ReadsTlsKeeps == ASSUME SocketInv, ReadsTls  PROVE SocketInv'
<1>0. /\ step \in {"ready", "interrupted", "inside"} /\ handler.ssl_on
      /\ UNCHANGED <<api, rounds, peer, reply, gave, shut, lostFds, lostTls, slips, connects>>
  BY DEF ReadsTls, lossVars
<1>1. /\ step' \in {"waits", "inside", "parses", "gives up"}
      /\ wire' \in Seq(Pieces) /\ layer' \in Nat
      /\ \/ UNCHANGED <<handler, layer>>
         \/ \E p \in BOOLEAN : handler' = [handler EXCEPT !.pending = p] /\ (p => layer' > 0)
  <2>1. wire # <<>> => Tail(wire) \in Seq(Pieces)
    <3>1. wire \in Seq(Pieces)
      BY SocketFacts
    <3> QED BY <3>1
  <2>2. layer > 0 => layer - 1 \in Nat
    BY SocketFacts
  <2>3. CASE layer > 0 /\ layer' = layer - 1 /\ handler' = [handler EXCEPT !.pending = layer' > 0]
             /\ step' \in {"waits", "parses"} /\ UNCHANGED wire
    <3>1. (layer' > 0) \in BOOLEAN
      OBVIOUS
    <3>2. \E p \in BOOLEAN : handler' = [handler EXCEPT !.pending = p] /\ (p => layer' > 0)
      BY <2>3, <3>1
    <3> QED BY <2>2, <2>3, <3>2, SocketFacts
  <2>4. CASE /\ layer = 0 /\ wire # <<>> /\ wire' = Tail(wire)
             /\ \/ Head(wire) = "ticket" /\ step' = "inside" /\ UNCHANGED <<handler, layer>>
                \/ /\ Head(wire) = "data" /\ layer' \in 0..1
                   /\ handler' = [handler EXCEPT !.pending = layer' > 0]
                   /\ step' \in {"waits", "parses"}
    <3>1. (layer' > 0) \in BOOLEAN
      OBVIOUS
    <3>2. CASE Head(wire) = "ticket" /\ step' = "inside" /\ UNCHANGED <<handler, layer>>
      BY <2>1, <2>4, <3>2, SocketFacts
    <3>3. CASE /\ layer' \in 0..1 /\ handler' = [handler EXCEPT !.pending = layer' > 0]
               /\ step' \in {"waits", "parses"}
      <4>1. \E p \in BOOLEAN : handler' = [handler EXCEPT !.pending = p] /\ (p => layer' > 0)
        BY <3>1, <3>3
      <4>2. wire' \in Seq(Pieces) /\ layer' \in Nat
        BY <2>1, <2>4, <3>3
      <4> QED BY <3>3, <4>1, <4>2
    <3> QED BY <2>4, <3>2, <3>3
  <2>5. CASE /\ handler' = [handler EXCEPT !.pending = FALSE]
             /\ step' \in {"waits", "parses", "gives up"} /\ UNCHANGED <<wire, layer>>
    BY <2>5, SocketFacts
  <2> QED BY <2>3, <2>4, <2>5 DEF ReadsTls
<1>2. /\ handler' \in Handlers /\ handler'.fd = handler.fd /\ handler'.family = handler.family
      /\ handler'.addrs = handler.addrs /\ handler'.tls = handler.tls /\ handler'.ssl_on = handler.ssl_on
      /\ handler'.pending => layer' > 0 \/ (handler.pending /\ layer' = layer)
  BY <1>1, SocketFacts DEF Handlers
<1>3. Linked(handler)' = Linked(handler)
  BY <1>0, <1>2 DEF Linked
<1>4. SocketTypes'
  BY <1>0, <1>1, <1>2, SocketFacts DEF SocketTypes, Steps_
<1>5. AddrsOK'
  BY <1>0, <1>1, <1>2, <1>3, SocketFacts DEF AddrsOK, Tried
<1>6. TlsOK'
  BY <1>0, <1>1, <1>2, <1>3, SocketFacts DEF TlsOK, Tried, Ended
<1>7. SentOK'
  BY <1>0, <1>1, <1>2, <1>3, SocketFacts DEF SentOK, Tried
<1>8. LossOK'
  <2>1. AtRisk' = AtRisk
    BY <1>0, <1>1, <1>2 DEF AtRisk
  <2>2. /\ handler'.fd = handler.fd /\ step' # "crashed"
        /\ UNCHANGED <<peer, lostFds, lostTls, slips>>
    BY <1>0, <1>1, <1>2
  <2> QED BY <2>1, <2>2, LossKept
<1> QED BY <1>4, <1>5, <1>6, <1>7, <1>8 DEF SocketInv

\* inet_socket_delete.
LEMMA DeletesKeeps == ASSUME SocketInv, Deletes  PROVE SocketInv'
<1>0. /\ step \in {"parses", "gives up"}
      /\ UNCHANGED <<api, rounds, reply, gave, wire, layer, shut, lostFds, slips, connects>>
  BY DEF Deletes, streamed
<1>1. CASE handler.ssl_on /\ handler.tls = "junk"
  <2>0. step' = "crashed" /\ UNCHANGED <<handler, peer, lostTls>>
    BY <1>1 DEF Deletes
  <2>1. handler.family = "unix" /\ handler.fd = NoFd
    BY <1>0, <1>1, SocketFacts DEF TlsOK, Tried, Ended
  <2>2. SocketTypes' /\ AddrsOK' /\ TlsOK' /\ SentOK'
    BY <1>0, <2>0, <2>1, SocketFacts DEF SocketTypes, Steps_, AddrsOK, TlsOK, SentOK, Tried, Ended
  <2>3. AtRisk' = AtRisk
    BY <1>0, <2>0 DEF AtRisk
  <2>4. /\ handler'.fd = handler.fd /\ handler'.family = "unix" /\ handler'.fd = NoFd
        /\ UNCHANGED <<peer, lostFds, lostTls, slips>>
    BY <1>0, <2>0, <2>1
  <2>5. LossOK'
    BY <2>3, <2>4, LossKept
  <2> QED BY <2>2, <2>5 DEF SocketInv
<1>2. CASE ~(handler.ssl_on /\ handler.tls = "junk")
  <2>0. /\ step' = "none" /\ handler' = NoHandler
        /\ peer' = [f \in SocketFd |-> IF f = handler.fd THEN Closed ELSE peer[f]]
        /\ lostTls' = IF handler.ssl_on THEN lostTls ELSE lostTls + Spoilt(handler)
    BY <1>2 DEF Deletes
  <2>1. handler' \in Handlers
    <3>1. <<>> \in Seq(Address) /\ 0 \in Nat
      OBVIOUS
    <3> QED BY <2>0, <3>1 DEF NoHandler, Handlers
  <2>2. SocketTypes'
    <3>1. peer' \in [SocketFd -> Address \cup {Closed, Unbound}]
      BY <2>0, SocketFacts
    <3>2. lostTls' \in Nat
      BY <2>0, SocketFacts
    <3> QED BY <1>0, <2>0, <2>1, <3>1, <3>2, SocketFacts DEF SocketTypes, Steps_
  <2>3. AddrsOK' /\ TlsOK' /\ SentOK'
    BY <2>0 DEF AddrsOK, TlsOK, SentOK, Tried, Ended, NoHandler
  <2>4. LossOK'
    <3>1. Used(handler)' = {} /\ AtRisk' = 0
      BY <2>0 DEF Used, AtRisk, NoHandler
    <3>2. {f \in SocketFd : peer'[f] # Closed} = {f \in SocketFd : peer[f] # Closed} \ Used(handler)
      BY <2>0, SocketFacts, SocketAssumption DEF Used
    <3>3. {f \in SocketFd : peer'[f] # Closed} = lostFds
      BY <3>2, SocketFacts DEF LossOK
    <3>4. lostTls' <= slips
      <4>1. ~handler.ssl_on => AtRisk = Spoilt(handler)
        BY DEF AtRisk, Spoilt
      <4>2. AtRisk \in Nat
        BY DEF AtRisk
      <4> QED BY <2>0, <4>1, <4>2, SocketFacts DEF LossOK
    <3>5. lostTls' + AtRisk' <= slips'
      <4>1. lostTls' \in Nat
        BY <2>0, SocketFacts
      <4>2. lostTls' + 0 <= slips
        BY <4>1, <3>4
      <4> QED BY <1>0, <3>1, <4>2
    <3> QED BY <1>0, <2>0, <3>1, <3>3, <3>5, SocketFacts DEF LossOK
  <2> QED BY <2>2, <2>3, <2>4 DEF SocketInv
<1> QED BY <1>1, <1>2

\* A caller that returns without deleting.
LEMMA ForgetsKeeps == ASSUME SocketInv, Forgets  PROVE SocketInv'
<1>0. /\ step = "gives up" /\ step' = "none" /\ handler' = NoHandler
      /\ lostFds' = lostFds \cup Used(handler) /\ lostTls' = lostTls + Spoilt(handler)
      /\ slips' = slips + 1
      /\ UNCHANGED <<api, rounds, peer, reply, gave, wire, layer, shut, connects>>
  BY DEF Forgets, streamed
<1>1. handler' \in Handlers
  <2>1. <<>> \in Seq(Address) /\ 0 \in Nat
    OBVIOUS
  <2> QED BY <1>0, <2>1 DEF NoHandler, Handlers
<1>2. SocketTypes'
  <2>1. lostTls' \in Nat /\ slips' \in Nat
    <3>1. Spoilt(handler) = 0 \/ Spoilt(handler) = 1
      BY DEF Spoilt
    <3>2. lostTls \in Nat /\ slips \in Nat
      BY SocketFacts
    <3>3. lostTls' = lostTls + Spoilt(handler) /\ slips' = slips + 1
      BY <1>0
    <3>4. lostTls + 0 \in Nat /\ lostTls + 1 \in Nat /\ slips + 1 \in Nat
      BY <3>2
    <3> QED BY <3>1, <3>3, <3>4
  <2> QED BY <1>0, <1>1, <2>1, SocketFacts DEF SocketTypes, Steps_
<1>3. AddrsOK' /\ TlsOK' /\ SentOK'
  BY <1>0 DEF AddrsOK, TlsOK, SentOK, Tried, Ended, NoHandler
<1>4. LossOK'
  <2>1. Used(handler)' = {} /\ AtRisk' = 0
    BY <1>0 DEF Used, AtRisk, NoHandler
  <2>2. IsFiniteSet(lostFds') /\ Cardinality(lostFds') <= slips + 1
    <3>1. IsFiniteSet(lostFds) /\ Cardinality(lostFds) \in Nat /\ Cardinality(lostFds) <= slips
      BY SocketFacts, FS_CardinalityType DEF LossOK
    <3>2. CASE Used(handler) = {}
      <4>1. lostFds' = lostFds
        BY <1>0, <3>2
      <4> QED BY <3>1, <4>1, SocketFacts
    <3>3. CASE Used(handler) # {}
      <4>1. Used(handler) = {handler.fd} /\ handler.fd \notin lostFds
        BY <3>3, SocketFacts DEF Used, LossOK
      <4>2. lostFds' = lostFds \cup {handler.fd}
        BY <1>0, <4>1
      <4>3. IsFiniteSet(lostFds \cup {handler.fd})
            /\ Cardinality(lostFds \cup {handler.fd}) = Cardinality(lostFds) + 1
        BY <3>1, <4>1, FS_AddElement
      <4> QED BY <3>1, <4>2, <4>3, SocketFacts
    <3> QED BY <3>2, <3>3
  <2>3. lostTls' + AtRisk' <= slips'
    <3>1. Spoilt(handler) \in {0, 1} /\ lostTls <= slips
      BY SocketFacts DEF Spoilt, LossOK, AtRisk
    <3>2. lostTls + Spoilt(handler) <= slips + 1 /\ lostTls + Spoilt(handler) + 0 = lostTls + Spoilt(handler)
      BY <3>1, SocketFacts
    <3> QED BY <1>0, <2>1, <3>2
  <2> QED BY <1>0, <2>1, <2>2, <2>3, SocketFacts DEF LossOK
<1> QED BY <1>2, <1>3, <1>4 DEF SocketInv
-----------------------------------------------------------------------------
\* The inductive invariant, whatever the peer does and whoever forgets.
THEOREM SocketsInvariance == SocketsSpec => []SocketInv
<1>1. SocketInv /\ [SocketsNext]_socketVars => SocketInv'
  <2> SUFFICES ASSUME SocketInv, [SocketsNext]_socketVars  PROVE SocketInv'
    OBVIOUS
  <2>1. CASE UNCHANGED socketVars
    BY <2>1 DEF socketVars, streamed, lossVars, SocketInv, SocketTypes, AddrsOK, TlsOK, SentOK, LossOK,
                AtRisk, Linked, Used
  <2>2. CASE SocketsNext
    BY <2>2, NewSocketKeeps, ConnectsKeeps, TriesAddressKeeps, TriedAllKeeps, HandshakesKeeps,
       CallerDecidesKeeps, SendsTcpKeeps, SendsTlsKeeps, SelectsKeeps, ReadsTcpKeeps, ReadsTlsKeeps,
       DeletesKeeps, ForgetsKeeps, PeerDoesKeeps
    DEF SocketsNext
  <2> QED BY <2>1, <2>2
<1> QED BY <1>1, SocketsBegin, PTL DEF SocketsSpec

\* What the invariant says of connect, send, select and delete.
LEMMA SocketInvIsEnough == SocketInv => SocketsSound
<1> SUFFICES ASSUME SocketInv  PROVE SocketsSound
  OBVIOUS
<1>1. ConnectsRight
  BY SocketFacts DEF ConnectsRight, AddrsOK, Tried
<1>2. SendsRight
  <2>1. gave > 0 /\ step \in {"sends", "sent", "waits", "ready", "interrupted", "inside", "parses"} =>
          /\ handler.family = "tcp" => (api.tls <=> handler.ssl_on)
          /\ handler.ssl_on => handler.tls = "up"
    BY SocketFacts DEF SentOK, TlsOK, Tried, Linked
  <2>2. step \in {"waits", "ready", "interrupted"} =>
          \/ gave = RequestSize /\ Linked(handler)
          \/ reply = "code" /\ handler.ssl_on
    BY SocketFacts DEF SentOK, Tried
  <2> QED BY <2>1, <2>2 DEF SendsRight
<1>3. WaitsRight
  BY SocketFacts DEF WaitsRight, SentOK, TlsOK
<1>4. ClosesRight
  <2>1. lostTls <= slips
    BY SocketFacts DEF LossOK, AtRisk
  <2> QED BY <2>1, SocketFacts DEF ClosesRight, LossOK
<1> QED BY <1>1, <1>2, <1>3, <1>4 DEF SocketsSound

\* Whatever names, addresses and descriptors there are: connected to what was
\* asked for, sent the way it was connected, in recv with nothing there only
\* after a signal, and no descriptor or TLS object lost but by a second connect
\* or a forgotten handler (inet_socket.cpp).
THEOREM SocketsAreSound == SocketsSpec => []SocketsSound
  BY SocketsInvariance, SocketInvIsEnough, PTL

(*****************************************************************************)
(* Upload: the reading of the logs, and their delivery.                      *)
(*****************************************************************************)

-----------------------------------------------------------------------------
(* The reading of the logs.                                                *)

\* What a reading r has of directory d, when left stands in its serial file.
Tells(d, r, left) ==
  \E from \in 0 .. MaxLines, n \in 0 .. Chunk :
    /\ {pair \in r : pair[1] = d} = {<<d, line>> : line \in from + 1 .. from + n}
    /\ n > 0 => left = IF n < Chunk THEN Huge ELSE from + n

\* What the reader holds, what it has read, and what the serial files say of it.
LogRecords == [lines : 0 .. MaxLines, ctime : Times]
ReaderInv ==
  /\ logs \in [Dir -> LogRecords]
  /\ serial \in [Dir -> [time : Nat, size : Nat]]
  /\ reader \in [time : Nat, size : Nat]
  /\ at \in 0 .. Domains + 1
  /\ \A pair \in result : pair[1] \in 1 .. at - 1
  /\ SerialTells

\* Whatever read_logs.serial holds, the size a file is read from is the one
\* the reader has of the directory before.
LEMMA RestoredKeepsSize ==
  ASSUME ReaderInv, NEW d \in Dir
  PROVE  Restored(d) \in [time : Nat, size : Nat] /\ Restored(d).size = reader.size
  BY DEF ReaderInv, Restored

\* The reader starts so.
LEMMA ReaderInvInit == LogsInit => ReaderInv
<1> SUFFICES ASSUME LogsInit PROVE ReaderInv
  OBVIOUS
<1>1. /\ logs \in [Dir -> LogRecords] /\ serial \in [Dir -> [time : Nat, size : Nat]]
      /\ reader \in [time : Nat, size : Nat]
  BY LogsAssumption DEF LogsInit, LogRecords, NoSerial, Fresh, Times
<1>2. at = 0 /\ result = {} /\ at \in 0 .. Domains + 1
  BY LogsAssumption DEF LogsInit
<1>3. SerialTells
  BY <1>2 DEF SerialTells
<1>4. QED  BY <1>1, <1>2, <1>3 DEF ReaderInv

\* A reading without a line of a directory says nothing of it.
LEMMA NothingRead ==
  ASSUME ReaderInv, NEW left
  PROVE  Tells(at, result, left)
<1>1. {pair \in result : pair[1] = at} = {}
  BY DEF ReaderInv
<1>2. MaxLines \in Nat /\ Chunk \in Nat
  BY LogsAssumption
<1>3. 0 \in 0 .. MaxLines /\ 0 \in 0 .. Chunk /\ 0 + 1 .. 0 + 0 = {}
  BY <1>2
<1>4. {<<at, line>> : line \in 0 + 1 .. 0 + 0} = {}
  BY <1>3
<1>5. QED  BY <1>1, <1>3, <1>4 DEF Tells

\* Reading a log as far as its chunk, or to its end.
LEMMA ReadsFileStep ==
  ASSUME ReaderInv, at \in Dir, ReadsFile(at)
  PROVE  /\ reader' \in [time : Nat, size : Nat]
         /\ result \subseteq result' /\ \A pair \in result' \ result : pair[1] = at
         /\ Tells(at, result', reader'.size)
<1> DEFINE from == Restored(at)
<1>1. /\ Chunk \in Nat /\ Chunk > 0 /\ MaxLines \in Nat /\ MaxTime \in Nat
  BY LogsAssumption
<1>2. logs[at].lines \in 0 .. MaxLines /\ logs[at].ctime \in Nat
  <2>1. logs[at] \in LogRecords
    BY DEF ReaderInv
  <2>2. QED  BY <2>1, <1>1 DEF LogRecords, Times
<1>3. from \in [time : Nat, size : Nat]
  BY RestoredKeepsSize
<1>4. CASE logs[at].lines = 0 \/ from.size > logs[at].lines
  <2>1. reader' = Compared(from, at) /\ result' = result
    BY <1>4 DEF ReadsFile
  <2>2. reader' \in [time : Nat, size : Nat]
    BY <2>1, <1>2, <1>3 DEF Compared
  <2>3. Tells(at, result, reader'.size)
    BY NothingRead
  <2>4. QED  BY <2>1, <2>2, <2>3
<1>5. CASE ~(logs[at].lines = 0 \/ from.size > logs[at].lines)
  <2> DEFINE t == Taken(from, at)
             new == {<<at, from.size + n>> : n \in 1 .. t}
  <2>1. /\ reader' = [time |-> logs[at].ctime,
                      size |-> IF t < Chunk THEN Huge ELSE from.size + Chunk]
        /\ result' = result \cup new
    BY <1>5 DEF ReadsFile
  <2>2. from.size \in 0 .. MaxLines
    BY <1>5, <1>2, <1>3, <1>1
  <2>3. t \in 0 .. Chunk
    BY <1>5, <1>2, <1>3, <1>1 DEF Taken, Least
  <2>4. reader' \in [time : Nat, size : Nat]
    BY <2>1, <2>2, <1>2, <1>1 DEF Huge
  <2>5. \A pair \in new : pair[1] = at
    OBVIOUS
  <2>6. {pair \in result' : pair[1] = at} = new
    <3>1. {pair \in result : pair[1] = at} = {}
      BY DEF ReaderInv
    <3>2. QED  BY <3>1, <2>1, <2>5
  <2>7. new = {<<at, line>> : line \in from.size + 1 .. from.size + t}
    <3> HIDE DEF t, from
    <3>1. ASSUME NEW n \in 1 .. t
          PROVE  from.size + n \in from.size + 1 .. from.size + t
      BY <2>2, <2>3, <1>1
    <3>2. ASSUME NEW line \in from.size + 1 .. from.size + t
          PROVE  line - from.size \in 1 .. t /\ line = from.size + (line - from.size)
      BY <2>2, <2>3, <1>1
    <3>3. QED  BY <3>1, <3>2
  <2> HIDE DEF t, from, new
  <2>8. t > 0 => reader'.size = IF t < Chunk THEN Huge ELSE from.size + t
    BY <2>1, <2>3, <2>2, <1>1
  <2>9. Tells(at, result', reader'.size)
    BY <2>2, <2>3, <2>6, <2>7, <2>8 DEF Tells
  <2>10. QED  BY <2>1, <2>4, <2>5, <2>9
<1>6. QED  BY <1>4, <1>5

\* So does finding nothing new in a directory.
LEMMA ReadsNothingStep ==
  ASSUME ReaderInv, at \in Dir, ReadsNothing(at)
  PROVE  /\ reader' \in [time : Nat, size : Nat]
         /\ result' = result
         /\ Tells(at, result', reader'.size)
<1>1. Restored(at) \in [time : Nat, size : Nat] /\ MaxTime \in Nat
  BY RestoredKeepsSize, LogsAssumption
<1>2. reader' = Restored(at) \/ \E t \in Times : reader' = [time |-> t, size |-> 0]
  BY DEF ReadsNothing
<1>3. reader' \in [time : Nat, size : Nat]
  BY <1>1, <1>2 DEF Times
<1>4. result' = result
  BY DEF ReadsNothing
<1>5. Tells(at, result, reader'.size)
  BY NothingRead
<1>6. QED  BY <1>3, <1>4, <1>5

\* A directory read, with the turn to the next one.
LEMMA ReadDirectoryStep == ReaderInv /\ ReadDirectory => ReaderInv'
<1> SUFFICES ASSUME ReaderInv, ReadDirectory PROVE ReaderInv'
  OBVIOUS
<1>1. /\ at \in Dir /\ serial' = [serial EXCEPT ![at] = reader']
      /\ at' = at + 1 /\ logs' = logs
  BY DEF ReadDirectory
<1>2. /\ reader' \in [time : Nat, size : Nat]
      /\ result \subseteq result' /\ \A pair \in result' \ result : pair[1] = at
      /\ Tells(at, result', reader'.size)
  BY <1>1, ReadsFileStep, ReadsNothingStep DEF ReadDirectory
<1>3. at \in Nat /\ at >= 1 /\ at <= Domains /\ Domains \in Nat
  BY <1>1, LogsAssumption DEF Dir
<1>4. at' \in 0 .. Domains + 1 /\ 1 .. at' - 1 = (1 .. at - 1) \cup {at}
  BY <1>1, <1>3
<1>5. serial' \in [Dir -> [time : Nat, size : Nat]]
  BY <1>1, <1>2 DEF ReaderInv
<1>6. \A pair \in result' : pair[1] \in 1 .. at' - 1
  BY <1>2, <1>4 DEF ReaderInv
<1>7. ASSUME NEW d \in 1 .. at' - 1
      PROVE  Tells(d, result', serial'[d].size)
  <2>1. CASE d = at
    <3>1. serial'[at] = reader'
      BY <1>1 DEF ReaderInv
    <3>2. QED  BY <2>1, <3>1, <1>2
  <2>2. CASE d # at
    <3>1. d \in 1 .. at - 1
      BY <2>2, <1>4
    <3>2. Tells(d, result, serial[d].size)
      BY <3>1 DEF ReaderInv, SerialTells, Tells
    <3>3. serial'[d] = serial[d]
      BY <3>1, <1>1, <1>3, <2>2 DEF ReaderInv, Dir
    <3>4. {pair \in result' : pair[1] = d} = {pair \in result : pair[1] = d}
      BY <1>2, <2>2
    <3>5. QED  BY <3>2, <3>3, <3>4 DEF Tells
  <2>3. QED  BY <2>1, <2>2
<1>8. SerialTells'
  BY <1>7 DEF SerialTells, Tells, Huge
<1>9. QED  BY <1>1, <1>2, <1>4, <1>5, <1>6, <1>8 DEF ReaderInv

\* The start and the end of a reading.
LEMMA ReadingStep == ReaderInv /\ (ReadingStarts \/ ReadingEnds) => ReaderInv'
<1> SUFFICES ASSUME ReaderInv, ReadingStarts \/ ReadingEnds PROVE ReaderInv'
  OBVIOUS
<1>1. /\ reader' = Fresh /\ at' \in {0, 1} /\ result' = {} /\ logs' = logs /\ serial' = serial
  BY DEF ReadingStarts, ReadingEnds
<1>2. reader' \in [time : Nat, size : Nat]
  BY <1>1 DEF Fresh
<1>3. Domains \in Nat /\ Domains >= 1
  BY LogsAssumption
<1>4. at' \in 0 .. Domains + 1 /\ 1 .. at' - 1 = {}
  <2> SUFFICES ASSUME NEW n \in {0, 1}, at' = n PROVE n \in 0 .. Domains + 1 /\ 1 .. n - 1 = {}
    BY <1>1
  <2> QED BY <1>3
<1>5. SerialTells'
  BY <1>4 DEF SerialTells
<1>6. QED  BY <1>1, <1>2, <1>4, <1>5 DEF ReaderInv

\* What nginx does to the logs meanwhile takes nothing back that was read.
LEMMA NginxStep == ReaderInv /\ Nginx => ReaderInv'
<1> SUFFICES ASSUME ReaderInv, NEW d \in Dir, NginxWrites(d) \/ NginxRotates(d) PROVE ReaderInv'
  BY DEF Nginx
<1>1. logs[d] \in LogRecords /\ MaxLines \in Nat /\ MaxTime \in Nat
  BY LogsAssumption DEF ReaderInv
<1>2. logs' \in [Dir -> LogRecords]
  <2>1. CASE NginxWrites(d)
    <3>1. PICK time \in 1 .. MaxTime :
             logs' = [logs EXCEPT ![d] = [lines |-> @.lines + 1, ctime |-> time]]
      BY <2>1 DEF NginxWrites
    <3>2. [lines |-> logs[d].lines + 1, ctime |-> time] \in LogRecords
      BY <1>1, <2>1 DEF LogRecords, Times, NginxWrites
    <3>3. QED  BY <3>1, <3>2 DEF ReaderInv
  <2>2. CASE NginxRotates(d)
    <3>1. \E time \in IF d \in Missing THEN Times ELSE 1 .. MaxTime :
             logs' = [logs EXCEPT ![d] = [lines |-> 0, ctime |-> time]]
      BY <2>2 DEF NginxRotates
    <3>2. 1 .. MaxTime \subseteq Times
      BY <1>1 DEF Times
    <3>3. PICK time \in Times : logs' = [logs EXCEPT ![d] = [lines |-> 0, ctime |-> time]]
      BY <3>1, <3>2
    <3>4. [lines |-> 0, ctime |-> time] \in LogRecords
      BY <1>1 DEF LogRecords
    <3>5. QED  BY <3>3, <3>4 DEF ReaderInv
  <2>3. QED  BY <2>1, <2>2
<1>3. serial' = serial /\ reader' = reader /\ at' = at /\ result' = result
  BY DEF NginxWrites, NginxRotates
<1>4. QED  BY <1>2, <1>3 DEF ReaderInv, SerialTells, Huge

\* Only two actions read the logs, and only nginx writes them; the kind of a
\* worker never changes.
SerialInv == kind \in {"logs", "stat"} /\ ReaderInv

\* Every step.
LEMMA SerialInvStep == SerialInv /\ [Next]_vars => SerialInv'
<1> SUFFICES ASSUME SerialInv, [Next]_vars PROVE SerialInv'
  OBVIOUS
<1>1. kind' = kind
  BY DEF Next, Worker, Server, Wake, Read, ReadEnds, Connect, Send, Recv, RecvClosed, RecvFails, Timeout,
         ParsedEnds, ParsedAgain, ParsedFails, ServerAnswers, Delivers, Closes, Recovers, Told,
         Interrupted, LogWritten, vars
<1> SUFFICES ReaderInv'
  BY <1>1 DEF SerialInv
<1>2. CASE UNCHANGED logVars
  BY <1>2 DEF logVars, SerialInv, ReaderInv, SerialTells, Huge
<1>3. CASE Wake
  <2>1. CASE told
    BY <2>1, <1>2, <1>3 DEF Wake
  <2>2. CASE ~told /\ kind = "logs"
    BY <2>2, <1>3, ReadingStep DEF Wake, SerialInv
  <2>3. CASE ~told /\ kind = "stat"
    BY <2>3, <1>2, <1>3 DEF Wake
  <2>4. QED  BY <2>1, <2>2, <2>3 DEF SerialInv
<1>4. CASE Read
  BY <1>4, ReadDirectoryStep DEF Read, SerialInv
<1>5. CASE ReadEnds
  BY <1>5, ReadingStep DEF ReadEnds, SerialInv
<1>6. CASE LogWritten
  BY <1>6, NginxStep DEF LogWritten, SerialInv
<1>7. CASE Connect \/ Send \/ Recv \/ RecvClosed
  BY <1>2, <1>7 DEF Connect, Send, Recv, RecvClosed
<1>8. CASE RecvFails \/ Timeout \/ ParsedEnds \/ ParsedAgain \/ ParsedFails
  BY <1>2, <1>8 DEF RecvFails, Timeout, ParsedEnds, ParsedAgain, ParsedFails
<1>9. CASE Server \/ Closes \/ Recovers \/ Told \/ Interrupted
  BY <1>2, <1>9 DEF Server, ServerAnswers, Delivers, Closes, Recovers, Told, Interrupted
<1>10. CASE UNCHANGED vars
  BY <1>2, <1>10 DEF vars
<1>11. QED
  BY <1>3, <1>4, <1>5, <1>6, <1>7, <1>8, <1>9, <1>10 DEF Next, Worker

\* LogsReader: however many directories, whatever nginx does to the logs between
\* them and whatever is left over of one in the reader of the next, of each a pass
\* reads at most a chunk in a row, and read_logs.serial says where it ends
\* (dev_nginx.cpp).
THEOREM SerialSaysWhere == Spec => []SerialTells
<1>1. Init => SerialInv
  BY ReaderInvInit DEF Init, SerialInv
<1>2. SerialInv => SerialTells
  BY DEF SerialInv, ReaderInv
<1>3. QED  BY <1>1, <1>2, SerialInvStep, PTL DEF Spec

-----------------------------------------------------------------------------
(* What the parser makes of a part of an answer.                           *)

\* An empty text has no head: nothing that did not come is an answer.
LEMMA NothingFails == \A p : Parse(p, <<>>).ret = "error"
<1>1. Len(<<>>) = 0
  OBVIOUS
<1>2. Breaks(<<>>) = {}
  BY <1>1 DEF Breaks
<1>3. QED  BY <1>2 DEF Parse

\* The first break of a text.
LEMMA BreakIsFirst ==
  ASSUME NEW text \in Seq(Tokens), Breaks(text) # {}
  PROVE  Break(text) \in Breaks(text) /\ \A j \in Breaks(text) : Break(text) <= j
<1>1. Breaks(text) \subseteq Nat
  BY DEF Breaks
<1>2. \E i \in Breaks(text) : \A j \in Breaks(text) : i <= j
  BY <1>1, LeastMember
<1>3. QED  BY <1>2 DEF Break

\* The beginning of a text has the head of the text, if it has a head.
LEMMA PrefixHead ==
  ASSUME NEW text \in Seq(Tokens), NEW n \in 0 .. Len(text), Breaks(SubSeq(text, 1, n)) # {}
  PROVE  /\ Breaks(text) # {}
         /\ Break(SubSeq(text, 1, n)) = Break(text)
         /\ Fields(SubSeq(text, 1, n)) = Fields(text)
         /\ Break(text) \in 2 .. n
<1> DEFINE part == SubSeq(text, 1, n)
<1>1. part \in Seq(Tokens) /\ Len(part) = n /\ \A i \in 1 .. n : part[i] = text[i]
  OBVIOUS
<1>2. Len(text) \in Nat /\ n \in Nat /\ n <= Len(text)
  OBVIOUS
<1>3. \A i \in Nat : i \in Breaks(part) <=> i \in Breaks(text) /\ i <= n
  <2>1. ASSUME NEW i \in Nat, i \in 2 .. n  PROVE part[i] = text[i] /\ part[i - 1] = text[i - 1]
    <3>1. i \in 1 .. n /\ i - 1 \in 1 .. n
      BY <2>1, <1>2
    <3>2. QED  BY <3>1, <1>1
  <2> HIDE DEF part
  <2>2. QED  BY <2>1, <1>1, <1>2 DEF Breaks
<1>4. /\ Break(part) \in Breaks(part)
      /\ \A j \in Breaks(part) : Break(part) <= j
  BY <1>1, BreakIsFirst
<1> HIDE DEF part
<1>5. Breaks(part) \subseteq Nat /\ Breaks(text) \subseteq Nat /\ Breaks(part) \subseteq 2 .. n
  BY <1>1 DEF Breaks
<1>6. Breaks(text) # {}
  BY <1>3, <1>4, <1>5
<1>7. /\ Break(text) \in Breaks(text)
      /\ \A j \in Breaks(text) : Break(text) <= j
  BY <1>6, BreakIsFirst
<1>8. Break(text) <= Break(part)
  BY <1>3, <1>4, <1>5, <1>7
<1>9. Break(text) \in Breaks(part)
  BY <1>8, <1>3, <1>4, <1>5, <1>7, <1>2
<1>10. Break(part) <= Break(text)
  BY <1>4, <1>9
<1>11. Break(part) = Break(text)
  BY <1>8, <1>10, <1>4, <1>5, <1>7
<1>12. Break(text) \in 2 .. n
  BY <1>9, <1>5
<1>13. Fields(part) = Fields(text)
  <2>1. \A j \in 1 .. Break(text) - 2 : part[j] = text[j] /\ \A k \in 1 .. j : part[k] = text[k]
    BY <1>12, <1>1, <1>2
  <2>2. Fields(part) = {part[i] : i \in {j \in 1 .. Break(text) - 2 : \A k \in 1 .. j : part[k] # "end"}}
    BY <1>11 DEF Fields
  <2>3. {j \in 1 .. Break(text) - 2 : \A k \in 1 .. j : part[k] # "end"}
          = {j \in 1 .. Break(text) - 2 : \A k \in 1 .. j : text[k] # "end"}
    BY <2>1
  <2>4. Fields(text) = {text[i] : i \in {j \in 1 .. Break(text) - 2 : \A k \in 1 .. j : text[k] # "end"}}
    BY DEF Fields
  <2>5. \A i \in {j \in 1 .. Break(text) - 2 : \A k \in 1 .. j : text[k] # "end"} : part[i] = text[i]
    BY <2>1
  <2>6. QED  BY <2>2, <2>3, <2>4, <2>5
<1>14. QED  BY <1>6, <1>11, <1>12, <1>13 DEF part

\* A beginning of an answer that is taken for done is all of it, if what is
\* read of its length is what there is of its body.
LEMMA DoneIsAll ==
  ASSUME NEW text \in Answers, NEW n \in 0 .. Len(text), NEW p \in [loc : BOOLEAN, chunked : BOOLEAN],
         Parse(p, SubSeq(text, 1, n)).ret = "done", ~p.chunked,
         "len" \in Fields(SubSeq(text, 1, n)), "chunk" \notin Fields(SubSeq(text, 1, n))
  PROVE  SubSeq(text, 1, n) = text
<1> DEFINE part == SubSeq(text, 1, n)
<1>1. text \in Seq(Tokens) /\ Length \in Nat
  BY UploadAssumption, LengthAssumption
<1>2. part \in Seq(Tokens) /\ Len(part) = n /\ Len(text) \in Nat /\ n \in Nat /\ n <= Len(text)
  BY <1>1
<1>3. Breaks(part) # {} /\ HasVersion(part)
  BY DEF Parse
<1>4. /\ Breaks(text) # {} /\ Break(part) = Break(text) /\ Fields(part) = Fields(text)
      /\ Break(text) \in 2 .. n
  BY <1>1, <1>3, PrefixHead
<1> HIDE DEF part
<1>5. Finish(Options(p, part), part)
  <2>1. Understood(p, part).ret = "done"
    BY <1>3 DEF Parse, part
  <2>2. QED  BY <2>1 DEF Understood
<1>6. ~Options(p, part).chunked
  BY DEF Options, part
<1>7. Len(Body(part)) = n - Break(text) /\ Len(Body(text)) = Len(text) - Break(text)
  <2>1. Body(part) = SubSeq(part, Break(text) + 1, n)
    BY <1>2, <1>4 DEF Body
  <2>2. \A s \in Seq(Tokens) : \A k \in 0 .. Len(s) : Len(SubSeq(s, k + 1, Len(s))) = Len(s) - k
    OBVIOUS
  <2>3. Break(text) \in 0 .. n /\ Break(text) \in 0 .. Len(text)
    BY <1>2, <1>4
  <2>4. QED  BY <2>1, <2>2, <2>3, <1>1, <1>2 DEF Body
<1>8. Len(Body(part)) \in Nat /\ Length <= Len(Body(part))
  <2>1. Len(Body(part)) \in Nat
    BY <1>7, <1>2, <1>4
  <2>2. "len" \in Fields(part)
    BY DEF part
  <2>3. IF Len(Body(part)) = 0 THEN Length = 0 ELSE Length <= Len(Body(part))
    BY <2>2, <1>5, <1>6 DEF Finish
  <2>4. QED  BY <2>1, <2>3, <1>1
<1>9. Len(Body(text)) <= Length
  BY <1>4, AnswersAssumption DEF part
<1>10. n = Len(text)
  BY <1>7, <1>8, <1>9, <1>1, <1>2, <1>4
<1>11. QED  BY <1>10, <1>1 DEF part

-----------------------------------------------------------------------------
(* The upload.                                                             *)

Text == Seq(Tokens)

\* What is under way is text.
NetTypes ==
  /\ conn \in [state : {"none", "open", "closed", "reset"}, request : {"none", "part", "records", "echo"},
               answer : Answers \cup {<<>>}, rest : Text, came : Text]
  /\ page \in [loc : BOOLEAN, chunked : BOOLEAN]
  /\ buf \in Text /\ data \in Text
  /\ payload \in {"records", "echo"} /\ size \in {"fits", "cut", "zero"}

\* Until the server has had the records, and while they are whole and in
\* their place, nothing of an answer can be in the worker.
NothingCame == conn.rest = <<>> /\ conn.came = <<>> /\ buf = <<>> /\ data = <<>>
DeliveryInv ==
  /\ pc \in {"sleep", "read"} => payload = "records" /\ size = "fits" /\ ~got /\ conn.request = "none"
  /\ ~got /\ payload = "records" /\ size # "cut" =>
       NothingCame /\ conn.request \in {"none", "records"}

UploadInv == NetTypes /\ DeliveryInv

\* The empty text is one.
LEMMA EmptyIsText == <<>> \in Text
  BY DEF Text

\* A fresh connection is one, and has nothing.
LEMMA FreshConn ==
  ASSUME NEW state \in {"none", "open", "closed", "reset"}
  PROVE  /\ Conn(state) \in [state : {"none", "open", "closed", "reset"},
                             request : {"none", "part", "records", "echo"},
                             answer : Answers \cup {<<>>}, rest : Text, came : Text]
         /\ Conn(state).rest = <<>> /\ Conn(state).came = <<>> /\ Conn(state).request = "none"
  BY EmptyIsText DEF Conn

\* Nothing has come at the start.
LEMMA UploadInvInit == Init => UploadInv
<1> SUFFICES ASSUME Init PROVE UploadInv
  OBVIOUS
<1>1. NetTypes
  BY FreshConn, EmptyIsText DEF Init, NetTypes, NoPage
<1>2. DeliveryInv
  BY FreshConn DEF Init, DeliveryInv, NothingCame
<1>3. QED  BY <1>1, <1>2 DEF UploadInv

\* The end of a try leaves nothing of it, and the end of a pass a new one.
LEMMA TryEndsStep ==
  ASSUME UploadInv, TryEnds, payload' \in {"records", "echo"}, size' \in {"fits", "cut", "zero"}
  PROVE  NetTypes' /\ NothingCame' /\ conn'.request = "none"
<1>1. conn' = Conn("none") /\ page' = NoPage /\ buf' = <<>> /\ data' = <<>>
  BY DEF TryEnds
<1>2. Text' = Text
  BY DEF Text
<1>3. QED  BY <1>1, FreshConn, EmptyIsText DEF NetTypes, NothingCame, NoPage, Text

\* The end of a pass.
LEMMA OverStep ==
  ASSUME UploadInv, Over
  PROVE  UploadInv'
<1>1. NetTypes' /\ NothingCame' /\ conn'.request = "none"
  BY TryEndsStep DEF Over
<1>2. DeliveryInv'
  BY <1>1 DEF Over, DeliveryInv
<1>3. QED  BY <1>1, <1>2 DEF UploadInv

\* What the steps do that leave the connection and what came as they are.
LEMMA StillStep ==
  ASSUME UploadInv, conn' = conn, Received' = Received, got' = got, payload' = payload, size' = size,
         pc' \in {"sleep", "read"} => pc \in {"sleep", "read"}
  PROVE  UploadInv'
<1>1. page' = page /\ buf' = buf /\ data' = data
  BY DEF Received
<1>2. NetTypes'
  BY <1>1 DEF UploadInv, NetTypes, Text
<1>3. DeliveryInv'
  BY <1>1 DEF UploadInv, DeliveryInv, NothingCame
<1>4. QED  BY <1>2, <1>3 DEF UploadInv

\* The end of the reading opens the next try or the pass ends.
LEMMA ReadEndsStep ==
  ASSUME UploadInv, ReadEnds
  PROVE  UploadInv'
<1>1. /\ conn' = conn /\ page' = page /\ buf' = buf /\ data' = data
      /\ payload' = payload /\ got' = got /\ pc = "read"
      /\ (pc' = "sleep" /\ size' = size) \/ (pc' = "connect" /\ size' \in {"fits", "cut", "zero"})
  BY DEF ReadEnds, Received
<1>2. NothingCame /\ conn.request = "none" /\ payload = "records" /\ size = "fits" /\ ~got
  BY <1>1 DEF UploadInv, DeliveryInv
<1>3. NetTypes'
  BY <1>1 DEF UploadInv, NetTypes, Text
<1>4. DeliveryInv'
  BY <1>1, <1>2 DEF DeliveryInv, NothingCame
<1>5. QED  BY <1>3, <1>4 DEF UploadInv

\* A connection has nothing of the one before.
LEMMA ConnectStep ==
  ASSUME UploadInv, Connect
  PROVE  UploadInv'
<1>1. CASE Over
  BY <1>1, OverStep
<1>2. CASE /\ pc' = "send" /\ (conn' = Conn("open") \/ conn' = Conn("none"))
           /\ UNCHANGED <<payload, size, got, Received>>
  <2>1. page' = page /\ buf' = buf /\ data' = data /\ payload' = payload /\ size' = size /\ got' = got
    BY <1>2 DEF Received
  <2>2. NetTypes'
    BY <1>2, <2>1, FreshConn DEF UploadInv, NetTypes, Text
  <2>3. conn'.rest = <<>> /\ conn'.came = <<>> /\ conn'.request = "none"
    BY <1>2, FreshConn
  <2>4. DeliveryInv'
    BY <1>2, <2>1, <2>3 DEF UploadInv, DeliveryInv, NothingCame
  <2>5. QED  BY <2>2, <2>4 DEF UploadInv
<1>3. QED  BY <1>1, <1>2 DEF Connect

\* A request sent, whole or in part.
LEMMA SendStep ==
  ASSUME UploadInv, Send
  PROVE  UploadInv'
<1>1. CASE PassEnds
  BY <1>1, OverStep DEF PassEnds
<1>2. CASE ~PassEnds
  <2> DEFINE sent == IF payload = "records" /\ size = "cut" THEN "part" ELSE payload
  <2>1. /\ pc' = "recv" /\ conn' = [conn EXCEPT !.request = sent]
        /\ page' \in [loc : BOOLEAN, chunked : {FALSE}]
        /\ payload' = payload /\ size' = size /\ buf' = buf /\ data' = data /\ got' = got
    BY <1>2 DEF Send
  <2>2. sent \in {"part", "records", "echo"} /\ (payload = "records" /\ size # "cut" => sent = "records")
    BY DEF UploadInv, NetTypes
  <2> HIDE DEF sent
  <2>3. conn \in [state : {"none", "open", "closed", "reset"}, request : {"none", "part", "records", "echo"},
                  answer : Answers \cup {<<>>}, rest : Text, came : Text]
    BY DEF UploadInv, NetTypes
  <2>4. /\ conn' \in [state : {"none", "open", "closed", "reset"}, request : {"none", "part", "records", "echo"},
                      answer : Answers \cup {<<>>}, rest : Text, came : Text]
        /\ conn'.rest = conn.rest /\ conn'.came = conn.came /\ conn'.request = sent
    BY <2>1, <2>2, <2>3
  <2>5. NetTypes'
    BY <2>1, <2>4 DEF UploadInv, NetTypes, Text
  <2>6. DeliveryInv'
    BY <2>1, <2>2, <2>4 DEF UploadInv, DeliveryInv, NothingCame
  <2>7. QED  BY <2>5, <2>6 DEF UploadInv
<1>3. QED  BY <1>1, <1>2

\* What is kept of what was received is text, and of nothing it is nothing.
LEMMA KeptText ==
  ASSUME NetTypes, NEW text \in Text
  PROVE  Kept(text) \in Text /\ (text = <<>> /\ data = <<>> => Kept(text) = <<>>)
  BY DEF NetTypes, Kept

\* What is received is moved from the connection to the buffer, in order.
LEMMA RecvStep ==
  ASSUME UploadInv, Recv \/ RecvClosed
  PROVE  UploadInv'
<1> USE DEF Text
<1>1. /\ buf \in Text /\ data \in Text
      /\ conn \in [state : {"none", "open", "closed", "reset"}, request : {"none", "part", "records", "echo"},
                   answer : Answers \cup {<<>>}, rest : Text, came : Text]
  BY DEF UploadInv, NetTypes
<1>2. CASE Recv
  <2> DEFINE n == Least(RecvSize, Len(conn.came))
  <2>1. /\ conn.came # <<>> /\ pc' = "recv"
        /\ conn' = [conn EXCEPT !.came = SubSeq(@, n + 1, Len(@))]
        /\ buf' = SubSeq(conn.came, 1, n) \o SubSeq(buf, n + 1, Len(buf))
        /\ data' = Kept(data \o buf')
        /\ page' = page /\ payload' = payload /\ size' = size /\ got' = got
    BY <1>2 DEF Recv
  <2>2. conn.came \in Text /\ n \in Nat /\ n <= Len(conn.came)
    BY <1>1, UploadAssumption DEF Least
  <2> HIDE DEF n
  <2>3. SubSeq(conn.came, n + 1, Len(conn.came)) \in Text /\ SubSeq(conn.came, 1, n) \in Text
    BY <2>2
  <2>4. SubSeq(buf, n + 1, Len(buf)) \in Text
    BY <2>2, <1>1
  <2>5. buf' \in Text
    BY <2>1, <2>3, <2>4
  <2>6. data' \in Text
    <3>1. data \o buf' \in Text
      BY <2>5, <1>1
    <3>2. Kept(data \o buf') \in Text
      BY <3>1, <1>1 DEF Kept
    <3>3. QED  BY <2>1, <3>2
  <2>7. NetTypes'
    BY <2>1, <2>3, <2>5, <2>6, <1>1 DEF UploadInv, NetTypes
  <2>8. DeliveryInv'
    BY <2>1 DEF UploadInv, DeliveryInv, NothingCame
  <2>9. QED  BY <2>7, <2>8 DEF UploadInv
<1>3. CASE RecvClosed
  <2>1. /\ pc' \in {"recv", "parse"} /\ data' \in {data, Kept(data \o buf)}
        /\ conn' = conn /\ buf' = buf /\ page' = page /\ payload' = payload /\ size' = size /\ got' = got
    BY <1>3 DEF RecvClosed
  <2>2. data \o buf \in Text /\ (data = <<>> /\ buf = <<>> => data \o buf = <<>>)
    BY <1>1
  <2>3. data' \in Text /\ (data = <<>> /\ buf = <<>> => data' = <<>>)
    BY <2>1, <2>2, <1>1, KeptText DEF UploadInv
  <2>4. NetTypes'
    BY <2>1, <2>3 DEF UploadInv, NetTypes
  <2>5. DeliveryInv'
    BY <2>1, <2>3 DEF UploadInv, DeliveryInv, NothingCame
  <2>6. QED  BY <2>4, <2>5 DEF UploadInv
<1>4. QED  BY <1>2, <1>3

\* What the parser makes of the buffer, and a recv that fails or that a signal
\* stands before or ends.
LEMMA ParsedStep ==
  ASSUME UploadInv, RecvFails \/ Interrupted \/ ParsedEnds \/ ParsedAgain \/ ParsedFails
  PROVE  UploadInv'
<1>1. CASE ParsedEnds
  BY <1>1, OverStep DEF ParsedEnds, PassEnds
<1>2. CASE RecvFails \/ ParsedFails \/ (Interrupted /\ pc' = "connect")
  <2>1. TryEnds /\ payload' \in {"records", "echo"} /\ size' = size /\ pc' = "connect"
    BY <1>2 DEF RecvFails, ParsedFails, Interrupted, UploadInv, NetTypes
  <2>2. NetTypes' /\ NothingCame' /\ conn'.request = "none"
    BY <2>1, TryEndsStep DEF UploadInv, NetTypes
  <2>3. QED  BY <2>1, <2>2 DEF UploadInv, DeliveryInv
<1>3. CASE ParsedAgain
  <2>1. /\ pc' = "recv" /\ data' = <<>> /\ page' = Parse(page, data).page
        /\ conn' = conn /\ buf' = buf /\ payload' = payload /\ size' = size /\ got' = got
    BY <1>3 DEF ParsedAgain
  <2>2. Parse(page, data).page = page \/ Parse(page, data).page = Options(page, data)
    BY DEF Parse, Understood
  <2>3. Parse(page, data).page \in [loc : BOOLEAN, chunked : BOOLEAN]
    <3>1. page \in [loc : BOOLEAN, chunked : BOOLEAN]
      BY DEF UploadInv, NetTypes
    <3>2. Options(page, data) \in [loc : BOOLEAN, chunked : BOOLEAN]
      BY <3>1 DEF Options
    <3>3. QED  BY <2>2, <3>1, <3>2
  <2>4. NetTypes'
    BY <2>1, <2>3, EmptyIsText DEF UploadInv, NetTypes, Text
  <2>5. DeliveryInv'
    BY <2>1 DEF UploadInv, DeliveryInv, NothingCame
  <2>6. QED  BY <2>4, <2>5 DEF UploadInv
<1>4. CASE Interrupted /\ pc' # "connect"
  BY <1>4, StillStep DEF Interrupted
<1>5. QED  BY <1>1, <1>2, <1>3, <1>4

\* The server: an answer is written once, and delivered piece by piece.
LEMMA ServerStep ==
  ASSUME UploadInv, ServerAnswers \/ Delivers \/ Closes
  PROVE  UploadInv'
<1> DEFINE Conns == [state : {"none", "open", "closed", "reset"}, request : {"none", "part", "records", "echo"},
                     answer : Answers \cup {<<>>}, rest : Text, came : Text]
<1>1. conn \in Conns /\ \A text \in Answers : text \in Text
  BY UploadAssumption DEF UploadInv, NetTypes, Text
<1>2. /\ page' = page /\ buf' = buf /\ data' = data /\ payload' = payload /\ size' = size /\ pc' = pc
  BY DEF ServerAnswers, Delivers, Closes
<1>3. CASE ServerAnswers
  <2>1. PICK text \in Answers : conn' = [conn EXCEPT !.answer = text, !.rest = text, !.request = "none"]
    BY <1>3 DEF ServerAnswers
  <2>2. conn.request # "none" /\ conn.state = "open" /\ got' = (got \/ conn.request = "records")
    BY <1>3 DEF ServerAnswers
  <2>3. conn' \in Conns
    BY <2>1, <1>1
  <2>4. NetTypes'
    BY <1>2, <2>3 DEF UploadInv, NetTypes, Text
  <2>5. pc \notin {"sleep", "read"}
    BY <2>2 DEF UploadInv, DeliveryInv
  <2>6. ~got' /\ payload' = "records" /\ size' # "cut" => FALSE
    BY <1>2, <2>2 DEF UploadInv, DeliveryInv
  <2>7. QED  BY <2>4, <2>6, <2>5, <1>2 DEF UploadInv, DeliveryInv
<1>4. CASE Delivers
  <2>1. PICK n \in 1 .. Len(conn.rest) :
          conn' = [conn EXCEPT !.came = @ \o SubSeq(conn.rest, 1, n),
                               !.rest = SubSeq(conn.rest, n + 1, Len(conn.rest))]
    BY <1>4 DEF Delivers
  <2>2. conn.rest # <<>> /\ got' = got
    BY <1>4 DEF Delivers
  <2>3. /\ conn.came \o SubSeq(conn.rest, 1, n) \in Text
        /\ SubSeq(conn.rest, n + 1, Len(conn.rest)) \in Text
    BY <1>1 DEF Text
  <2>4. conn' \in Conns
    BY <2>1, <2>3, <1>1
  <2>5. NetTypes'
    BY <1>2, <2>4 DEF UploadInv, NetTypes, Text
  <2>6. DeliveryInv'
    BY <1>2, <2>2 DEF UploadInv, DeliveryInv, NothingCame
  <2>7. QED  BY <2>5, <2>6 DEF UploadInv
<1>5. CASE Closes
  <2>1. /\ got' = got
        /\ \/ conn' = [conn EXCEPT !.state = "closed", !.rest = <<>>, !.request = "none"]
           \/ conn' = [conn EXCEPT !.state = "reset", !.rest = <<>>, !.request = "none", !.came = <<>>]
    BY <1>5 DEF Closes
  <2>2. conn' \in Conns
    BY <2>1, <1>1, EmptyIsText
  <2>3. conn'.rest = <<>> /\ conn'.request = "none" /\ (conn'.came = conn.came \/ conn'.came = <<>>)
    BY <2>1, <1>1
  <2>4. NetTypes'
    BY <1>2, <2>2 DEF UploadInv, NetTypes, Text
  <2>5. DeliveryInv'
    BY <1>2, <2>1, <2>3 DEF UploadInv, DeliveryInv, NothingCame
  <2>6. QED  BY <2>4, <2>5 DEF UploadInv
<1>6. QED  BY <1>3, <1>4, <1>5

\* Every step.
LEMMA UploadInvStep == UploadInv /\ [Next]_vars => UploadInv'
<1> SUFFICES ASSUME UploadInv, [Next]_vars PROVE UploadInv'
  OBVIOUS
<1>1. CASE Wake
  <2>1. /\ conn' = conn /\ Received' = Received /\ got' = got /\ payload' = payload /\ size' = size
        /\ pc = "sleep"
    BY <1>1 DEF Wake
  <2>2. QED  BY <2>1, StillStep
<1>2. CASE Timeout
  BY <1>2, StillStep DEF Timeout
<1>3. CASE Read \/ Recovers \/ Told \/ LogWritten \/ UNCHANGED vars
  <2>1. UNCHANGED netVars
    BY <1>3 DEF Read, Recovers, Told, LogWritten, vars
  <2>2. /\ conn' = conn /\ Received' = Received /\ got' = got /\ payload' = payload /\ size' = size /\ pc' = pc
    BY <2>1 DEF netVars, Received
  <2>3. QED  BY <2>2, StillStep
<1>4. CASE ReadEnds
  BY <1>4, ReadEndsStep
<1>5. CASE Connect
  BY <1>5, ConnectStep
<1>6. CASE Send
  BY <1>6, SendStep
<1>7. CASE Recv \/ RecvClosed
  BY <1>7, RecvStep
<1>8. CASE RecvFails \/ Interrupted \/ ParsedEnds \/ ParsedAgain \/ ParsedFails
  BY <1>8, ParsedStep
<1>9. CASE ServerAnswers \/ Delivers \/ Closes
  BY <1>9, ServerStep
<1>10. QED
  BY <1>1, <1>2, <1>3, <1>4, <1>5, <1>6, <1>7, <1>8, <1>9 DEF Next, Worker, Server

\* A done that follows an answer means that the request had arrived whole.
LEMMA UploadInvDelivered == UploadInv => DoneWasDelivered
<1> SUFFICES ASSUME UploadInv, Reports({"done", "direct"}) PROVE got \/ payload = "echo" \/ size = "cut"
  BY DEF DoneWasDelivered
<1>1. data # <<>>
  BY NothingFails DEF Reports
<1>2. QED  BY <1>1 DEF UploadInv, NetTypes, DeliveryInv, NothingCame

\* A done means that the whole answer had come.
LEMMA UploadInvWhole == UploadInv => DoneIsWhole
<1> SUFFICES ASSUME UploadInv, Reports({"done"}), data # <<>>, Len(data) <= Len(conn.answer),
                    data = SubSeq(conn.answer, 1, Len(data)),
                    "len" \in Fields(data), "chunk" \notin Fields(data), ~page.chunked
             PROVE  data = conn.answer
  BY DEF DoneIsWhole
<1>1. /\ data \in Seq(Tokens) /\ page \in [loc : BOOLEAN, chunked : BOOLEAN]
      /\ conn.answer \in Answers \cup {<<>>}
  BY DEF UploadInv, NetTypes, Text
<1>2. Len(data) \in Nat /\ Len(data) # 0
  BY <1>1
<1>3. conn.answer # <<>>
  BY <1>2
<1>4. conn.answer \in Answers /\ conn.answer \in Seq(Tokens)
  BY <1>1, <1>3, UploadAssumption
<1>5. Len(data) \in 0 .. Len(conn.answer)
  BY <1>2, <1>4
<1>6. Parse(page, data).ret = "done"
  BY DEF Reports
<1> DEFINE n == Len(data)
<1>7. n \in 0 .. Len(conn.answer) /\ data = SubSeq(conn.answer, 1, n)
  BY <1>5
<1> HIDE DEF n
<1>8. SubSeq(conn.answer, 1, n) = conn.answer
  BY <1>1, <1>4, <1>6, <1>7, DoneIsAll
<1>9. QED  BY <1>7, <1>8

\* A pass that ends well has delivered what it read, save what the code itself
\* replaces or cuts (nodes_handler_statlogs_process, nodes_handler_statload_process).
THEOREM DoneMeansDelivered == Spec => []DoneWasDelivered
  BY UploadInvInit, UploadInvStep, UploadInvDelivered, PTL DEF Spec

\* However the answer is cut into pieces and whatever fails between them, a pass is
\* taken for done only with the whole of it, where its length was read (inet_http::finish).
THEOREM DoneMeansWhole == Spec => []DoneIsWhole
  BY UploadInvInit, UploadInvStep, UploadInvWhole, PTL DEF Spec
=============================================================================
