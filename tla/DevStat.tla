------------------------------- MODULE DevStat --------------------------------
(***************************************************************************)
(* The figures of the machine that the load worker sends every five        *)
(* minutes (dev_stat.cpp): what dev_stat_info makes of the counters of the *)
(* kernel, of the disks and of the workers of nginx, with what it keeps    *)
(* from pass to pass in param.  The kernel and nginx are external: they    *)
(* stand still for a pass, and no pid is given twice.  The memory, of      *)
(* which nothing is kept, and the text of the report are left out.         *)
(***************************************************************************)
EXTENDS Naturals, Sequences, SequencesExt, FiniteSets

CONSTANTS
  Word,        \* 2^32: one more than the greatest unsigned int
  FullRate,    \* 10000: a rate of one
  Cards,       \* the network cards, in the order of /proc/net/dev
  Ticks,       \* what the processor may have done: user, system, other
  Bytes,       \* what a card may have had: recv, sent
  Workers,     \* the workers nginx may have, one set after the other
  MaxChanges   \* bound: changes of the machine

ASSUME DevStatAssumption ==
  /\ Word \in Nat \ {0} /\ FullRate \in Nat \ {0} /\ MaxChanges \in Nat
  /\ Ticks \subseteq [user : Nat, system : Nat, other : Nat]
  /\ Bytes \subseteq [recv : Nat, sent : Nat]
  /\ Workers \in Seq(ToSet(Workers)) /\ Cards \in Seq(ToSet(Cards))
  /\ \A i \in DOMAIN Workers :
       /\ IsFiniteSet(Workers[i]) /\ Workers[i] \cap {"sh", "grep"} = {}
       /\ \A j \in DOMAIN Workers \ {i} : Workers[i] \cap Workers[j] = {}

VARIABLES
  kernel,    \* /proc/stat and /proc/net/dev
  nginx80,   \* which of Workers nginx has, and how many connections
  disks,     \* what statfs says of "/" and "/boot": "counted", "no inodes" or "none"
  param,     \* what is kept: the counters of the last pass, process_ids
  info,      \* the figures of the last pass
  ticked,    \* history: the counters of the processor at the last pass and the one before
  counted,   \* history: the bytes of all figures that were made
  listing,   \* history: which Workers were listed last, and those found gone since
  met,       \* history: nginx80 at the last pass
  changes    \* history: changes of the machine

statVars == <<kernel, nginx80, disks, param, info, ticked, counted, listing, met, changes>>

NoTicks  == [user |-> 0, system |-> 0, other |-> 0]
NoNginx  == [at |-> 0, established |-> 0]
Card     == ToSet(Cards)
Alive(n) == IF n.at = 0 THEN {} ELSE Workers[n.at]

StatInit ==
  /\ kernel = [cpu |-> NoTicks, net |-> [c \in Card |-> [recv |-> 0, sent |-> 0]]]
  /\ nginx80 = NoNginx /\ met = NoNginx
  /\ disks \in [root : {"counted", "no inodes"}, boot : {"counted", "no inodes", "none"}]
  /\ param = [user |-> 0, system |-> 0, total |-> 0, last |-> 0, ids |-> {}]
  /\ info = [cpu |-> 0, sys |-> 0, out |-> 0, tcp |-> 0, connected |-> FALSE, boot |-> "none", up |-> TRUE]
  /\ ticked = <<NoTicks, NoTicks>>
  /\ counted = 0 /\ changes = 0 /\ listing = [at |-> 0, gone |-> {}]

-----------------------------------------------------------------------------
\* collection_cpu: counters and rates are unsigned ints, so is the product.
Minus(i, j) == (i + Word - (j % Word)) % Word
Total(t)    == t.user + t.system + t.other
Rate(part, whole) == IF whole = 0 THEN 0 ELSE ((part * FullRate) % Word) \div whole

UserNow  == Minus(kernel.cpu.user, param.user)
SysNow   == Minus(kernel.cpu.system, param.system)
TotalNow == Minus(Total(kernel.cpu), param.total)

\* collection_net: what is kept of the bytes received is overwritten with the
\* bytes sent, and each card is compared with what the one before it left.
CollectsWell(acc, card) ==
  LET n == kernel.net[card] IN
  IF (n.recv = 0 /\ n.sent = 0) \/ n.recv < acc.last \/ n.sent < acc.last THEN acc
  ELSE [last |-> n.recv, out |-> n.sent - acc.last, sum |-> acc.sum + n.sent - acc.last]
Collects(acc, card) ==
  LET n == kernel.net[card] IN
  IF (n.recv = 0 /\ n.sent = 0) \/ n.recv < acc.last \/ n.sent < acc.last THEN acc
  ELSE [last |-> n.sent, out |-> n.sent - acc.last, sum |-> acc.sum + n.sent - acc.last]
Collected[i \in 0 .. Len(Cards)] ==
  IF i = 0 THEN [last |-> param.last, out |-> info.out, sum |-> counted]
  ELSE Collects(Collected[i - 1], Cards[i])
Net == Collected[Len(Cards)]

\* pids: ps lists the shell that runs it, whose command line has the words
\* looked for, and grep, if it has begun; both are gone when pids returns.
Ghosts == {{"sh"}, {"sh", "grep"}}
Found  == IF param.ids # {} THEN {param.ids} ELSE {Alive(nginx80) \union own : own \in Ghosts}
Few(ids) == param.ids = {} /\ Cardinality(ids) <= 1

\* do_tcp: every process there is tells the connections of the whole machine;
\* one that is there and has none is dropped, one that is gone is kept.
KeptIds(ids) == IF nginx80.established > 0 THEN ids ELSE ids \ Alive(nginx80)
Tcp(ids)  == Cardinality(ids \cap Alive(nginx80)) * nginx80.established

\* A disk without inodes to count divides by zero and ends the worker; one
\* that is not there leaves the figures of the disk before.
NoInodes == "no inodes" \in {disks.root, disks.boot}

Dies ==
  /\ info.up /\ NoInodes
  /\ info' = [info EXCEPT !.up = FALSE]
  /\ UNCHANGED <<kernel, nginx80, disks, param, ticked, counted, listing, met, changes>>

\* dev_stat_info.
Pass ==
  /\ info.up /\ ~NoInodes
  /\ \E ids \in Found :
       LET kept == IF Few(ids) THEN ids ELSE KeptIds(ids) IN
       /\ param' = [user |-> kernel.cpu.user % Word, system |-> kernel.cpu.system % Word,
                    total |-> Total(kernel.cpu) % Word, last |-> Net.last, ids |-> kept]
       /\ info' = [cpu |-> Rate((UserNow + SysNow) % Word, TotalNow), sys |-> Rate(SysNow, TotalNow),
                   out |-> Net.out, tcp |-> IF Few(ids) THEN info.tcp ELSE Tcp(ids),
                   connected |-> ~Few(ids) /\ kept # {},
                   boot |-> IF disks.boot = "none" THEN "root" ELSE "boot", up |-> TRUE]
       /\ listing' = [at   |-> IF param.ids = {} THEN nginx80.at ELSE listing.at,
                      gone |-> (IF param.ids = {} THEN {} ELSE listing.gone)
                               \union (IF Few(ids) THEN {} ELSE ids \ Alive(nginx80))]
  /\ ticked' = <<ticked[2], kernel.cpu>> /\ counted' = Net.sum /\ met' = nginx80
  /\ UNCHANGED <<kernel, nginx80, disks, changes>>
-----------------------------------------------------------------------------
(* The machine: external.                                                  *)

Changes == changes < MaxChanges /\ changes' = changes + 1 /\ info.up
           /\ UNCHANGED <<disks, param, info, ticked, counted, listing, met>>

CpuRuns ==
  /\ Changes
  /\ \E t \in Ticks : kernel' = [kernel EXCEPT !.cpu = [f \in DOMAIN t |-> @[f] + t[f]]]
  /\ UNCHANGED nginx80

CardRuns ==
  /\ Changes
  /\ \E c \in Card, b \in Bytes : kernel' = [kernel EXCEPT !.net[c] = [f \in DOMAIN b |-> @[f] + b[f]]]
  /\ UNCHANGED nginx80

\* A task reloads nginx: new workers, whose numbers are new.
NginxReloads ==
  /\ Changes /\ nginx80.at < Len(Workers)
  /\ nginx80' = [nginx80 EXCEPT !.at = @ + 1]
  /\ UNCHANGED kernel

Connects80 ==
  /\ Changes /\ nginx80.at > 0
  /\ \E n \in 0 .. 2 : nginx80' = [nginx80 EXCEPT !.established = n]
  /\ UNCHANGED kernel

StatNext == Pass \/ Dies \/ CpuRuns \/ CardRuns \/ NginxReloads \/ Connects80

-----------------------------------------------------------------------------
Did(t, s)  == [f \in DOMAIN t |-> t[f] - s[f]]
Share(part, whole) == IF whole = 0 THEN 0 ELSE (part * FullRate) \div whole

\* The rates are those of the time since the pass before, as long as the
\* products fit a word: with the code's numbers 429 496 ticks, which sixteen
\* processors do in five minutes.
CpuRight ==
  LET did == Did(ticked[2], ticked[1]) IN
  (did.user + did.system) * FullRate < Word /\ Total(did) < Word =>
    /\ info.cpu = Share(did.user + did.system, Total(did))
    /\ info.sys = Share(did.system, Total(did))

\* With one card that has any traffic, all figures made add up to the bytes sent
\* up to the last that was made; with more they are of different cards.
NetRight ==
  \A c \in Card :
    (\A d \in Card \ {c} : kernel.net[d] = [recv |-> 0, sent |-> 0]) =>
      counted = param.last /\ param.last <= kernel.net[c].sent

\* While some listed process is there, the connections are counted once for each
\* of them.  A process that was found gone is never dropped, so once one was,
\* the workers nginx has later are never listed, and nothing is counted.
TcpRight ==
  /\ info.connected => info.tcp = Cardinality(param.ids \cap Alive(met)) * met.established
  /\ listing.gone \subseteq param.ids
  /\ listing.gone # {} /\ met.at > listing.at => info.connected /\ info.tcp = 0

\* What the report says is right under the conditions its parts name
\* (dev_stat.cpp: collection_cpu, collection_net, do_tcp, pids, tcps).
FiguresRight == CpuRight /\ NetRight /\ TcpRight
=============================================================================
