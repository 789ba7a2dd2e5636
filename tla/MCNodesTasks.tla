---------------------------- MODULE MCNodesTasks ----------------------------
(* Small instances of NodesTasks for TLC.  The texts v1 and v2 are sent, v2    *)
(* is one that does not decode, and a certificate is of both.                *)
EXTENDS NodesTasks

CONSTANTS v1, v2

Versions == {v1, v2}

Updates == [kind: Kind, opt: {"update"}, dir: {"conf", "sites"},
            content: Versions \cup {Empty}, extra: Versions \cup {Empty}]
Removes == [kind: {"ssl", "lua", "errpage"}, opt: {"remove"}, dir: {"conf"},
            content: {Empty}, extra: {Empty}]

\* dir says something of nginx_main and site only, extra of certificates; what is
\* empty is refused by all in the same way, but by site and the two of ssl.
Tasks ==
  {t \in Updates \cup Removes :
     /\ t.kind = "site" => t.dir = "sites"
     /\ t.kind \notin {"nginx_main", "site"} => t.dir = "conf"
     /\ IF t.kind = "ssl" /\ t.opt = "update"
        THEN t.extra = (IF t.content = v1 THEN v2 ELSE v1) \/ (t.extra = Empty /\ t.content = v1)
        ELSE t.extra = Empty
     /\ t.opt = "update" /\ t.content = Empty => t.kind \in {"site", "ssl", "lua"}}

Sites == {t \in Tasks : t.kind = "site"}
=============================================================================
