------------------------------- MODULE Upload -------------------------------
(***************************************************************************)
(* The two workers that upload: nodes_logs_process_cycle sends what it     *)
(* reads of the access logs every three seconds, nodes_stat_process_cycle  *)
(* the load of the machine every five minutes.  A pass reads, connects,    *)
(* sends and receives; an answer that cannot be parsed makes it connect    *)
(* and send again, with what it has of the answer in place of what it had  *)
(* to send.  The server and the network are external: until "mode" turns   *)
(* good they may cut, close, reset and be late.  So are the signals, one   *)
(* of which may cut a select or a recv short.                              *)
(***************************************************************************)
EXTENDS HttpResponse, AccessLogs

CONSTANTS
  Answers,   \* the answers the server may give, as texts
  RecvSize,  \* units one recv may return: recv_size
  DataMax,   \* bound: units kept of what a loop that does not end appends
  FdLimit    \* descriptors the worker may lose before it can open no other

ASSUME UploadAssumption ==
  /\ Answers \subseteq Seq(Tokens) /\ RecvSize \in Nat \ {0}
  /\ DataMax \in Nat /\ FdLimit \in Nat \ {0}

\* A server sends no more of a body than the length it announces, where the
\* parser can read one.
ASSUME AnswersAssumption ==
  \A text \in Answers :
    Breaks(text) # {} /\ "len" \in Fields(text) /\ "chunk" \notin Fields(text)
    => Len(Body(text)) <= Length

VARIABLES
  kind,     \* logs or stat: which of the two workers it is
  pc,       \* where its pass is
  payload,  \* upload->data: the records of this pass, or what a failed answer left
  size,     \* the request's size as a u_short: it fits, is cut, or is zero
  fds,      \* descriptors open in the worker: upload->http and those it lost
  addrs,    \* sock->addr_list is not empty
  conn,     \* the connection: its state, the request in it, the answer, what is
            \* under way and what has come
  page,     \* page->option
  buf,      \* recv_data, which is never cleared
  data,     \* the text received since the last timeout
  mode,     \* the server and the network, bad or good
  told,     \* process_terminate or process_quit
  got       \* history: the server has had the records of this pass

netVars == <<pc, payload, size, fds, addrs, conn, page, buf, data, got>>
vars    == <<logVars, kind, netVars, mode, told>>

NoPage == [loc |-> FALSE, chunked |-> FALSE]
Conn(state) == [state |-> state, request |-> "none", answer |-> <<>>, rest |-> <<>>, came |-> <<>>]

Init ==
  /\ LogsInit
  /\ kind \in {"logs", "stat"}
  /\ pc = "sleep" /\ payload = "records" /\ size = "fits"
  /\ fds = 0 /\ addrs = FALSE /\ conn = Conn("none")
  /\ page = NoPage /\ buf = <<>> /\ data = <<>>
  /\ mode = "bad" /\ told = FALSE /\ got = FALSE

-----------------------------------------------------------------------------
(* A pass: nodes_handler_statlogs_process, nodes_handler_statload_process. *)
(* What a pass or a try leaves in variables that the next one sets before  *)
(* it reads them is put back to what Init says.                            *)

Received == <<page, buf, data>>
TryEnds  == conn' = Conn("none") /\ page' = NoPage /\ buf' = <<>> /\ data' = <<>>
Over     == pc' = "sleep" /\ TryEnds /\ payload' = "records" /\ size' = "fits" /\ addrs' = FALSE /\ got' = FALSE

\* inet_socket_delete closes the descriptor the handler has now.
PassEnds == Over /\ fds' = fds - 1

\* The sleep is over; the flags are looked at before the next pass only.
Wake ==
  /\ pc = "sleep"
  /\ CASE told -> pc' = "gone" /\ UNCHANGED logVars
       [] ~told /\ kind = "logs" -> pc' = "read" /\ ReadingStarts
       [] ~told /\ kind = "stat" -> pc' = "connect" /\ UNCHANGED logVars
  /\ UNCHANGED <<kind, payload, size, fds, addrs, conn, Received, mode, told, got>>

Read ==
  /\ pc = "read"
  /\ ReadDirectory
  /\ UNCHANGED <<kind, netVars, mode, told>>

\* Eleven lines of each domain have no limit: the size is cast to a u_short.
ReadEnds ==
  /\ pc = "read" /\ at = Domains + 1
  /\ IF result = {} THEN pc' = "sleep" /\ UNCHANGED size
     ELSE pc' = "connect" /\ size' \in {"fits", "cut", "zero"}
  /\ ReadingEnds
  /\ UNCHANGED <<kind, payload, fds, addrs, conn, Received, mode, told, got>>

\* A descriptor for each try, in the same handler.  Without any address
\* connect returns 0 and nothing is connected; without a descriptor it fails,
\* and what is closed then is no descriptor.
Connect ==
  /\ pc = "connect"
  /\ IF fds = FdLimit THEN Over /\ UNCHANGED fds
     ELSE \E resolved \in {addrs, TRUE} :
            /\ mode = "good" => resolved
            /\ \/ mode = "bad" /\ resolved /\ Over /\ UNCHANGED fds
               \/ /\ pc' = "send" /\ conn' = Conn(IF resolved THEN "open" ELSE "none")
                  /\ fds' = fds + 1 /\ addrs' = resolved
                  /\ UNCHANGED <<payload, size, got, Received>>
  /\ UNCHANGED <<logVars, kind, mode, told>>

\* logs_request, stat_request, inet_socket::send_tcp.
Send ==
  /\ pc = "send"
  /\ IF conn.state # "open" \/ (payload = "records" /\ size = "zero") THEN PassEnds
     ELSE /\ pc' = "recv"
          /\ conn' = [conn EXCEPT !.request = IF payload = "records" /\ size = "cut" THEN "part" ELSE payload]
          /\ page' \in [loc : BOOLEAN, chunked : {FALSE}]   \* option.location is not initialised
          /\ UNCHANGED <<payload, size, fds, addrs, buf, data, got>>
  /\ UNCHANGED <<logVars, kind, mode, told>>

\* In the loop of select and recv, or in a recv that no select stands before.
Receiving == pc \in {"recv", "blocked"}

Kept(text) == IF Len(text) > DataMax THEN data ELSE text

\* logs_recv, stat_recv: recv_data keeps the tail of a longer piece, and all
\* of it up to its NUL is appended.
Recv ==
  /\ Receiving /\ conn.came # <<>>
  /\ pc' = "recv"
  /\ LET n == Least(RecvSize, Len(conn.came)) IN
     /\ conn' = [conn EXCEPT !.came = SubSeq(@, n + 1, Len(@))]
     /\ buf' = SubSeq(conn.came, 1, n) \o SubSeq(buf, n + 1, Len(buf))
     /\ data' = Kept(data \o buf')
  /\ UNCHANGED <<logVars, kind, payload, size, fds, addrs, page, mode, told, got>>

\* recv returns 0: the end for the load, and more to come for the logs.
RecvClosedSpins ==
  /\ Receiving /\ conn.came = <<>> /\ conn.state = "closed"
  /\ data' = Kept(data \o buf) /\ pc' = "recv"
  /\ UNCHANGED <<logVars, kind, payload, size, fds, addrs, conn, page, buf, mode, told, got>>
RecvClosed ==
  /\ Receiving /\ conn.came = <<>> /\ conn.state = "closed"
  /\ IF kind = "stat" THEN pc' = "parse" /\ UNCHANGED data
     ELSE pc' = "recv" /\ data' = Kept(data \o buf)
  /\ UNCHANGED <<logVars, kind, payload, size, fds, addrs, conn, page, buf, mode, told, got>>

\* recv fails: once more, from inet_socket_connect on.
RecvFails ==
  /\ Receiving /\ conn.state = "reset"
  /\ pc' = "connect" /\ TryEnds
  /\ UNCHANGED <<logVars, kind, payload, size, fds, addrs, mode, told, got>>

\* Nothing came for a second.
Silent == conn.came = <<>> /\ conn.state = "open"
Timeout ==
  /\ pc = "recv" /\ Silent
  /\ mode = "good" => conn.rest = <<>> /\ conn.request \in {"none", "part"}
  /\ pc' = "parse"
  /\ UNCHANGED <<logVars, kind, payload, size, fds, addrs, conn, Received, mode, told, got>>

\* A signal makes select return -1, which is not the 0 of a timeout: recv is
\* entered with nothing there, and has no limit.  Another one makes that recv
\* fail.  Each may be the one that tells the worker to leave.
Interrupted ==
  /\ Silent
  /\ \/ pc = "recv" /\ pc' = "blocked" /\ UNCHANGED <<conn, Received>>
     \/ pc = "blocked" /\ pc' = "connect" /\ TryEnds
  /\ told' \in {told, TRUE}
  /\ UNCHANGED <<logVars, kind, payload, size, fds, addrs, mode, got>>

\* The redirect is taken for this handler only, and the pass is over.
ParsedEnds ==
  /\ pc = "parse" /\ Parse(page, data).ret \in {"done", "direct"}
  /\ PassEnds
  /\ UNCHANGED <<logVars, kind, mode, told>>

\* What came is dropped: the next piece is parsed alone.
ParsedAgain ==
  /\ pc = "parse" /\ Parse(page, data).ret = "again"
  /\ pc' = "recv" /\ data' = <<>> /\ page' = Parse(page, data).page
  /\ UNCHANGED <<logVars, kind, payload, size, fds, addrs, conn, buf, mode, told, got>>

\* page.body takes the place of the records, and the loop tries again.
ParsedFails ==
  /\ pc = "parse" /\ Parse(page, data).ret = "error"
  /\ pc' = "connect" /\ payload' = "echo" /\ TryEnds
  /\ UNCHANGED <<logVars, kind, size, fds, addrs, mode, told, got>>
-----------------------------------------------------------------------------
(* The server, the network, the master: external.                          *)

\* Half a request is answered by a server that does not wait for the rest.
ServerAnswers ==
  /\ conn.request # "none" /\ conn.state = "open" /\ (conn.request = "part" => mode = "bad")
  /\ \E text \in Answers : conn' = [conn EXCEPT !.answer = text, !.rest = text, !.request = "none"]
  /\ got' = (got \/ conn.request = "records")
  /\ UNCHANGED <<logVars, kind, pc, payload, size, fds, addrs, page, buf, data, mode, told>>

Delivers ==
  /\ conn.rest # <<>> /\ conn.state = "open"
  /\ \E n \in 1 .. Len(conn.rest) :
       /\ mode = "good" => n = Len(conn.rest)
       /\ conn' = [conn EXCEPT !.came = @ \o SubSeq(conn.rest, 1, n),
                               !.rest = SubSeq(conn.rest, n + 1, Len(conn.rest))]
  /\ UNCHANGED <<logVars, kind, pc, payload, size, fds, addrs, page, buf, data, mode, told, got>>

Closes ==
  /\ mode = "bad" /\ conn.state = "open" /\ (Receiving \/ pc = "parse")
  /\ \/ conn' = [conn EXCEPT !.state = "closed", !.rest = <<>>, !.request = "none"]
     \/ conn' = [conn EXCEPT !.state = "reset", !.rest = <<>>, !.request = "none", !.came = <<>>]
  /\ UNCHANGED <<logVars, kind, pc, payload, size, fds, addrs, page, buf, data, mode, told, got>>

Recovers ==
  /\ mode = "bad" /\ mode' = "good"
  /\ UNCHANGED <<logVars, kind, netVars, told>>

\* Elsewhere the flag is all that a signal changes.
Told ==
  /\ ~told /\ told' = TRUE /\ pc # "blocked"
  /\ UNCHANGED <<logVars, kind, netVars, mode>>

\* The log is written while the worker sleeps or reads; what happens to it
\* later in a pass changes nothing of that pass.
LogWritten ==
  /\ kind = "logs" /\ pc \in {"sleep", "read"}
  /\ Nginx
  /\ UNCHANGED <<kind, netVars, mode, told>>

Worker ==
  \/ Wake \/ Read \/ ReadEnds \/ Connect \/ Send
  \/ Recv \/ RecvClosed \/ RecvFails \/ Timeout \/ ParsedEnds \/ ParsedAgain \/ ParsedFails
Server == ServerAnswers \/ Delivers

Next == Worker \/ Server \/ Interrupted \/ Closes \/ Recovers \/ Told \/ LogWritten
Spec == Init /\ [][Next]_vars

\* The worker runs, and a good server and network do their part.
FairSpec == Spec /\ WF_vars(Worker) /\ WF_vars(Server)

-----------------------------------------------------------------------------
Reports(verdicts) == pc = "parse" /\ Parse(page, data).ret \in verdicts

\* A pass is taken for done only with the whole answer, if its length was
\* read, it does not come in chunks, and nothing that recv_data still held
\* made up for what did not come (inet_http::finish).
DoneIsWhole ==
  Reports({"done"}) /\ data # <<>> /\ Len(data) <= Len(conn.answer)
    /\ data = SubSeq(conn.answer, 1, Len(data))
    /\ "len" \in Fields(data) /\ "chunk" \notin Fields(data) /\ ~page.chunked
  => data = conn.answer

\* A pass that ends well has delivered what it read, unless an answer it
\* could not parse had replaced it or it was cut to a u_short
\* (nodes_handler_statlogs_process, nodes_handler_statload_process).
DoneWasDelivered == Reports({"done", "direct"}) => got \/ payload = "echo" \/ size = "cut"

\* Once server and network behave and no signal cuts a select short, every pass
\* ends, those of before too, except in a logs worker whose connection the server
\* had closed, where recv of 0 is not an end, or whom a signal left in a recv that
\* nothing ends.
PassesEnd ==
  <>[](mode = "good" /\ pc # "blocked" /\ ~(kind = "logs" /\ conn.state = "closed"))
    => []<>(pc \in {"sleep", "gone"})
=============================================================================
