------------------------------ MODULE MCUpload ------------------------------
(* A small instance of Upload for TLC: an answer longer than one recv, one   *)
(* without a body, one whose length stands last, one in chunks, a redirect.  *)
EXTENDS Upload

TheAnswers == {<<"st", "len", "oth", "end", "b", "b">>, <<"st", "chunk", "len", "end", "b">>,
               <<"st", "loc", "oth", "end">>}
Second == {2}

\* At first there is at most a line to send, and none beside the load; the logs
\* change only while the network is good, the first always in the same second.
MCInit == Init /\ logs[1].lines <= (IF kind = "logs" THEN 1 ELSE 0) /\ logs[2].lines = 0
MCNext == Next /\ (LogWritten => mode = "good" /\ logs'[1].ctime = 1)
MCSpec == MCInit /\ [][MCNext]_vars /\ WF_vars(Worker) /\ WF_vars(Server)
=============================================================================
