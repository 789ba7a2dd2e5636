----------------------------- MODULE MCErrorLog -----------------------------
(* A small instance of ErrorLog for TLC: a buffer of 9 bytes, records of 2,  *)
(* 4 and 8 bytes with what is added to them, a file renamed beyond 8 bytes,  *)
(* and a record of the master in the buffer at the fork.                     *)
EXTENDS ErrorLog

OneThread == {Log}
OneTask   == {PrintTask}
FromMaster == [recs |-> <<0>>, used |-> 2]
=============================================================================
