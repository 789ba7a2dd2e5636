------------------------- MODULE MCThreadCollection -------------------------
(* A small instance of ThreadCollection for TLC: two threads and three       *)
(* indices, two of them on the same thread.                                  *)
EXTENDS ThreadCollection

Threads == 0..1
Tasks   == {0, 1, 2} \X (1..2)
=============================================================================
