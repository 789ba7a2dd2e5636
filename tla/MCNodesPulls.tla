---------------------------- MODULE MCNodesPulls ----------------------------
(* A small instance of NodesPulls for TLC: one task of each kind.            *)
EXTENDS NodesPulls

CONSTANTS a, b, c

Tasks == {a, b, c}
Kinds == [t \in Tasks |-> IF t = a THEN "known" ELSE IF t = b THEN "malformed" ELSE "unknown"]

TwoTasks == {a, b}
TwoKinds == [t \in TwoTasks |-> IF t = a THEN "known" ELSE "malformed"]
=============================================================================
