---------------------------- MODULE MCSupervisor ----------------------------
(* Small instances of Supervisor for TLC.                                  *)
EXTENDS Supervisor

OneRole  == <<"pulls">>
TwoRoles == <<"pulls", "logs">>

Bounded(crash, init, spawn, signal) ==
  [crash |-> crash, init |-> init, spawn |-> spawn, signal |-> signal]

TableBudget  == Bounded(1, 1, 1, 2)
ReloadBudget == Bounded(2, 0, 0, 2)
StopBudget   == Bounded(1, 0, 0, 2)
QuitBudget   == Bounded(0, 0, 0, 1)
=============================================================================
