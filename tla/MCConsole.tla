----------------------------- MODULE MCConsole ------------------------------
(* Instances of Console for TLC: two calls of connectStream() overlap.     *)
(* The budgets give each of the interesting cases room: two logins with an *)
(* event, a queue that overflows, tickets that expire.                     *)
EXTENDS Console

Budget(l, e, t, s) == [logins |-> l, events |-> e, ticks |-> t, switches |-> s, faults |-> 1]
MCBudgets == {Budget(2, 1, 0, 0), Budget(1, 2, 0, 0), Budget(2, 0, 1, 0), Budget(1, 0, 2, 0), Budget(1, 1, 0, 2)}
=============================================================================
