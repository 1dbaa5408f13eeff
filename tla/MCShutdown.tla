----------------------------- MODULE MCShutdown -----------------------------
(***************************************************************************)
(* Model-checking instances of Shutdown.  A run is planned with a SIGTERM  *)
(* inside the margin of exit_waiter, or under PRESTOP and beyond it.       *)
(***************************************************************************)
EXTENDS Shutdown

CONSTANT r1

MCPlans == {[prestop |-> FALSE, delay |-> 1], [prestop |-> TRUE, delay |-> 3]}
Undisturbed == {[prestop |-> FALSE, delay |-> 1]}

=============================================================================
