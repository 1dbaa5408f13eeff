--------------------------- MODULE MCRunLifecycle ---------------------------
(* Instances of RunLifecycle for TLC: two dependencies, one of them gated.   *)
EXTENDS RunLifecycle

=============================================================================
