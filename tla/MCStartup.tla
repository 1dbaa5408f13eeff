------------------------------ MODULE MCStartup ------------------------------
(***************************************************************************)
(* Instance of Startup for TLC.  A unit is an interval of the TCP loops;   *)
(* the proportions are those of the code: a probe takes longer than a      *)
(* connection, a readiness interval is twice a TCP interval, and the       *)
(* budget has room for a whole turn of every loop.                         *)
(***************************************************************************)
EXTENDS Startup

=============================================================================
