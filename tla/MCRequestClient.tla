-------------------------- MODULE MCRequestClient --------------------------
(***************************************************************************)
(* Model-checking instance of RequestClient: two long requests, or one and *)
(* an attempt of the accept probe.                                         *)
(***************************************************************************)
EXTENDS RequestClient

CONSTANTS a1, a2

MCPopulations == {{a1, a2}, {a1}}

=============================================================================
