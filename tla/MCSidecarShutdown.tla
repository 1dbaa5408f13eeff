------------------------- MODULE MCSidecarShutdown -------------------------
(* Instances of SidecarShutdown for TLC.                                     *)
EXTENDS SidecarShutdown

=============================================================================
