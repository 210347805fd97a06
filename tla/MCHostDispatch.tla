--------------------------- MODULE MCHostDispatch ---------------------------
(* TLC instances of HostDispatch. *)
EXTENDS HostDispatch
=============================================================================
