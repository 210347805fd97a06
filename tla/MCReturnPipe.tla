---------------------------- MODULE MCReturnPipe ----------------------------
(* TLC instances of ReturnPipe. *)
EXTENDS ReturnPipe, TLC

AllOps == DOMAIN Binding
=============================================================================
