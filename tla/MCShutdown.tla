----------------------------- MODULE MCShutdown ------------------------------
(* The TLC instance of Shutdown. *)
EXTENDS Shutdown
=============================================================================
