----------------------------- MODULE MCRunnerLua ----------------------------
(* The TLC instance of RunnerLua. *)
EXTENDS RunnerLua
=============================================================================
