---------------------------- MODULE MCAudioRing -----------------------------
(* TLC instances of AudioRing. *)
EXTENDS AudioRing
=============================================================================
