---------------------------- MODULE MCTcpFraming ----------------------------
(* TLC instances of TcpFraming. *)
EXTENDS TcpFramingInv, FiniteSets, TLC

Symmetry == Permutations(Senders)
=============================================================================
