----------------------------- MODULE MCCallbacks -----------------------------
(* The TLC instance of Callbacks: addresses are alike, and so are windows. *)
EXTENDS Callbacks

Symmetry == Permutations(Objects) \union Permutations(Windows)
=============================================================================
