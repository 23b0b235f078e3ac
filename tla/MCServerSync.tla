---------------------------- MODULE MCServerSync ----------------------------
(* TLC instances of module ServerSync. *)
EXTENDS ServerSync, TLC
Symmetry == Permutations(Devices)
=============================================================================
