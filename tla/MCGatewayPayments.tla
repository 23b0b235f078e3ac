-------------------------- MODULE MCGatewayPayments --------------------------
(* TLC instances of module GatewayPayments. *)
EXTENDS GatewayPayments, TLC
Symmetry == Permutations(Payments) \cup Permutations(Refunds)
                \cup Permutations(Workers)
=============================================================================
