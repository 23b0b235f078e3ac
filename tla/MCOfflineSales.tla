--------------------------- MODULE MCOfflineSales ---------------------------
(* TLC instances of module OfflineSales. *)
EXTENDS OfflineSales
=============================================================================
