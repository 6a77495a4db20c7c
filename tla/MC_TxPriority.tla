--------------------------- MODULE MC_TxPriority ---------------------------
(* Fees of up to three coins of amounts 1..4 and gas limits 1..3, with   *)
(* the int64 bound scaled down to 2 so that large prices are capped.     *)
EXTENDS TxPriority
=============================================================================
