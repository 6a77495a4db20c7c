--------------------------- MODULE MC_FeePayAnte ---------------------------
(* Two accounts, two contracts, fees and gas limits up to 2, gas prices  *)
(* in halves; the model values are given in the cfg files.               *)
EXTENDS FeePayAnte
=============================================================================
