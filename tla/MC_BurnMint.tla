---------------------------- MODULE MC_BurnMint ----------------------------
(* Two denoms, one contract account and the four module accounts, all    *)
(* model values given in MC_BurnMint.cfg.                                 *)
EXTENDS BurnMint
=============================================================================
