------------------------------ MODULE MC_Clock ------------------------------
(* Small instance of Clock: three contracts, one with an unparsable stored *)
(* address, gas limits 1..2 and calls needing up to 3 gas units.          *)
EXTENDS Clock

MC_Contracts == {1, 2, 3}
MC_BadAddr == {3}
=============================================================================
