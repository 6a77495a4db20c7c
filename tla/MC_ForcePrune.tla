--------------------------- MODULE MC_ForcePrune ---------------------------
(* A chain of 5 blocks, keeping 2 blocks of state and 1 of ABCI           *)
(* responses, batches of 2 deletes and three runs, so that a run can be     *)
(* killed in any step and a second run start from what it left.          *)
EXTENDS ForcePrune
=============================================================================
