-------------------------- MODULE MC_OracleHistory --------------------------
(* Two denoms and four update times: every store over these keys is       *)
(* reachable, so each lookup is checked on all 256 stores.               *)
EXTENDS OracleHistory

MC_Denoms == {1, 2}
MC_Times == {0, 1, 2, 3}
=============================================================================
