------------------------------- MODULE MC_Drip -------------------------------
EXTENDS Drip
=============================================================================
