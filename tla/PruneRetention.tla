---------------------------- MODULE PruneRetention ----------------------------
(***************************************************************************)
(* What "junod forceprune" promises of the databases, as atomic steps      *)
(* (the command's help text and forcepruneStateStore's retain heights):   *)
(* the block store's base only rises, and never past Height - fullHeight; *)
(* a state.db key is deleted only below its family's retain height, and a *)
(* validators or consensus-params key only below the base.  This is a    *)
(* promise about each height's own key: it says nothing of the earlier    *)
(* key a height's LastHeightChanged points to (ForcePrune's                *)
(* RetainedStateLoadable is about that, and is violated).                 *)
(* ForcePrune implements it (see ForcePrune!PruneRefined).                *)
(***************************************************************************)
EXTENDS Integers

CONSTANTS Height, FullHeight, MinHeight

VARIABLES
    base,          \* bs.Base()
    stateKeys      \* family -> heights whose state.db key is present

retentionVars == <<base, stateKeys>>

Families == {"validatorsKey", "consensusParamsKey", "abciResponsesKey"}
Heights == 1..Height

(* The base PruneBlocks is asked for.                                     *)
TargetBase == Height - FullHeight

(* The lowest height whose key of family s must survive.                   *)
Retained(s) ==
    IF s = "abciResponsesKey" THEN Height - MinHeight ELSE TargetBase

RetentionInit ==
    /\ base = 1
    /\ stateKeys = [s \in Families |-> Heights]

(* PruneBlocks moves the base up, to at most the target.                   *)
RaiseBase ==
    /\ 0 < TargetBase /\ TargetBase <= Height
    /\ base' \in base..TargetBase
    /\ UNCHANGED stateKeys

(* Keys of family s are deleted, all below the retain height and, for the *)
(* families a block is replayed with, below the base.                      *)
DeleteState(s, H) ==
    /\ \A h \in H : h < Retained(s) /\ (s # "abciResponsesKey" => h < base)
    /\ stateKeys' = [stateKeys EXCEPT ![s] = @ \ H]
    /\ UNCHANGED base

RetentionNext ==
    \/ RaiseBase
    \/ \E s \in Families, H \in SUBSET Heights : DeleteState(s, H)

RetentionSpec == RetentionInit /\ [][RetentionNext]_retentionVars
=============================================================================
