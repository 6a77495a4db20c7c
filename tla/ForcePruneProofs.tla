--------------------------- MODULE ForcePruneProofs ---------------------------
(***************************************************************************)
(* Proofs about the offline forceprune command (ForcePrune), for every    *)
(* chain height, every -f and -m flag, every batch size and any number of *)
(* runs killed at any step: the command keeps its type and implements    *)
(* PruneRetention.                                                         *)
(***************************************************************************)
EXTENDS ForcePrune, TLAPS

(* The lowest height family s keeps once a run has pruned it: the retain  *)
(* height of forcepruneStateStore with currentHeight = Height.             *)
Kept(s) == Height - (IF s = "abciResponsesKey" THEN MinHeight ELSE FullHeight)

StateFamilies == {"validatorsKey", "consensusParamsKey"}

(***************************************************************************)
(* Inductive invariant of the command.  Once                               *)
(* PruneBlocks has succeeded the base is Height - fullHeight and the run  *)
(* reads currentHeight = Height; the pending batch and every deleted key  *)
(* lie below the retain height of their family; and a state family has    *)
(* lost keys only after the base reached its retain height, which a later  *)
(* crash inside PruneBlocks cannot lower.                                  *)
(***************************************************************************)
RunInv ==
    /\ startHeight \in Nat
    /\ currentHeight \in Int
    /\ pc \in {"compact", "state"} =>
          /\ currentHeight = Height /\ base = Height - FullHeight
          /\ startHeight \in Heights
    /\ pc = "state" => c >= startHeight /\ curBatchSize = c - startHeight

BatchInv == \A h \in batch : pc = "state" /\ i <= 3 /\ h < Kept(StateDBKeys[i])

DeletedInv ==
    /\ \A s \in Families : \A h \in Heights \ stateKeys[s] : h < Kept(s)
    /\ \A s \in StateFamilies : stateKeys[s] # Heights => Kept(s) <= base

IInv == TypeOK /\ RunInv /\ BatchInv /\ DeletedInv
USE ForcePruneAssumption

(* The state.db families are the three keys of stateDBKeys.               *)
LEMMA FamiliesDef ==
    /\ Families = {"validatorsKey", "consensusParamsKey", "abciResponsesKey"}
    /\ \A k \in 1..3 : StateDBKeys[k] \in Families
BY DEF Families, StateDBKeys

LEMMA InitIInv == Init => IInv
BY FamiliesDef DEF Init, IInv, TypeOK, RunInv, BatchInv, DeletedInv, Heights,
                   StateFamilies

(* IInv is preserved by every step of the command and by a crash.         *)
LEMMA NextIInv == IInv /\ [Next]_vars => IInv'
<1> SUFFICES ASSUME IInv, [Next]_vars PROVE IInv'
  OBVIOUS
<1>. USE FamiliesDef DEF IInv, TypeOK, RunInv, BatchInv, DeletedInv, Heights, locals
<1>1. CASE Start
  BY <1>1 DEF Start
<1>2. CASE PruneBlockStoreAndGetHeights
  <2>1. /\ pc = "blockstore" /\ batch = {}
        /\ startHeight' = base /\ currentHeight' = Height
        /\ UNCHANGED <<stateKeys, runs, i, c, batch, curBatchSize>>
    BY <1>2 DEF PruneBlockStoreAndGetHeights
  <2>2. CASE PruneTargetValid(Height - FullHeight)
    <3>1. base' = Height - FullHeight /\ pc' = "compact" /\ base' \in Heights
      BY <1>2, <2>2 DEF PruneBlockStoreAndGetHeights, PruneTargetValid
    <3>2. \A f \in StateFamilies : Kept(f) = base'
      BY <3>1 DEF Kept, StateFamilies
    <3>. QED
      BY <2>1, <3>1, <3>2
  <2>3. CASE ~PruneTargetValid(Height - FullHeight)
    BY <1>2, <2>1, <2>3 DEF PruneBlockStoreAndGetHeights
  <2>. QED
    BY <2>2, <2>3
<1>3. CASE CompactBlockStore
  BY <1>3 DEF CompactBlockStore
<1>4. CASE DeleteStep
  <2> DEFINE f == StateDBKeys[i]
  <2>1. /\ pc = "state" /\ i \in 1..3 /\ f \in Families
        /\ currentHeight = Height /\ base = Height - FullHeight
        /\ startHeight \in Heights /\ c >= startHeight
        /\ curBatchSize = c - startHeight
        /\ c < Kept(f)
    BY <1>4 DEF DeleteStep, RetainHeight, Kept
  <2>2. Kept(f) <= Height
    BY <2>1 DEF Kept
  <2>3. /\ curBatchSize' = curBatchSize + 1 /\ c' = c + 1
        /\ UNCHANGED <<base, pc, runs, startHeight, currentHeight, i>>
    BY <1>4 DEF DeleteStep
  <2>4. /\ batch' \subseteq batch \cup {c}
        /\ \/ stateKeys' = stateKeys
           \/ stateKeys' = [stateKeys EXCEPT ![f] = @ \ (batch \cup {c})]
    BY <1>4 DEF DeleteStep, WriteBatch
  <2>5. c \in Heights /\ c + 1 <= Height
    BY <2>1, <2>2 DEF Kept
  <2>6. stateKeys' \in [Families -> SUBSET Heights]
    BY <2>1, <2>4
  <2>7. TypeOK'
    BY <2>1, <2>3, <2>4, <2>5, <2>6
  <2>8. RunInv'
    BY <2>1, <2>3
  <2>9. BatchInv'
    BY <2>1, <2>3, <2>4
  <2>10. DeletedInv'
    <3>1. \A g \in Families : \A h \in Heights \ stateKeys'[g] : h < Kept(g)
      BY <2>1, <2>4
    <3>2. f \in StateFamilies => Kept(f) <= base
      BY <2>1 DEF Kept, StateFamilies
    <3>. QED
      BY <2>1, <2>3, <2>4, <3>1, <3>2 DEF StateFamilies
  <2>. QED
    BY <2>7, <2>8, <2>9, <2>10
<1>5. CASE FlushFamily
  <2> DEFINE f == StateDBKeys[i]
  <2>1. /\ pc = "state" /\ i \in 1..3 /\ f \in Families
        /\ currentHeight = Height /\ base = Height - FullHeight
        /\ startHeight \in Heights
    BY <1>5 DEF FlushFamily
  <2>2. \A h \in batch : h < Kept(f)
    OBVIOUS
  <2>3. /\ stateKeys' = [stateKeys EXCEPT ![f] = @ \ batch]
        /\ batch' = {} /\ curBatchSize' = 0 /\ i' = i + 1 /\ c' = startHeight
        /\ UNCHANGED <<base, pc, runs, startHeight, currentHeight>>
    BY <1>5 DEF FlushFamily, WriteBatch
  <2>4. \A g \in Families : \A h \in Heights \ stateKeys'[g] : h < Kept(g)
    BY <2>1, <2>2, <2>3
  <2>5. f \in StateFamilies => Kept(f) <= base
    BY <2>1 DEF Kept, StateFamilies
  <2>6. \A g \in StateFamilies : stateKeys'[g] # Heights => Kept(g) <= base'
    BY <2>1, <2>3, <2>5 DEF StateFamilies
  <2>7. TypeOK' /\ RunInv'
    BY <2>1, <2>3
  <2>. QED
    BY <2>3, <2>4, <2>6, <2>7
<1>6. CASE CompactStateStore
  BY <1>6 DEF CompactStateStore
<1>7. CASE Crash
  <2>1. /\ pc' = "idle" /\ batch' = {} /\ curBatchSize' = 0 /\ i' = 1 /\ c' = 0
        /\ startHeight' = 0 /\ currentHeight' = 0
        /\ UNCHANGED <<stateKeys, runs>>
    BY <1>7 DEF Crash
  <2>2. base' \in Heights /\ base <= base'
    BY <1>7 DEF Crash, PruneTargetValid
  <2>3. \A g \in StateFamilies : Kept(g) <= base => Kept(g) <= base'
    BY <2>2 DEF Kept
  <2>. QED
    BY <2>1, <2>2, <2>3
<1>8. CASE UNCHANGED vars
  BY <1>8 DEF vars, locals
<1>. QED
  BY <1>1, <1>2, <1>3, <1>4, <1>5, <1>6, <1>7, <1>8 DEF Next
(* The command's state keeps its type through runs and crashes.            *)
THEOREM ForcePruneTypeCorrect == Spec => []TypeOK
BY InitIInv, NextIInv, PTL DEF Spec, IInv

---------------------------------------------------------------------------
(* Refinement of PruneRetention.                                           *)

(* The abstract retain heights are the heights Kept, and the abstract     *)
(* families and heights are the command's.                                 *)
LEMMA RetentionDefs ==
    /\ Retention!Families = Families
    /\ Retention!Heights = Heights
    /\ Retention!TargetBase = Height - FullHeight
    /\ \A s : Retention!Retained(s) = Kept(s)
BY FamiliesDef DEF Retention!Families, Retention!Heights, Retention!TargetBase,
                   Retention!Retained, Kept, Heights

(* The command starts from the databases PruneRetention starts from.      *)
LEMMA InitRefines == Init => Retention!RetentionInit
BY RetentionDefs DEF Init, Retention!RetentionInit

(* A batch of deletes of family f written in the state loop is a          *)
(* DeleteState of PruneRetention.                                          *)
LEMMA WriteIsDeleteState ==
    ASSUME IInv, pc = "state", i \in 1..3,
           NEW H \in SUBSET Heights, \A h \in H : h < Kept(StateDBKeys[i]),
           stateKeys' = [stateKeys EXCEPT ![StateDBKeys[i]] = @ \ H],
           base' = base
    PROVE  Retention!RetentionNext
<1> DEFINE f == StateDBKeys[i]
<1>1. f \in Families
    BY FamiliesDef
<1>2. f # "abciResponsesKey" => Kept(f) = base
    <2>1. base = Height - FullHeight
        BY DEF IInv, RunInv
    <2>. QED
        BY <2>1, FamiliesDef DEF Kept
<1>3. \A h \in H : h < Retention!Retained(f) /\ (f # "abciResponsesKey" => h < base)
    BY <1>2, RetentionDefs
<1>4. Retention!DeleteState(f, H)
    BY <1>3 DEF Retention!DeleteState
<1>. QED
    BY <1>1, <1>4, RetentionDefs DEF Retention!RetentionNext

(* A successful PruneBlocks, or one cut short by a crash, is a RaiseBase. *)
LEMMA PruneIsRaiseBase ==
    ASSUME PruneTargetValid(Height - FullHeight),
           base' \in base..(Height - FullHeight), UNCHANGED stateKeys
    PROVE  Retention!RetentionNext
BY RetentionDefs DEF PruneTargetValid, Retention!RetentionNext, Retention!RaiseBase

(* Every step of the command is a step of PruneRetention or leaves the    *)
(* databases unchanged.                                                    *)
LEMMA NextRefines ==
    IInv /\ [Next]_vars => [Retention!RetentionNext]_Retention!retentionVars
<1> SUFFICES ASSUME IInv, [Next]_vars
             PROVE  [Retention!RetentionNext]_Retention!retentionVars
    OBVIOUS
<1> USE DEF Retention!retentionVars
<1>1. CASE PruneBlockStoreAndGetHeights
    <2>1. CASE PruneTargetValid(Height - FullHeight)
        BY <1>1, <2>1, PruneIsRaiseBase DEF PruneBlockStoreAndGetHeights, PruneTargetValid
    <2>2. CASE ~PruneTargetValid(Height - FullHeight)
        BY <1>1, <2>2 DEF PruneBlockStoreAndGetHeights
    <2>. QED
        BY <2>1, <2>2
<1>2. CASE DeleteStep
    <2>1. /\ pc = "state" /\ i \in 1..3 /\ base' = base
          /\ c \in Heights /\ c < Kept(StateDBKeys[i])
          /\ \A h \in batch : h < Kept(StateDBKeys[i])
        BY <1>2 DEF DeleteStep, RetainHeight, Kept, IInv, TypeOK, RunInv, BatchInv, Heights
    <2>2. CASE (curBatchSize + 1) % BatchMaxSize = 0
        <3>1. stateKeys' = [stateKeys EXCEPT ![StateDBKeys[i]] = @ \ (batch \cup {c})]
            BY <1>2, <2>2 DEF DeleteStep, WriteBatch
        <3>2. batch \cup {c} \in SUBSET Heights
            BY <2>1 DEF IInv, TypeOK
        <3>. QED
            BY <2>1, <3>1, <3>2, WriteIsDeleteState
    <2>3. CASE (curBatchSize + 1) % BatchMaxSize # 0
        BY <1>2, <2>3 DEF DeleteStep
    <2>. QED
        BY <2>2, <2>3
<1>3. CASE FlushFamily
    <2>1. /\ pc = "state" /\ i \in 1..3 /\ base' = base
          /\ \A h \in batch : h < Kept(StateDBKeys[i])
          /\ batch \in SUBSET Heights
          /\ stateKeys' = [stateKeys EXCEPT ![StateDBKeys[i]] = @ \ batch]
        BY <1>3 DEF FlushFamily, WriteBatch, IInv, TypeOK, BatchInv
    <2>. QED
        BY <2>1, WriteIsDeleteState
<1>4. CASE Crash
    <2>1. CASE pc = "blockstore" /\ PruneTargetValid(Height - FullHeight)
        BY <1>4, <2>1, PruneIsRaiseBase DEF Crash
    <2>2. CASE ~(pc = "blockstore" /\ PruneTargetValid(Height - FullHeight))
        BY <1>4, <2>2 DEF Crash
    <2>. QED
        BY <2>1, <2>2
<1>5. CASE Start \/ CompactBlockStore \/ CompactStateStore \/ UNCHANGED vars
    BY <1>5 DEF Start, CompactBlockStore, CompactStateStore, vars
<1>. QED
    BY <1>1, <1>2, <1>3, <1>4, <1>5 DEF Next

(***************************************************************************)
(* For every height, flag, batch size and number of runs, forceprune      *)
(* killed at any step implements PruneRetention: the base only rises, to  *)
(* at most Height - fullHeight, and a state.db key is deleted only below   *)
(* its retain height, a validators or consensus-params key only below the *)
(* base.                                                                   *)
(***************************************************************************)
THEOREM PruneRetentionRefined == Spec => PruneRefined
<1>1. Spec => []IInv
    BY InitIInv, NextIInv, PTL DEF Spec
<1>. QED
    BY <1>1, InitRefines, NextRefines, PTL DEF Spec, PruneRefined, Retention!RetentionSpec

=============================================================================
