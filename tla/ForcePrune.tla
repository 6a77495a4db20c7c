----------------------------- MODULE ForcePrune -----------------------------
(***************************************************************************)
(* The offline "junod forceprune" command (src/cmd/junod/cmd/forceprune.go)*)
(* over the logical content of the two databases it changes: the block    *)
(* store (blocks Base()..Height()) and, in state.db, the per-height keys   *)
(* of the three families it prunes.  Compactions change no content.  The  *)
(* process may be killed at any step; a new run starts from the databases *)
(* as they are on disk.  The node is stopped throughout, so Height() is   *)
(* fixed.                                                                  *)
(***************************************************************************)
EXTENDS Integers, Sequences

CONSTANTS
    Height,          \* bs.Height(): the last block stored
    FullHeight,      \* the -f flag
    MinHeight,       \* the -m flag
    BatchMaxSize,    \* batchMaxSize, scaled down
    MaxRuns,         \* bound on the number of runs
    ValSetChanges,   \* heights at which the chain's validator set changed
    ParamsChanges,   \* heights at which its consensus params changed
    ValSetCheckpointInterval \* Tendermint's valSetCheckpointInterval, scaled down

ASSUME ForcePruneAssumption ==
    /\ Height \in Nat \ {0}
    /\ FullHeight \in Nat /\ MinHeight \in Nat
    /\ BatchMaxSize \in Nat \ {0} /\ MaxRuns \in Nat
    /\ ValSetChanges \subseteq 1..Height /\ 1 \in ValSetChanges
    /\ ParamsChanges \subseteq 1..Height /\ 1 \in ParamsChanges
    /\ ValSetCheckpointInterval \in Nat \ {0}

(* stateDBKeys, in the order the loop visits them.                         *)
StateDBKeys == <<"validatorsKey", "consensusParamsKey", "abciResponsesKey">>
Families == {StateDBKeys[k] : k \in 1..3}
Heights == 1..Height

VARIABLES
    base,            \* bs.Base()
    stateKeys,       \* family -> heights whose state.db key is present
    pc,              \* "idle", "blockstore", "compact", "state" or "done"
    runs,            \* runs started
    startHeight,     \* locals of the run
    currentHeight,
    i,               \* index into stateDBKeys
    c,               \* the height loop counter
    batch,           \* heights of pending batch.Delete calls
    curBatchSize

vars == <<base, stateKeys, pc, runs, startHeight, currentHeight, i, c, batch, curBatchSize>>
locals == <<startHeight, currentHeight, i, c, batch, curBatchSize>>

---------------------------------------------------------------------------
(* retainHeight for family s.                                              *)
RetainHeight(s) ==
    IF s = "abciResponsesKey" THEN currentHeight - MinHeight
    ELSE currentHeight - FullHeight

(* BlockStore.PruneBlocks(h) refuses h <= 0, h above Height or below Base. *)
PruneTargetValid(h) == 0 < h /\ h <= Height /\ base <= h

Init ==
    /\ base = 1
    /\ stateKeys = [s \in Families |-> Heights]
    /\ pc = "idle"
    /\ runs = 0
    /\ startHeight = 0 /\ currentHeight = 0 /\ i = 1 /\ c = 0
    /\ batch = {} /\ curBatchSize = 0

(***************************************************************************)
(* RunE: "junod status" fails (the node is stopped) and the flags parse.   *)
(* When the status call succeeds RunE returns nil having done nothing.     *)
(***************************************************************************)
Start ==
    /\ pc \in {"idle", "done"}
    /\ runs < MaxRuns
    /\ runs' = runs + 1
    /\ pc' = "blockstore"
    /\ UNCHANGED <<base, stateKeys, locals>>

(* Mutant of PruneBlockStoreAndGetHeights: startHeight one below Base().  *)
PruneBlockStoreAndGetHeightsOffByOne ==
    /\ pc = "blockstore"
    /\ startHeight' = base - 1
    /\ currentHeight' = Height
    /\ IF PruneTargetValid(Height - FullHeight)
          THEN /\ base' = Height - FullHeight
               /\ pc' = "compact"
          ELSE /\ pc' = "idle"
               /\ UNCHANGED base
    /\ UNCHANGED <<stateKeys, runs, i, c, batch, curBatchSize>>

(***************************************************************************)
(* pruneBlockStoreAndGetHeights: startHeight and currentHeight are read    *)
(* before PruneBlocks(currentHeight - fullHeight) moves the base; an error *)
(* from PruneBlocks ends the run.                                          *)
(***************************************************************************)
PruneBlockStoreAndGetHeights ==
    /\ pc = "blockstore"
    /\ startHeight' = base
    /\ currentHeight' = Height
    /\ IF PruneTargetValid(Height - FullHeight)
          THEN /\ base' = Height - FullHeight
               /\ pc' = "compact"
          ELSE /\ pc' = "idle"
               /\ UNCHANGED base
    /\ UNCHANGED <<stateKeys, runs, i, c, batch, curBatchSize>>

(* compactBlockStore, then forcepruneStateStore opens state.db.            *)
CompactBlockStore ==
    /\ pc = "compact"
    /\ pc' = "state"
    /\ i' = 1
    /\ c' = startHeight
    /\ batch' = {}
    /\ curBatchSize' = 0
    /\ UNCHANGED <<base, stateKeys, runs, startHeight, currentHeight>>

(* Write(batch) of family s.                                               *)
WriteBatch(s, b) == stateKeys' = [stateKeys EXCEPT ![s] = @ \ b]

(* Mutant of DeleteStep: the loop runs while c <= retainHeight.            *)
DeleteStepInclusive ==
    LET s == StateDBKeys[i] IN
    /\ pc = "state"
    /\ i <= 3
    /\ c <= RetainHeight(s)
    /\ curBatchSize' = curBatchSize + 1
    /\ c' = c + 1
    /\ IF curBatchSize' % BatchMaxSize = 0
          THEN WriteBatch(s, batch \cup {c}) /\ batch' = {}
          ELSE batch' = batch \cup {c} /\ UNCHANGED stateKeys
    /\ UNCHANGED <<base, pc, runs, startHeight, currentHeight, i>>

(***************************************************************************)
(* One iteration of the height loop: batch.Delete(s + c); every            *)
(* batchMaxSize deletes the batch is written and a new one started.        *)
(***************************************************************************)
DeleteStep ==
    LET s == StateDBKeys[i] IN
    /\ pc = "state"
    /\ i <= 3
    /\ c < RetainHeight(s)
    /\ curBatchSize' = curBatchSize + 1
    /\ c' = c + 1
    /\ IF curBatchSize' % BatchMaxSize = 0
          THEN WriteBatch(s, batch \cup {c}) /\ batch' = {}
          ELSE batch' = batch \cup {c} /\ UNCHANGED stateKeys
    /\ UNCHANGED <<base, pc, runs, startHeight, currentHeight, i>>

(* End of the height loop of family s: the last batch is written.          *)
FlushFamily ==
    LET s == StateDBKeys[i] IN
    /\ pc = "state"
    /\ i <= 3
    /\ c >= RetainHeight(s)
    /\ WriteBatch(s, batch)
    /\ batch' = {}
    /\ curBatchSize' = 0
    /\ i' = i + 1
    /\ c' = startHeight
    /\ UNCHANGED <<base, pc, runs, startHeight, currentHeight>>

(* db.CompactRange of state.db; the run prints "Done ...".                 *)
CompactStateStore ==
    /\ pc = "state"
    /\ i > 3
    /\ pc' = "done"
    /\ UNCHANGED <<base, stateKeys, runs, locals>>

(***************************************************************************)
(* The process dies (killed, or the panic of compactBlockStore's deferred  *)
(* Close on a nil db).  Pending batch deletes are lost.  Inside PruneBlocks *)
(* the block store has flushed some of its own batches, each saving a new  *)
(* base.                                                                   *)
(***************************************************************************)
Crash ==
    /\ pc \in {"blockstore", "compact", "state"}
    /\ pc' = "idle"
    /\ IF pc = "blockstore" /\ PruneTargetValid(Height - FullHeight)
          THEN base' \in base..(Height - FullHeight)
          ELSE UNCHANGED base
    /\ startHeight' = 0 /\ currentHeight' = 0 /\ i' = 1 /\ c' = 0
    /\ batch' = {} /\ curBatchSize' = 0
    /\ UNCHANGED <<stateKeys, runs>>

Next ==
    \/ Start
    \/ PruneBlockStoreAndGetHeights
    \/ CompactBlockStore
    \/ DeleteStep
    \/ FlushFamily
    \/ CompactStateStore
    \/ Crash

Spec == Init /\ [][Next]_vars

---------------------------------------------------------------------------
TypeOK ==
    /\ base \in Heights
    /\ stateKeys \in [Families -> SUBSET Heights]
    /\ pc \in {"idle", "blockstore", "compact", "state", "done"}
    /\ runs \in 0..MaxRuns
    /\ i \in 1..4
    /\ batch \subseteq Heights
    /\ c \in 0..Height /\ curBatchSize \in 0..Height

---------------------------------------------------------------------------
(***************************************************************************)
(* Where Tendermint's state store keeps what a height needs.  The key of   *)
(* height h of both families holds only LastHeightChanged, except at the  *)
(* height of a change (and, for validators, every checkpoint), where it   *)
(* holds the set or the params themselves; LoadValidators(h) and          *)
(* LoadConsensusParams(h) read key h and then the key of that height.     *)
(***************************************************************************)
LastHeightChanged(C, h) == CHOOSE x \in C : x <= h /\ \A y \in C : y <= h => y <= x

StoredHeight(s, h) ==
    IF s = "validatorsKey"
       THEN LET cp == h - (h % ValSetCheckpointInterval)
                lc == LastHeightChanged(ValSetChanges, h)
            IN  IF cp > lc THEN cp ELSE lc
       ELSE LastHeightChanged(ParamsChanges, h)

(* The state.db keys LoadValidators and LoadConsensusParams read for h.    *)
KeysNeeded(s, h) == {h, StoredHeight(s, h)}

(***************************************************************************)
(* The help text: forceprune keeps "blockchain and state data of last     *)
(* fullHeight blocks", state data being "validator and consensus          *)
(* information".  So, whatever runs and crashes happened, every block     *)
(* still in the block store can load its validator set and consensus      *)
(* params: the keys LoadValidators and LoadConsensusParams read for its   *)
(* height are in state.db.                                                 *)
(***************************************************************************)
RetainedStateLoadable ==
    \A s \in {"validatorsKey", "consensusParamsKey"} : \A h \in base..Height :
        KeysNeeded(s, h) \subseteq stateKeys[s]

(***************************************************************************)
(* After a run that completes ("Done ..."), everything below the retain    *)
(* heights is pruned from state.db, as the command's help text says:       *)
(* validators and consensus params below Height - fullHeight, ABCI         *)
(* responses below Height - minHeight.                                     *)
(***************************************************************************)
PrunedAfterCompletedRun ==
    pc = "done" =>
        \A s \in Families : \A h \in stateKeys[s] :
            h >= IF s = "abciResponsesKey" THEN Height - MinHeight ELSE Height - FullHeight

(***************************************************************************)
(* Refinement: the command, step by step and killed at any point,          *)
(* implements PruneRetention with the databases mapped to themselves.  A  *)
(* batch write is one DeleteState; PruneBlocks, and a crash inside it, is *)
(* a RaiseBase; every other step leaves the databases alone.              *)
(***************************************************************************)
Retention == INSTANCE PruneRetention

(* Every behaviour of forceprune, crashes and reruns included, raises the *)
(* base only up to Height - fullHeight and deletes state.db keys only     *)
(* below their retain height, and validators and consensus params only    *)
(* below the base.                                                         *)
PruneRefined == Retention!RetentionSpec
=============================================================================
