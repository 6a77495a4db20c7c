------------------------------- MODULE Clock -------------------------------
(***************************************************************************)
(* The x/clock end-of-block scheduler (src/x/clock/abci.go, EndBlocker).   *)
(*                                                                         *)
(* Every block, the EndBlocker reads the module parameters, takes the      *)
(* sorted list of registered contracts that are not jailed, and calls      *)
(* Sudo on each one with a fresh gas meter of ContractGasLimit.  A Sudo    *)
(* that returns an error jails the contract.  The loop is modelled one     *)
(* contract per step, so that the snapshot taken before the loop, the      *)
(* index into it and the partial results are state.                        *)
(*                                                                         *)
(* The clock keeper (GetAllContracts, JailContract, RegisterContract,      *)
(* params) is not under src/ and is modelled from spec.md section 4.1/4.2. *)
(* Sudo is the wasm keeper's: an error return, a success, or a gas-meter   *)
(* panic when the call needs more gas than the child context's limit.      *)
(***************************************************************************)
EXTENDS Naturals, Sequences, FiniteSets

CONSTANTS
    Contracts,     \* contract addresses; their order is the store's key order
    BadAddr,       \* stored addresses that sdk.AccAddressFromBech32 rejects
    Blank,         \* the empty string "" left in errorExecs for a success
    MaxGasLimit,   \* largest ContractGasLimit the params may hold
    MaxGasNeed,    \* largest gas one Sudo call may consume
    MaxBlock       \* number of blocks explored

ASSUME ContractsAssumption == IsFiniteSet(Contracts) /\ Contracts \subseteq Nat
ASSUME BadAddrAssumption == BadAddr \subseteq Contracts
ASSUME BlankAssumption == Blank \notin Contracts
ASSUME BoundsAssumption ==
    /\ MaxGasLimit \in Nat \ {0}
    /\ MaxGasNeed \in Nat \ {0}
    /\ MaxBlock \in Nat

VARIABLES
    registered,    \* clock store keys: every registered contract
    jailed,        \* the registered contracts marked jailed
    gasLimit,      \* Params.ContractGasLimit
    phase,         \* "txs" (block body), "endblock" (loop running), "halted"
    contracts,     \* the snapshot GetAllContracts(ctx, false), line 22
    idx,           \* loop index into contracts (1-based), line 26
    errorExecs,    \* line 23: the address at each failed index, else Blank
    errorExists,   \* line 24
    written,       \* contracts whose Sudo writes are in this block's state
    sudoFailed,    \* contracts whose Sudo returned an error this block
    block          \* block height, capped at MaxBlock

vars == <<registered, jailed, gasLimit, phase, contracts, idx, errorExecs,
          errorExists, written, sudoFailed, block>>

GasLimits == 1..MaxGasLimit

(***************************************************************************)
(* GetAllContracts(ctx, false): the enumerations of the unjailed           *)
(* registered contracts in ascending key order (exactly one exists).       *)
(***************************************************************************)
GetAllContracts(S) ==
    { s \in [1..Cardinality(S) -> S] :
        \A i, j \in 1..Cardinality(S) : i < j => s[i] < s[j] }

(* Mutant of Active: the call GetAllContracts(ctx, true), jailed included. *)
AllRegistered == registered

Active == registered \ jailed

Init ==
    /\ registered \in SUBSET Contracts
    /\ jailed = {}
    /\ gasLimit \in GasLimits
    /\ phase = "txs"
    /\ contracts = <<>>
    /\ idx = 1
    /\ errorExecs = <<>>
    /\ errorExists = FALSE
    /\ written = {}
    /\ sudoFailed = {}
    /\ block = 0

---------------------------------------------------------------------------
(* Administrative transactions of the block body (spec-modelled).          *)

(* Registration of a contract with the clock: a new store entry, unjailed. *)
RegisterContract(c) ==
    /\ phase = "txs"
    /\ c \notin registered
    /\ registered' = registered \cup {c}
    /\ UNCHANGED <<jailed, gasLimit, phase, contracts, idx, errorExecs,
                   errorExists, written, sudoFailed, block>>

(* MsgUpdateParams: Params.Validate rejects a zero gas limit.              *)
UpdateParams(g) ==
    /\ phase = "txs"
    /\ g \in GasLimits
    /\ gasLimit' = g
    /\ UNCHANGED <<registered, jailed, phase, contracts, idx, errorExecs,
                   errorExists, written, sudoFailed, block>>

---------------------------------------------------------------------------
(* Mutant of BeginEndBlocker: errorExecs made as an empty slice.          *)
BeginEndBlockerNilSlots ==
    /\ phase = "txs"
    /\ block < MaxBlock
    /\ \E s \in GetAllContracts(Active) :
          /\ contracts' = s
          /\ errorExecs' = <<>>
    /\ idx' = 1
    /\ errorExists' = FALSE
    /\ phase' = "endblock"
    /\ UNCHANGED <<registered, jailed, gasLimit, written, sudoFailed, block>>

(* EndBlocker, lines 18-24: params, snapshot, error slots.                 *)
BeginEndBlocker ==
    /\ phase = "txs"
    /\ block < MaxBlock
    /\ \E s \in GetAllContracts(Active) :
          /\ contracts' = s
          /\ errorExecs' = [i \in 1..Len(s) |-> Blank]
    /\ idx' = 1
    /\ errorExists' = FALSE
    /\ phase' = "endblock"
    /\ UNCHANGED <<registered, jailed, gasLimit, written, sudoFailed, block>>

Current == contracts[idx]

InLoop == phase = "endblock" /\ idx <= Len(contracts)

(* Lines 27-30: the address does not parse; record it and skip.            *)
SkipBadAddress ==
    /\ InLoop
    /\ Current \in BadAddr
    /\ errorExecs' = [errorExecs EXCEPT ![idx] = Current]
    /\ idx' = idx + 1
    /\ UNCHANGED <<registered, jailed, gasLimit, phase, contracts,
                   errorExists, written, sudoFailed, block>>

(* Lines 33-35: Sudo within the gas limit returns nil; its writes stay.    *)
SudoSucceeds ==
    /\ InLoop
    /\ Current \notin BadAddr
    /\ written' = written \cup {Current}
    /\ idx' = idx + 1
    /\ UNCHANGED <<registered, jailed, gasLimit, phase, contracts,
                   errorExecs, errorExists, sudoFailed, block>>

(***************************************************************************)
(* Lines 33-44: Sudo within the gas limit returns an error.  childCtx      *)
(* shares ctx's store (WithGasMeter does not branch it), so whatever the   *)
(* contract wrote before failing stays; then JailContract(ctx, addr).      *)
(***************************************************************************)
JailContract(c) == jailed' = jailed \cup {c}

SudoFails ==
    /\ InLoop
    /\ Current \notin BadAddr
    /\ \E partial \in BOOLEAN :
          written' = IF partial THEN written \cup {Current} ELSE written
    /\ sudoFailed' = sudoFailed \cup {Current}
    /\ errorExists' = TRUE
    /\ errorExecs' = [errorExecs EXCEPT ![idx] = Current]
    /\ JailContract(Current)
    /\ idx' = idx + 1
    /\ UNCHANGED <<registered, gasLimit, phase, contracts, block>>

(***************************************************************************)
(* Line 34: the call needs more gas than NewGasMeter(ContractGasLimit)     *)
(* allows; ConsumeGas panics with ErrorOutOfGas and nothing in EndBlocker  *)
(* recovers it, so the block's EndBlock panics and the node stops.         *)
(***************************************************************************)
SudoOutOfGas ==
    /\ InLoop
    /\ Current \notin BadAddr
    /\ \E need \in 1..MaxGasNeed : need > gasLimit
    /\ phase' = "halted"
    /\ UNCHANGED <<registered, jailed, gasLimit, contracts, idx, errorExecs,
                   errorExists, written, sudoFailed, block>>

(* Mutant of EndEndBlocker: the loop bound read as i < len(contracts)-1.  *)
EndEndBlockerEarly ==
    /\ phase = "endblock"
    /\ idx >= Len(contracts)
    /\ phase' = "txs"
    /\ block' = block + 1
    /\ written' = {}
    /\ sudoFailed' = {}
    /\ UNCHANGED <<registered, jailed, gasLimit, contracts, idx, errorExecs,
                   errorExists>>

(* Lines 47-50: after the loop the errors are logged; the block commits.   *)
EndEndBlocker ==
    /\ phase = "endblock"
    /\ idx > Len(contracts)
    /\ phase' = "txs"
    /\ block' = block + 1
    /\ written' = {}
    /\ sudoFailed' = {}
    /\ UNCHANGED <<registered, jailed, gasLimit, contracts, idx, errorExecs,
                   errorExists>>

Next ==
    \/ \E c \in Contracts : RegisterContract(c)
    \/ \E g \in GasLimits : UpdateParams(g)
    \/ BeginEndBlocker
    \/ SkipBadAddress
    \/ SudoSucceeds
    \/ SudoFails
    \/ SudoOutOfGas
    \/ EndEndBlocker

Spec == Init /\ [][Next]_vars

(***************************************************************************)
(* Fairness: EndBlocker is one Go call that BaseApp makes to completion   *)
(* once the block's transactions are delivered; its loop body never       *)
(* blocks, so a pass that has started keeps taking steps until it returns *)
(* or panics.  Nothing is assumed of transactions or of new blocks.        *)
(***************************************************************************)
LoopStep ==
    \/ SkipBadAddress
    \/ SudoSucceeds
    \/ SudoFails
    \/ SudoOutOfGas
    \/ EndEndBlocker

Fairness == WF_vars(LoopStep)

LiveSpec == Spec /\ Fairness

---------------------------------------------------------------------------
(* Properties.                                                             *)

TypeOK ==
    /\ registered \subseteq Contracts
    /\ jailed \subseteq registered
    /\ gasLimit \in GasLimits
    /\ phase \in {"txs", "endblock", "halted"}
    /\ contracts \in Seq(Contracts)
    /\ idx \in 1..(Len(contracts) + 1)
    /\ errorExecs \in [1..Len(contracts) -> Contracts \cup {Blank}]
    /\ errorExists \in BOOLEAN
    /\ written \subseteq Contracts
    /\ sudoFailed \subseteq Contracts
    /\ block \in Nat

(***************************************************************************)
(* Jailing follows the loop exactly: of the snapshot, the contracts        *)
(* already visited are jailed iff their Sudo returned an error (recorded   *)
(* in errorExecs), and none not yet visited is jailed, so no contract is   *)
(* called after being jailed and every failure of this block jails the    *)
(* contract that failed, at its own index.                                 *)
(***************************************************************************)
JailedIffSudoFailed ==
    phase = "endblock" =>
        /\ \A i \in 1..(idx - 1) :
              contracts[i] \in jailed <=>
                  (errorExecs[i] = contracts[i] /\ contracts[i] \notin BadAddr)
        /\ \A i \in idx..Len(contracts) : contracts[i] \notin jailed
        /\ errorExists <=> sudoFailed # {}

(***************************************************************************)
(* Inductive strengthening of TypeOK /\ JailedIffSudoFailed, proved in     *)
(* ClockProofs: the snapshot holds registered addresses, none twice (it   *)
(* is strictly ascending), the error slots not yet visited are still      *)
(* Blank, no Sudo failure is pending between blocks, and the failures of  *)
(* a running pass are jailed.                                              *)
(***************************************************************************)
SnapshotDistinct ==
    /\ \A i \in 1..Len(contracts) : contracts[i] \in registered
    /\ \A i, j \in 1..Len(contracts) : i # j => contracts[i] # contracts[j]

UnvisitedBlank ==
    phase = "endblock" => \A i \in idx..Len(contracts) : errorExecs[i] = Blank

NoPendingFailure == phase = "txs" => sudoFailed = {}

(* The failures of the running pass are jailed, have parsable addresses,  *)
(* and the pass runs below the block cap.                                  *)
PassFailuresJailed ==
    phase \in {"endblock", "halted"} =>
        /\ sudoFailed \subseteq jailed \ BadAddr
        /\ block < MaxBlock

IInv ==
    /\ TypeOK
    /\ SnapshotDistinct
    /\ UnvisitedBlank
    /\ NoPendingFailure
    /\ PassFailuresJailed
    /\ JailedIffSudoFailed

(***************************************************************************)
(* Liveness, spec.md 4.3: every block, each registered unjailed contract  *)
(* with a parsable address that the EndBlocker snapshot holds has its     *)
(* Sudo called (it succeeds or fails) before the block commits, unless    *)
(* the chain halts on an out-of-gas panic.                                 *)
(***************************************************************************)
EveryActiveContractCalled ==
    \A c \in Contracts \ BadAddr :
        (phase = "endblock" /\ \E i \in idx..Len(contracts) : contracts[i] = c)
            ~> (c \in written \cup sudoFailed \/ phase = "halted")

(***************************************************************************)
(* spec.md 4.3/6: no fault of an invocation propagates past the executor;  *)
(* the EndBlocker never aborts the block.                                  *)
(***************************************************************************)
EndBlockNeverAborts == phase # "halted"

(***************************************************************************)
(* spec.md 4.3/5: the writes of a failing invocation are discarded before  *)
(* the next job runs; no contract whose Sudo failed has writes in state.   *)
(***************************************************************************)
FailedSudoRolledBack == written \cap sudoFailed = {}

(***************************************************************************)
(* Refinement: the step-by-step EndBlocker implements ClockPass.  The jail *)
(* flags a pass has written are not committed until the block ends, and   *)
(* are lost when EndBlock panics; the abstract registry is the committed   *)
(* one.                                                                    *)
(***************************************************************************)
CommittedJailed ==
    IF phase \in {"endblock", "halted"} THEN jailed \ sudoFailed ELSE jailed

Abstract == INSTANCE ClockPass WITH jailed <- CommittedJailed,
                                    halted <- (phase = "halted")

(* Every behaviour of the EndBlocker loop is a behaviour of ClockPass:    *)
(* jail flags only grow, only at a block's end, and only for unjailed     *)
(* contracts with a parsable address.                                      *)
PassRefined == Abstract!PassSpec
=============================================================================
