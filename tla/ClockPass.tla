----------------------------- MODULE ClockPass -----------------------------
(***************************************************************************)
(* What one x/clock EndBlocker pass does to the registry, as one step      *)
(* (spec.md 4.4): between blocks contracts are registered and the gas      *)
(* limit changes; a pass jails some of the unjailed contracts whose        *)
(* address parses and commits the block, or the node halts with the       *)
(* block uncommitted.  Clock implements it (see Clock!PassRefined).        *)
(***************************************************************************)
EXTENDS Naturals, FiniteSets

CONSTANTS Contracts, BadAddr, MaxGasLimit, MaxGasNeed, MaxBlock

VARIABLES
    registered,    \* registered contracts
    jailed,        \* committed jail flags
    gasLimit,      \* Params.ContractGasLimit
    halted,        \* an EndBlock panicked; no block is committed any more
    block          \* committed blocks

passVars == <<registered, jailed, gasLimit, halted, block>>

PassInit ==
    /\ registered \in SUBSET Contracts
    /\ jailed = {}
    /\ gasLimit \in 1..MaxGasLimit
    /\ halted = FALSE
    /\ block = 0

Register(c) ==
    /\ ~halted
    /\ c \notin registered
    /\ registered' = registered \cup {c}
    /\ UNCHANGED <<jailed, gasLimit, halted, block>>

SetGasLimit(g) ==
    /\ ~halted
    /\ gasLimit' = g
    /\ UNCHANGED <<registered, jailed, halted, block>>

(* A committed pass: the contracts that failed are jailed, nothing else.   *)
Pass ==
    /\ ~halted
    /\ block < MaxBlock
    /\ \E failed \in SUBSET ((registered \ jailed) \ BadAddr) :
          jailed' = jailed \cup failed
    /\ block' = block + 1
    /\ UNCHANGED <<registered, gasLimit, halted>>

(* A call of an unjailed contract needs more gas than the limit.           *)
Halt ==
    /\ ~halted
    /\ block < MaxBlock
    /\ (registered \ jailed) \ BadAddr # {}
    /\ gasLimit < MaxGasNeed
    /\ halted' = TRUE
    /\ UNCHANGED <<registered, jailed, gasLimit, block>>

PassNext ==
    \/ \E c \in Contracts : Register(c)
    \/ \E g \in 1..MaxGasLimit : SetGasLimit(g)
    \/ Pass
    \/ Halt

PassSpec == PassInit /\ [][PassNext]_passVars
=============================================================================
