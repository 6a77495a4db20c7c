---------------------------- MODULE ClockProofs ----------------------------
(***************************************************************************)
(* Proofs about the x/clock EndBlocker model: type correctness and that    *)
(* jailing follows the loop exactly, for every set of contracts, every     *)
(* gas bound and every number of blocks.                                   *)
(***************************************************************************)
EXTENDS Clock, FiniteSetTheorems, TLAPS

(* A snapshot returned by GetAllContracts is a sequence of distinct         *)
(* addresses of the set it enumerates.                                      *)
LEMMA SnapshotType ==
    ASSUME NEW S \in SUBSET Contracts, NEW s \in GetAllContracts(S)
    PROVE  /\ s \in Seq(S)
           /\ Len(s) = Cardinality(S)
           /\ \A i, j \in 1..Len(s) : i # j => s[i] # s[j]
<1>1. IsFiniteSet(S) /\ Cardinality(S) \in Nat
  BY ContractsAssumption, FS_Subset, FS_CardinalityType
<1>2. s \in [1..Cardinality(S) -> S]
  BY DEF GetAllContracts
<1>3. s \in Seq(S) /\ Len(s) = Cardinality(S)
  BY <1>1, <1>2
<1>4. \A i, j \in 1..Len(s) : i # j => s[i] # s[j]
  <2> SUFFICES ASSUME NEW i \in 1..Len(s), NEW j \in 1..Len(s), i # j
               PROVE  s[i] # s[j]
    OBVIOUS
  <2>1. s[i] \in Nat /\ s[j] \in Nat
    BY <1>2, <1>3, ContractsAssumption
  <2>2. i < j => s[i] < s[j]
    BY <1>3 DEF GetAllContracts
  <2>3. j < i => s[j] < s[i]
    BY <1>3 DEF GetAllContracts
  <2>. QED
    BY <2>1, <2>2, <2>3, <1>1, <1>3
<1>. QED
  BY <1>3, <1>4

(* The initial states satisfy the inductive invariant.                      *)
LEMMA InitIInv == Init => IInv
<1> SUFFICES ASSUME Init PROVE IInv
  OBVIOUS
<1>1. contracts = <<>> /\ errorExecs = <<>> /\ idx = 1
  BY DEF Init
<1>2. errorExecs \in [1..Len(contracts) -> Contracts \cup {Blank}]
  BY <1>1
<1>3. TypeOK
  <2>1. contracts \in Seq(Contracts) /\ idx \in 1..Len(contracts) + 1
    BY <1>1
  <2>2. gasLimit \in GasLimits /\ block \in Nat
    BY DEF Init
  <2>3. /\ registered \subseteq Contracts /\ jailed \subseteq registered
        /\ phase \in {"txs", "endblock", "halted"}
        /\ errorExists \in BOOLEAN
        /\ written \subseteq Contracts /\ sudoFailed \subseteq Contracts
    BY DEF Init
  <2>. QED
    BY <1>2, <2>1, <2>2, <2>3 DEF TypeOK
<1>. QED
  BY <1>1, <1>3 DEF Init, IInv, SnapshotDistinct, UnvisitedBlank,
                    NoPendingFailure, PassFailuresJailed, JailedIffSudoFailed

(* Every step of Next, and every stuttering step, preserves IInv.          *)
LEMMA NextIInv == IInv /\ [Next]_vars => IInv'
<1> SUFFICES ASSUME IInv, [Next]_vars PROVE IInv'
  OBVIOUS
<1> USE DEF IInv, TypeOK, SnapshotDistinct, UnvisitedBlank,
            NoPendingFailure, PassFailuresJailed, JailedIffSudoFailed
<1>1. ASSUME NEW c \in Contracts, RegisterContract(c) PROVE IInv'
  BY <1>1 DEF RegisterContract
<1>2. ASSUME NEW g \in GasLimits, UpdateParams(g) PROVE IInv'
  BY <1>2 DEF UpdateParams
<1>3. CASE BeginEndBlocker
  <2>1. PICK s \in GetAllContracts(Active) :
              /\ contracts' = s
              /\ errorExecs' = [i \in 1..Len(s) |-> Blank]
    BY <1>3 DEF BeginEndBlocker
  <2>2. /\ s \in Seq(Active)
        /\ \A i, j \in 1..Len(s) : i # j => s[i] # s[j]
    BY SnapshotType DEF Active
  <2>3. /\ idx' = 1 /\ errorExists' = FALSE /\ phase' = "endblock"
        /\ UNCHANGED <<registered, jailed, gasLimit, written, sudoFailed, block>>
    BY <1>3 DEF BeginEndBlocker
  <2>4. sudoFailed = {} /\ block < MaxBlock
    BY <1>3 DEF BeginEndBlocker
  <2>5. TypeOK'
    <3>1. Active \subseteq Contracts
      BY DEF Active
    <3>2. contracts' \in Seq(Contracts)
      BY <2>1, <2>2, <3>1
    <3>3. errorExecs' \in [1..Len(contracts') -> Contracts \cup {Blank}]
      BY <2>1
    <3>4. idx' \in 1..Len(contracts') + 1
      BY <2>3, <3>2
    <3>. QED
      BY <2>3, <3>2, <3>3, <3>4
  <2>6. JailedIffSudoFailed'
    BY <2>1, <2>2, <2>3, <2>4 DEF Active
  <2>7. SnapshotDistinct'
    BY <2>1, <2>2, <2>3 DEF Active
  <2>8. PassFailuresJailed'
    BY <2>3, <2>4
  <2>. QED
    BY <2>1, <2>2, <2>3, <2>5, <2>6, <2>7, <2>8
<1>4. CASE SkipBadAddress
  <2>1. idx \in 1..Len(contracts) /\ phase = "endblock"
    BY <1>4 DEF SkipBadAddress, InLoop
  <2>2. Current \in Contracts /\ Current \in BadAddr
    BY <1>4, <2>1 DEF SkipBadAddress, Current
  <2>3. /\ errorExecs' = [errorExecs EXCEPT ![idx] = Current]
        /\ idx' = idx + 1
        /\ UNCHANGED <<registered, jailed, gasLimit, phase, contracts,
                       errorExists, written, sudoFailed, block>>
    BY <1>4 DEF SkipBadAddress
  <2>4. TypeOK'
    BY <2>1, <2>2, <2>3
  <2>5. JailedIffSudoFailed'
    BY <2>1, <2>2, <2>3 DEF Current
  <2>. QED
    BY <2>1, <2>3, <2>4, <2>5
<1>5. CASE SudoSucceeds
  <2>1. idx \in 1..Len(contracts) /\ phase = "endblock"
    BY <1>5 DEF SudoSucceeds, InLoop
  <2>2. Current \in Contracts
    BY <2>1 DEF Current
  <2>3. /\ written' = written \cup {Current}
        /\ idx' = idx + 1
        /\ UNCHANGED <<registered, jailed, gasLimit, phase, contracts,
                       errorExecs, errorExists, sudoFailed, block>>
    BY <1>5 DEF SudoSucceeds
  <2>4. TypeOK'
    BY <2>1, <2>2, <2>3
  <2>5. errorExecs[idx] = Blank /\ contracts[idx] \notin jailed
    BY <2>1
  <2>6. JailedIffSudoFailed'
    BY <2>1, <2>3, <2>5, BlankAssumption
  <2>. QED
    BY <2>1, <2>3, <2>4, <2>6
<1>6. CASE SudoFails
  <2>1. idx \in 1..Len(contracts) /\ phase = "endblock"
    BY <1>6 DEF SudoFails, InLoop
  <2>2. Current \in Contracts /\ Current \notin BadAddr
    BY <1>6, <2>1 DEF SudoFails, Current
  <2>3. /\ written' \subseteq written \cup {Current}
        /\ sudoFailed' = sudoFailed \cup {Current}
        /\ errorExists' = TRUE
        /\ errorExecs' = [errorExecs EXCEPT ![idx] = Current]
        /\ jailed' = jailed \cup {Current}
        /\ idx' = idx + 1
        /\ UNCHANGED <<registered, gasLimit, phase, contracts, block>>
    BY <1>6 DEF SudoFails, JailContract
  <2>4. Current \in registered
    BY <2>1 DEF Current
  <2>5. TypeOK'
    BY <2>1, <2>2, <2>3, <2>4
  <2>6. JailedIffSudoFailed'
    BY <2>1, <2>2, <2>3, BlankAssumption DEF Current
  <2>7. PassFailuresJailed'
    BY <2>1, <2>2, <2>3
  <2>. QED
    BY <2>1, <2>3, <2>5, <2>6, <2>7
<1>7. CASE SudoOutOfGas
  <2>1. phase = "endblock" /\ phase' = "halted"
    BY <1>7 DEF SudoOutOfGas, InLoop
  <2>2. UNCHANGED <<registered, jailed, gasLimit, contracts, idx, errorExecs,
                   errorExists, written, sudoFailed, block>>
    BY <1>7 DEF SudoOutOfGas
  <2>. QED
    BY <2>1, <2>2
<1>8. CASE EndEndBlocker
  BY <1>8, BoundsAssumption DEF EndEndBlocker
<1>9. CASE UNCHANGED vars
  <2>1. UNCHANGED <<registered, jailed, gasLimit, phase, contracts, idx,
                   errorExecs, errorExists, written, sudoFailed, block>>
    BY <1>9 DEF vars
  <2>. QED
    BY <2>1
<1>. QED
  BY <1>1, <1>2, <1>3, <1>4, <1>5, <1>6, <1>7, <1>8, <1>9 DEF Next

(* Type correctness: every reachable state satisfies TypeOK.                *)
THEOREM TypeCorrect == Spec => []TypeOK
<1>1. IInv => TypeOK
  BY DEF IInv
<1>. QED
  BY InitIInv, NextIInv, <1>1, PTL DEF Spec

(***************************************************************************)
(* The EndBlocker jails a snapshot contract iff its Sudo failed, and never *)
(* calls a jailed contract: JailedIffSudoFailed holds in every state.      *)
(***************************************************************************)
THEOREM JailingFollowsLoop == Spec => []JailedIffSudoFailed
<1>1. IInv => JailedIffSudoFailed
  BY DEF IInv
<1>. QED
  BY InitIInv, NextIInv, <1>1, PTL DEF Spec
---------------------------------------------------------------------------
(* Refinement of ClockPass.                                                 *)

(* The initial states map to initial states of ClockPass.                  *)
LEMMA InitRefines == Init => Abstract!PassInit
BY DEF Init, Abstract!PassInit, CommittedJailed, GasLimits

(***************************************************************************)
(* Every step maps to a ClockPass step or a stutter: the loop's steps are  *)
(* stutters of the committed registry, EndEndBlocker is Pass with the      *)
(* failures of the block, SudoOutOfGas is Halt.                            *)
(***************************************************************************)
LEMMA StepRefines ==
    IInv /\ IInv' /\ [Next]_vars => [Abstract!PassNext]_Abstract!passVars
<1> SUFFICES ASSUME IInv, IInv', [Next]_vars
             PROVE  [Abstract!PassNext]_Abstract!passVars
  OBVIOUS
<1> USE DEF IInv, TypeOK, PassFailuresJailed, NoPendingFailure,
            JailedIffSudoFailed, CommittedJailed, Abstract!passVars
<1>1. ASSUME NEW c \in Contracts, RegisterContract(c)
      PROVE  Abstract!Register(c)
  BY <1>1 DEF RegisterContract, Abstract!Register
<1>2. ASSUME NEW g \in GasLimits, UpdateParams(g)
      PROVE  Abstract!SetGasLimit(g)
  BY <1>2 DEF UpdateParams, Abstract!SetGasLimit
<1>3. CASE BeginEndBlocker
  BY <1>3 DEF BeginEndBlocker
<1>4. CASE SkipBadAddress
  BY <1>4 DEF SkipBadAddress, InLoop
<1>5. CASE SudoSucceeds
  BY <1>5 DEF SudoSucceeds, InLoop
<1>6. CASE SudoFails
  <2>1. idx \in 1..Len(contracts) /\ phase = "endblock"
    BY <1>6 DEF SudoFails, InLoop
  <2>2. Current \notin jailed
    BY <2>1 DEF Current
  <2>3. /\ sudoFailed' = sudoFailed \cup {Current}
        /\ jailed' = jailed \cup {Current}
        /\ UNCHANGED <<registered, gasLimit, phase, block>>
    BY <1>6 DEF SudoFails, JailContract
  <2>. QED
    BY <2>1, <2>2, <2>3
<1>7. CASE SudoOutOfGas
  <2>1. idx \in 1..Len(contracts) /\ phase = "endblock"
    BY <1>7 DEF SudoOutOfGas, InLoop
  <2>2. Current \in registered /\ Current \notin jailed /\ Current \notin BadAddr
    BY <1>7, <2>1 DEF SudoOutOfGas, Current, SnapshotDistinct
  <2>3. gasLimit < MaxGasNeed
    BY <1>7, BoundsAssumption DEF SudoOutOfGas, GasLimits
  <2>4. UNCHANGED <<registered, jailed, gasLimit, sudoFailed, block>>
          /\ phase' = "halted"
    BY <1>7 DEF SudoOutOfGas
  <2>5. Abstract!Halt
    BY <2>1, <2>2, <2>3, <2>4 DEF Abstract!Halt
  <2>. QED
    BY <2>5 DEF Abstract!PassNext
<1>8. CASE EndEndBlocker
  <2>1. phase = "endblock" /\ phase' = "txs"
        /\ block' = block + 1 /\ sudoFailed' = {}
        /\ UNCHANGED <<registered, jailed, gasLimit>>
    BY <1>8 DEF EndEndBlocker
  <2>2. sudoFailed \subseteq (registered \ (jailed \ sudoFailed)) \ BadAddr
    BY <2>1
  <2>3. jailed = (jailed \ sudoFailed) \cup sudoFailed
    BY <2>1
  <2>4. Abstract!Pass
    BY <2>1, <2>2, <2>3 DEF Abstract!Pass
  <2>. QED
    BY <2>4 DEF Abstract!PassNext
<1>9. CASE UNCHANGED vars
  BY <1>9 DEF vars
<1>. QED
  BY <1>1, <1>2, <1>3, <1>4, <1>5, <1>6, <1>7, <1>8, <1>9
     DEF Next, Abstract!PassNext, GasLimits

(***************************************************************************)
(* The EndBlocker implements ClockPass: committed jail flags only grow,    *)
(* only when a block ends, and only for unjailed contracts whose address  *)
(* parses (PassRefined, for every value of the constants).                 *)
(***************************************************************************)
THEOREM Refinement == Spec => PassRefined
<1>1. Spec => []IInv
  BY InitIInv, NextIInv, PTL DEF Spec
<1>2. []IInv /\ [][Next]_vars => [][Abstract!PassNext]_Abstract!passVars
  BY StepRefines, PTL
<1>. QED
  BY <1>1, <1>2, InitRefines, PTL DEF Spec, PassRefined, Abstract!PassSpec
=============================================================================
