----------------------------- MODULE DripProofs -----------------------------
(***************************************************************************)
(* Proofs about the drip message server (Drip.tla), for every value of the *)
(* constants that DripAssumption allows.                                   *)
(***************************************************************************)
EXTENDS Drip, TLAPS

(* Initial states are well typed. *)
LEMMA InitTypeOK == Init => TypeOK
BY DEF Init, TypeOK

(* Every step keeps balances natural: a send is taken only when covered. *)
LEMMA NextTypeOK == TypeOK /\ [Next]_vars => TypeOK'
<1> SUFFICES ASSUME TypeOK, [Next]_vars PROVE TypeOK'
    OBVIOUS
<1>1. CASE \E s \in Accounts, a \in 1..MaxCoin : DistributeTokens(s, a)
    <2> PICK s \in Accounts, a \in 1..MaxCoin : DistributeTokens(s, a)
        BY <1>1
    <2> QED
        BY DripAssumption DEF DistributeTokens,
           SendCoinsFromAccountToFeeCollector, TypeOK, Holders
<1>2. CASE \E p \in Params : UpdateParams(p)
    BY <1>2 DEF UpdateParams, TypeOK
<1>3. CASE UNCHANGED vars
    BY <1>3 DEF vars, TypeOK
<1> QED
    BY <1>1, <1>2, <1>3 DEF Next

(* Balances stay natural and params well formed in every reachable state. *)
THEOREM DripTypeCorrect == Spec => []TypeOK
BY InitTypeOK, NextTypeOK, PTL DEF Spec

(***************************************************************************)
(* For every value of the constants, tokens leave an account only through  *)
(* a DistributeTokens that the params of that moment allowed, and they all *)
(* reach the fee collector.                                                *)
(***************************************************************************)
THEOREM DripsOnlyAllowed == Spec => OnlyAllowedDrips
<1> DEFINE A == \A s \in Accounts :
                  balance'[s] < balance[s] =>
                     /\ params.EnableDrip
                     /\ s \in params.AllowedAddresses
                     /\ balance'[FeeCollector] - balance[FeeCollector]
                           = balance[s] - balance'[s]
                     /\ \A h \in Accounts \ {s} : balance'[h] = balance[h]
<1>1. TypeOK /\ [Next]_vars => [A]_vars
    <2> SUFFICES ASSUME TypeOK, [Next]_vars PROVE [A]_vars
        OBVIOUS
    <2>1. CASE \E s \in Accounts, a \in 1..MaxCoin : DistributeTokens(s, a)
        <3> PICK snd \in Accounts, a \in 1..MaxCoin : DistributeTokens(snd, a)
            BY <2>1
        <3>1. snd \in params.AllowedAddresses
            BY DEF DistributeTokens, Authorized
        <3> QED
            BY <3>1, DripAssumption DEF DistributeTokens,
               SendCoinsFromAccountToFeeCollector, TypeOK, Holders
    <2>2. CASE \E p \in Params : UpdateParams(p)
        <3> PICK p \in Params : UpdateParams(p)
            BY <2>2
        <3> QED
            BY DEF UpdateParams, TypeOK, Holders
    <2>3. CASE UNCHANGED vars
        BY <2>3 DEF vars
    <2> QED
        BY <2>1, <2>2, <2>3 DEF Next
<1> QED
    BY <1>1, DripTypeCorrect, PTL DEF Spec, OnlyAllowedDrips
=============================================================================
