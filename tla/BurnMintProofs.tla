--------------------------- MODULE BurnMintProofs ---------------------------
(* Proofs about the burn plugin and the mint keeper, for every value of    *)
(* the constants.                                                          *)
EXTENDS BurnMint, TLAPS

LEMMA InitTypeOK == Init => TypeOK
BY DEF Init, TypeOK

(* A bank transfer that succeeds leaves every balance a natural.           *)
LEMMA TransferType ==
    ASSUME TypeOK, NEW from \in Holders, NEW to \in Holders, NEW amt \in Coins,
           Transfer(from, to, amt)
    PROVE  balance' \in [Holders -> [Denoms -> Nat]]
BY DEF TypeOK, Transfer, HasCoins, Coins

LEMMA NextTypeOK == TypeOK /\ [Next]_vars => TypeOK'
<1> SUFFICES ASSUME TypeOK, [Next]_vars PROVE TypeOK'
    OBVIOUS
<1>1. CASE \E m \in Modules, amt \in Coins : BurnCoins(m, amt)
    <2> PICK m \in Modules, amt \in Coins : BurnCoins(m, amt)
        BY <1>1
    <2>1. balance' \in [Holders -> [Denoms -> Nat]]
        BY DEF BurnCoins, HasCoins, Debit, TypeOK, Coins, Modules, Holders
    <2>2. supply' \in [Denoms -> Int]
        BY DEF BurnCoins, TypeOK, Coins
    <2>3. targetSupply' \in Int
        BY DEF BurnCoins, ReduceTargetSupply, TypeOK, Coins
    <2> QED
        BY <2>1, <2>2, <2>3 DEF BurnCoins, TypeOK
<1>2. CASE \E a \in Accounts, amt \in Coins : SendCoinsFromAccountToModule(a, amt)
    <2> PICK a \in Accounts, amt \in Coins : SendCoinsFromAccountToModule(a, amt)
        BY <1>2
    <2> QED
        BY TransferType DEF SendCoinsFromAccountToModule, TypeOK, Holders, Modules
<1>3. CASE \E amt \in Coins : MintCoins(amt) \/ AddCollectedFees(amt)
    <2> PICK amt \in Coins : MintCoins(amt) \/ AddCollectedFees(amt)
        BY <1>3
    <2>1. CASE MintCoins(amt)
        BY <2>1 DEF MintCoins, Credit, TypeOK, Coins, Holders, Modules
    <2>2. CASE AddCollectedFees(amt)
        BY <2>2, TransferType DEF AddCollectedFees, TypeOK, Holders, Modules
    <2> QED
        BY <2>1, <2>2
<1>4. CASE \E md \in Denoms : SetParams(md)
    BY <1>4 DEF SetParams, TypeOK
<1>5. CASE UNCHANGED vars
    BY <1>5 DEF vars, TypeOK
<1> QED
    BY <1>1, <1>2, <1>3, <1>4, <1>5 DEF Next

(* Every reachable state is well typed: balances are naturals.             *)
THEOREM BurnMintTypeCorrect == Spec => []TypeOK
BY InitTypeOK, NextTypeOK, PTL DEF Spec

(***************************************************************************)
(* Over the plugin's burns, the minter's target supply moves only with the *)
(* mint-denom supply, and by the same amount, whatever the constants.     *)
(***************************************************************************)
THEOREM TargetFollowsSupply == Spec => TargetTracksBurns
<1> DEFINE A == (targetSupply' # targetSupply \/ supply'[mintDenom] < supply[mintDenom])
                 => /\ mintDenom' = mintDenom
                    /\ targetSupply - targetSupply' = supply[mintDenom] - supply'[mintDenom]
<1>1. TypeOK /\ [Next]_vars => [A]_vars
    <2> SUFFICES ASSUME TypeOK, [Next]_vars PROVE [A]_vars
        OBVIOUS
    <2>1. CASE \E m \in Modules, amt \in Coins : BurnCoins(m, amt)
        <3> PICK m \in Modules, amt \in Coins : BurnCoins(m, amt)
            BY <2>1
        <3>1. CASE amt[mintDenom] > 0
            BY <3>1 DEF BurnCoins, ReduceTargetSupply, TypeOK, Coins
        <3>2. CASE ~(amt[mintDenom] > 0)
            BY <3>2 DEF BurnCoins, TypeOK, Coins
        <3> QED
            BY <3>1, <3>2
    <2>2. CASE \E a \in Accounts, amt \in Coins : SendCoinsFromAccountToModule(a, amt)
        BY <2>2 DEF SendCoinsFromAccountToModule, TypeOK
    <2>3. CASE \E amt \in Coins : MintCoins(amt) \/ AddCollectedFees(amt)
        BY <2>3 DEF MintCoins, AddCollectedFees, TypeOK, Coins
    <2>4. CASE \E md \in Denoms : SetParams(md)
        BY <2>4 DEF SetParams, TypeOK
    <2>5. CASE UNCHANGED vars
        BY <2>5 DEF vars
    <2> QED
        BY <2>1, <2>2, <2>3, <2>4, <2>5 DEF Next
<1> QED
    BY <1>1, BurnMintTypeCorrect, PTL DEF Spec, TargetTracksBurns
=============================================================================
