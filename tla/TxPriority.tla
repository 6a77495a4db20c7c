----------------------------- MODULE TxPriority -----------------------------
(***************************************************************************)
(* getTxPriority (src/x/feepay/ante/dedcuct_fee.go), called by the fee     *)
(* checker with the transaction's fee coins and gas limit, one loop        *)
(* iteration per step.  The fee is the sequence of its coin amounts in     *)
(* denom order, all positive as in a valid sdk.Coins; gas is positive, as  *)
(* AnteHandle rejects a zero gas limit above height 0.                     *)
(***************************************************************************)
EXTENDS Integers, Sequences

CONSTANTS
    MaxAmount,       \* largest coin amount
    MaxCoins,        \* largest number of coins in a fee
    MaxGas,          \* largest gas limit
    MaxInt64         \* math.MaxInt64, scaled down so that the cap is reached

VARIABLES
    fee,             \* the fee coins
    gas,             \* the gas limit
    i,               \* the loop position
    priority         \* the priority computed so far

vars == <<fee, gas, i, priority>>

FeeCoins == UNION {[1..n -> 1..MaxAmount] : n \in 0..MaxCoins}

(* Mutant of GasPrice: the int64 cap is not applied.                       *)
GasPriceUncapped(amount, g) == amount \div g

(***************************************************************************)
(* p := MaxInt64; gasPrice := amount.QuoRaw(gas) (truncating); p :=       *)
(* gasPrice when it fits in an int64.                                      *)
(***************************************************************************)
GasPrice(amount, g) ==
    IF amount \div g <= MaxInt64 THEN amount \div g ELSE MaxInt64

Init ==
    /\ fee \in FeeCoins
    /\ gas \in 1..MaxGas
    /\ i = 1
    /\ priority = 0

(* One iteration: the coin replaces the priority when it is 0 or higher.   *)
LoopStep ==
    /\ i <= Len(fee)
    /\ LET p == GasPrice(fee[i], gas)
       IN  priority' = IF priority = 0 \/ p < priority THEN p ELSE priority
    /\ i' = i + 1
    /\ UNCHANGED <<fee, gas>>

Next == LoopStep

Spec == Init /\ [][Next]_vars

Done == i > Len(fee)

---------------------------------------------------------------------------
(* Type invariant; priority within 0..MaxInt64 is the int64 cap.          *)
TypeOK ==
    /\ fee \in FeeCoins
    /\ gas \in 1..MaxGas
    /\ i \in 1..Len(fee) + 1
    /\ priority \in 0..MaxInt64

Prices == {GasPrice(fee[k], gas) : k \in 1..Len(fee)}

(***************************************************************************)
(* The priority is the lowest gas price among the fee's coins, as the      *)
(* comment on getTxPriority describes ("the smallest denomination of the   *)
(* gas price"); 0 for a fee with no coins.                                 *)
(***************************************************************************)
PriorityIsLowestGasPrice ==
    Done =>
        priority = IF Prices = {} THEN 0
                   ELSE CHOOSE p \in Prices : \A q \in Prices : p <= q
=============================================================================
