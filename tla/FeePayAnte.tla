----------------------------- MODULE FeePayAnte -----------------------------
(***************************************************************************)
(* The FeePay deduct-fee ante decorator (src/x/feepay/ante/dedcuct_fee.go).*)
(*                                                                         *)
(* One step is one AnteHandle call that succeeds.  An ante handler that    *)
(* returns an error (or panics, which runTx recovers) has its cached       *)
(* writes discarded, so a rejected transaction is a stuttering step.       *)
(* Balances are in the bond denom; gas prices are fractions over PriceDen. *)
(* Simulation runs on a discarded branch and changes no state, so only     *)
(* simulate = false is modelled.                                           *)
(***************************************************************************)
EXTENDS Integers, Sequences

CONSTANTS
    Accounts,        \* user accounts (fee payers and granters)
    Contracts,       \* contract addresses
    FeePayModule,    \* the feepay module account
    FeeCollector,    \* the fee collector module account
    NoGranter,       \* feeTx.FeeGranter() = nil
    NoPrice,         \* no minimum gas price in the bond denom
    MaxFee,          \* largest fee amount in a transaction
    MaxGas,          \* largest gas limit in a transaction
    PriceDen,        \* denominator of the gas prices
    MinGasPrice,     \* the validator's min gas price (numerator), CheckTx only
    GlobalPrices     \* possible global-fee bond-denom prices (numerators)

ASSUME FeePayAssumption ==
    /\ FeePayModule \notin Accounts /\ FeeCollector \notin Accounts
    /\ FeePayModule # FeeCollector /\ NoGranter \notin Accounts
    /\ MaxFee \in Nat /\ MaxGas \in Nat /\ PriceDen \in Nat \ {0}
    /\ MinGasPrice \in Nat /\ GlobalPrices \subseteq Nat /\ NoPrice \notin Nat

Holders == Accounts \cup {FeePayModule, FeeCollector}
NoGrant == -1
OtherMsg == [type |-> "other"]
Exec(c) == [type |-> "exec", contract |-> c]

Msgs == {<<Exec(c)>> : c \in Contracts}
        \cup {<<Exec(c), OtherMsg>> : c \in Contracts} \cup {<<OtherMsg>>}

Txs == [payer : Accounts, granter : Accounts \cup {NoGranter},
        fee : 0..MaxFee, gas : 0..MaxGas, msgs : Msgs]

VARIABLES
    balance,         \* bond-denom balances
    grant,           \* feegrant BasicAllowance spend limit: <<granter, grantee>> -> limit
    registered,      \* contracts registered with the feepay module
    feePrice,        \* globalfee MinimumGasPrices entry for the bond denom
    last             \* the last accepted transaction and who paid its fee

vars == <<balance, grant, registered, feePrice, last>>

(* ceil(price * gas) for a price given as a numerator over PriceDen.       *)
CeilFee(price, gas) == (price * gas + PriceDen - 1) \div PriceDen

---------------------------------------------------------------------------
(* Mutant of isValidFeePayTransaction: the message count is not checked.   *)
IsValidFeePayTransactionAnyCount(tx, fee) ==
    fee = 0 /\ tx.msgs[1].type = "exec"

(***************************************************************************)
(* isValidFeePayTransaction: a zero fee and exactly one message, which is  *)
(* a MsgExecuteContract.                                                   *)
(***************************************************************************)
IsValidFeePayTransaction(tx, fee) ==
    fee = 0 /\ Len(tx.msgs) = 1 /\ tx.msgs[1].type = "exec"

(***************************************************************************)
(* checkTxFeeWithValidatorMinGasPrices: in CheckTx, a transaction that is  *)
(* not a fee-pay transaction must offer ceil(minGasPrice * gas) when the   *)
(* validator's min gas price is not zero.                                  *)
(***************************************************************************)
TxFeeCheckerAccepts(tx, isCheckTx) ==
    isCheckTx /\ ~IsValidFeePayTransaction(tx, tx.fee) /\ MinGasPrice # 0
        => tx.fee >= CeilFee(MinGasPrice, tx.gas)

(***************************************************************************)
(* feegrantKeeper.UseGrantedFees for a BasicAllowance with a spend limit:  *)
(* fails without a grant or when the fee exceeds the limit; otherwise the  *)
(* limit falls by the fee and the grant is removed once it reaches zero.   *)
(***************************************************************************)
UseGrantedFees(granter, grantee, fee) ==
    /\ grant[<<granter, grantee>>] # NoGrant
    /\ fee <= grant[<<granter, grantee>>]
    /\ grant' = [grant EXCEPT ![<<granter, grantee>>] =
                    IF @ - fee = 0 THEN NoGrant ELSE @ - fee]

(* Mutant of Send: the sender's balance is not checked.                   *)
SendNoBalanceCheck(from, to, amt) ==
    balance' = [balance EXCEPT ![from] = @ - amt, ![to] = @ + amt]

(* bank SendCoins of one bond-denom amount; an empty amount moves nothing. *)
Send(from, to, amt) ==
    /\ amt <= balance[from]
    /\ balance' = [balance EXCEPT ![from] = @ - amt, ![to] = @ + amt]

(***************************************************************************)
(* handleZeroFees: the contract must be registered; the feepay module pays *)
(* ceil(feePrice * gas) to the fee collector.  Without a bond-denom price  *)
(* feePrice is the zero DecCoin, whose nil amount makes Mul panic.         *)
(***************************************************************************)
HandleZeroFees(tx) ==
    /\ tx.msgs[1].contract \in registered
    /\ feePrice # NoPrice
    /\ Send(FeePayModule, FeeCollector, CeilFee(feePrice, tx.gas))

(* DeductFees: the standard route, the fee from the paying account.        *)
DeductFees(from, fee) == Send(from, FeeCollector, fee)

(* checkDeductFee with the route it takes and the account that pays.       *)
CheckDeductFee(tx) ==
    LET deductFeesFrom == IF tx.granter = NoGranter THEN tx.payer ELSE tx.granter
        feePay == IsValidFeePayTransaction(tx, tx.fee)
    IN  /\ IF tx.granter # NoGranter /\ tx.granter # tx.payer
              THEN UseGrantedFees(tx.granter, tx.payer, tx.fee)
              ELSE UNCHANGED grant
        /\ IF feePay THEN HandleZeroFees(tx) ELSE DeductFees(deductFeesFrom, tx.fee)
        /\ last' = [tx |-> tx, paidBy |-> IF feePay THEN FeePayModule ELSE deductFeesFrom]

(***************************************************************************)
(* AnteHandle (simulate = false): a positive gas limit (the block height   *)
(* is positive), the fee checker, then checkDeductFee.                     *)
(***************************************************************************)
AnteHandle(tx, isCheckTx) ==
    /\ tx.gas > 0
    /\ TxFeeCheckerAccepts(tx, isCheckTx)
    /\ CheckDeductFee(tx)
    /\ UNCHANGED <<registered, feePrice>>

Init ==
    /\ balance \in [Holders -> 0..1]
    /\ grant \in [Accounts \X Accounts -> {NoGrant} \cup 1..MaxFee]
    /\ \A a \in Accounts : grant[<<a, a>>] = NoGrant
    /\ registered \in SUBSET Contracts
    /\ feePrice \in GlobalPrices \cup {NoPrice}
    /\ last = [tx |-> NoGranter, paidBy |-> NoGranter]

Next == \E tx \in Txs, isCheckTx \in BOOLEAN : AnteHandle(tx, isCheckTx)

Spec == Init /\ [][Next]_vars

---------------------------------------------------------------------------
TypeOK ==
    /\ balance \in [Holders -> Nat]
    /\ grant \in [Accounts \X Accounts -> {NoGrant} \cup (Nat \ {0})]
    /\ registered \subseteq Contracts
    /\ feePrice \in GlobalPrices \cup {NoPrice}

(***************************************************************************)
(* Exactly one party pays each accepted transaction's fee, and what it     *)
(* pays is what the fee collector receives: the feepay module only for a   *)
(* zero-fee transaction whose single message executes a registered        *)
(* contract; otherwise the fee granter when one is set, else the fee       *)
(* payer.  A fee grant shrinks only when its granter pays its grantee's    *)
(* fee, and by that fee (checkDeductFee, handleZeroFees, DeductFees).      *)
(***************************************************************************)
FeeChargedToOneParty ==
    [][ LET tx == last'.tx
            losers == {h \in Holders \ {FeeCollector} : balance'[h] # balance[h]}
        IN  /\ \A h \in losers :
                   /\ losers = {h}
                   /\ balance[h] - balance'[h] = balance'[FeeCollector] - balance[FeeCollector]
                   /\ h = FeePayModule =>
                         /\ tx.fee = 0 /\ tx.msgs = <<Exec(tx.msgs[1].contract)>>
                         /\ tx.msgs[1].contract \in registered
                   /\ h \in Accounts =>
                         h = IF tx.granter = NoGranter THEN tx.payer ELSE tx.granter
            /\ \A g, p \in Accounts :
                   grant'[<<g, p>>] # grant[<<g, p>>] =>
                       /\ tx.granter = g /\ tx.payer = p /\ losers = {g}
                       /\ balance[g] - balance'[g] = tx.fee
      ]_vars

=============================================================================
