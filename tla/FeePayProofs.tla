---------------------------- MODULE FeePayProofs ----------------------------
(***************************************************************************)
(* Proofs about the FeePay deduct-fee ante decorator (FeePayAnte), for     *)
(* every set of accounts and contracts, every fee and gas bound and every  *)
(* gas price: the state keeps its type, and every accepted transaction's  *)
(* fee is charged to exactly one party, the one checkDeductFee chose.     *)
(***************************************************************************)
EXTENDS FeePayAnte, TLAPS

(* The fee handleZeroFees charges is a natural number.                     *)
LEMMA CeilFeeNat ==
    ASSUME NEW price \in Nat, NEW gas \in Nat
    PROVE  CeilFee(price, gas) \in Nat
BY FeePayAssumption DEF CeilFee

(***************************************************************************)
(* A Send to the fee collector moves amt from the sender alone: every     *)
(* other holder keeps its balance, and what the sender loses is what the  *)
(* collector gains.                                                        *)
(***************************************************************************)
LEMMA SendToCollector ==
    ASSUME TypeOK, NEW from \in Holders \ {FeeCollector}, NEW amt \in Nat,
           Send(from, FeeCollector, amt)
    PROVE  /\ balance' \in [Holders -> Nat]
           /\ \A h \in Holders \ {from, FeeCollector} : balance'[h] = balance[h]
           /\ balance[from] - balance'[from] = amt
           /\ balance'[FeeCollector] - balance[FeeCollector] = amt
BY FeePayAssumption DEF Send, TypeOK, Holders

(* UseGrantedFees keeps the grants typed, and changes only the one grant. *)
LEMMA UseGrantType ==
    ASSUME TypeOK, NEW g \in Accounts, NEW p \in Accounts, NEW fee \in Nat,
           UseGrantedFees(g, p, fee)
    PROVE  /\ grant' \in [Accounts \X Accounts -> {NoGrant} \cup (Nat \ {0})]
           /\ \A k \in Accounts \X Accounts : k # <<g, p>> => grant'[k] = grant[k]
           /\ fee = 0 => grant' = grant
BY DEF UseGrantedFees, TypeOK, NoGrant

(* Init establishes TypeOK.                                                *)
LEMMA InitTypeOK == Init => TypeOK
BY FeePayAssumption DEF Init, TypeOK, Holders, NoGrant

(* The fee and the payer of one accepted transaction, once named.          *)
LEMMA AnteHandleFacts ==
    ASSUME TypeOK, NEW tx \in Txs, NEW isCheckTx \in BOOLEAN,
           AnteHandle(tx, isCheckTx)
    PROVE  LET feePay == IsValidFeePayTransaction(tx, tx.fee)
               from == IF feePay THEN FeePayModule
                       ELSE IF tx.granter = NoGranter THEN tx.payer ELSE tx.granter
               amt == IF feePay THEN CeilFee(feePrice, tx.gas) ELSE tx.fee
           IN  /\ from \in Holders \ {FeeCollector}
               /\ amt \in Nat
               /\ Send(from, FeeCollector, amt)
               /\ feePay => /\ tx.fee = 0 /\ tx.msgs = <<Exec(tx.msgs[1].contract)>>
                            /\ tx.msgs[1].contract \in registered
               /\ IF tx.granter # NoGranter /\ tx.granter # tx.payer
                     THEN UseGrantedFees(tx.granter, tx.payer, tx.fee)
                     ELSE grant' = grant
               /\ last' = [tx |-> tx, paidBy |-> from]
               /\ UNCHANGED <<registered, feePrice>>
<1> DEFINE feePay == IsValidFeePayTransaction(tx, tx.fee)
<1>1. tx.fee \in Nat /\ tx.gas \in Nat
  BY FeePayAssumption DEF Txs
<1>2. CASE feePay
  <2>1. feePrice \in Nat
    BY <1>2, FeePayAssumption DEF AnteHandle, CheckDeductFee, HandleZeroFees, TypeOK
  <2>2. CeilFee(feePrice, tx.gas) \in Nat
    BY <1>1, <2>1, CeilFeeNat
  <2>3. tx.msgs = <<Exec(tx.msgs[1].contract)>>
    <3>1. tx.msgs \in Msgs
      BY DEF Txs
    <3>2. Len(tx.msgs) = 1 /\ tx.msgs[1].type = "exec"
      BY <1>2 DEF IsValidFeePayTransaction
    <3>. QED
      BY <3>1, <3>2 DEF Msgs, Exec, OtherMsg
  <2>. QED
    BY <1>2, <2>2, <2>3, FeePayAssumption
    DEF AnteHandle, CheckDeductFee, HandleZeroFees, IsValidFeePayTransaction, Holders
<1>3. CASE ~feePay
  BY <1>1, <1>3, FeePayAssumption DEF AnteHandle, CheckDeductFee, DeductFees, Txs, Holders
<1>. QED
  BY <1>2, <1>3

(* Every accepted transaction keeps the state typed.                       *)
LEMMA NextTypeOK == TypeOK /\ [Next]_vars => TypeOK'
<1> SUFFICES ASSUME TypeOK, [Next]_vars PROVE TypeOK'
  OBVIOUS
<1>1. CASE Next
  <2>1. PICK tx \in Txs, isCheckTx \in BOOLEAN : AnteHandle(tx, isCheckTx)
    BY <1>1 DEF Next
  <2>2. balance' \in [Holders -> Nat]
    BY <2>1, AnteHandleFacts, SendToCollector
  <2>3. grant' \in [Accounts \X Accounts -> {NoGrant} \cup (Nat \ {0})]
    <3>1. tx.granter \in Accounts \cup {NoGranter} /\ tx.payer \in Accounts
          /\ tx.fee \in Nat
      BY DEF Txs
    <3>. QED
      BY <2>1, <3>1, AnteHandleFacts, UseGrantType DEF TypeOK
  <2>. QED
    BY <2>1, <2>2, <2>3, AnteHandleFacts DEF TypeOK
<1>2. CASE UNCHANGED vars
  BY <1>2 DEF vars, TypeOK
<1>. QED
  BY <1>1, <1>2

(* The ante handler keeps balances, grants and prices typed in every state.*)
THEOREM FeePayTypeCorrect == Spec => []TypeOK
BY InitTypeOK, NextTypeOK, PTL DEF Spec

(***************************************************************************)
(* One accepted transaction charges exactly one party, the one            *)
(* checkDeductFee chose (the feepay module only for a zero-fee single     *)
(* execute of a registered contract), by what the fee collector receives, *)
(* and only the grant of that transaction's granter to its payer changes. *)
(***************************************************************************)
LEMMA AnteHandleChargesOne ==
    ASSUME TypeOK, NEW tx \in Txs, NEW isCheckTx \in BOOLEAN,
           AnteHandle(tx, isCheckTx)
    PROVE  LET t == last'.tx
               losers == {h \in Holders \ {FeeCollector} : balance'[h] # balance[h]}
           IN  /\ \A h \in losers :
                      /\ losers = {h}
                      /\ balance[h] - balance'[h] = balance'[FeeCollector] - balance[FeeCollector]
                      /\ h = FeePayModule =>
                            /\ t.fee = 0 /\ t.msgs = <<Exec(t.msgs[1].contract)>>
                            /\ t.msgs[1].contract \in registered
                      /\ h \in Accounts =>
                            h = IF t.granter = NoGranter THEN t.payer ELSE t.granter
               /\ \A g, p \in Accounts :
                      grant'[<<g, p>>] # grant[<<g, p>>] =>
                          /\ t.granter = g /\ t.payer = p /\ losers = {g}
                          /\ balance[g] - balance'[g] = t.fee
<1> DEFINE feePay == IsValidFeePayTransaction(tx, tx.fee)
           from == IF feePay THEN FeePayModule
                   ELSE IF tx.granter = NoGranter THEN tx.payer ELSE tx.granter
           amt == IF feePay THEN CeilFee(feePrice, tx.gas) ELSE tx.fee
           losers == {h \in Holders \ {FeeCollector} : balance'[h] # balance[h]}
<1>1. /\ from \in Holders \ {FeeCollector}
      /\ amt \in Nat
      /\ Send(from, FeeCollector, amt)
      /\ feePay => /\ tx.fee = 0 /\ tx.msgs = <<Exec(tx.msgs[1].contract)>>
                   /\ tx.msgs[1].contract \in registered
      /\ IF tx.granter # NoGranter /\ tx.granter # tx.payer
            THEN UseGrantedFees(tx.granter, tx.payer, tx.fee)
            ELSE grant' = grant
      /\ last' = [tx |-> tx, paidBy |-> from]
  BY AnteHandleFacts
<1>2. /\ \A h \in Holders \ {from, FeeCollector} : balance'[h] = balance[h]
      /\ balance[from] - balance'[from] = amt
      /\ balance'[FeeCollector] - balance[FeeCollector] = amt
  BY <1>1, SendToCollector
<1>3. losers \subseteq {from}
  BY <1>2
<1>4. last'.tx = tx
  BY <1>1
<1>5. \A h \in losers :
         /\ losers = {h}
         /\ balance[h] - balance'[h] = balance'[FeeCollector] - balance[FeeCollector]
         /\ h = FeePayModule => /\ tx.fee = 0 /\ tx.msgs = <<Exec(tx.msgs[1].contract)>>
                                /\ tx.msgs[1].contract \in registered
         /\ h \in Accounts => h = IF tx.granter = NoGranter THEN tx.payer ELSE tx.granter
  <2> SUFFICES ASSUME NEW h \in losers
               PROVE  /\ losers = {h}
                      /\ balance[h] - balance'[h] = balance'[FeeCollector] - balance[FeeCollector]
                      /\ h = FeePayModule =>
                            /\ tx.fee = 0 /\ tx.msgs = <<Exec(tx.msgs[1].contract)>>
                            /\ tx.msgs[1].contract \in registered
                      /\ h \in Accounts =>
                            h = IF tx.granter = NoGranter THEN tx.payer ELSE tx.granter
    OBVIOUS
  <2>1. h = from /\ losers = {h}
    BY <1>3
  <2>2. tx.granter \in Accounts \cup {NoGranter} /\ tx.payer \in Accounts
    BY DEF Txs
  <2>3. feePay <=> from = FeePayModule
    BY <2>2, FeePayAssumption
  <2>4. feePay <=> from \notin Accounts
    BY <2>2, FeePayAssumption
  <2>. QED
    BY <1>1, <1>2, <2>1, <2>3, <2>4
<1>6. ASSUME NEW g \in Accounts, NEW p \in Accounts,
             grant'[<<g, p>>] # grant[<<g, p>>]
      PROVE  /\ tx.granter = g /\ tx.payer = p /\ losers = {g}
             /\ balance[g] - balance'[g] = tx.fee
  <2>1. tx.granter # NoGranter /\ tx.granter # tx.payer
    BY <1>1, <1>6
  <2>2. tx.granter \in Accounts /\ tx.payer \in Accounts /\ tx.fee \in Nat
    BY <2>1 DEF Txs
  <2>3. UseGrantedFees(tx.granter, tx.payer, tx.fee)
    BY <1>1, <2>1
  <2>4. tx.granter = g /\ tx.payer = p /\ tx.fee # 0
    BY <1>6, <2>2, <2>3, UseGrantType
  <2>5. ~feePay
    BY <2>4 DEF IsValidFeePayTransaction
  <2>6. from = g /\ amt = tx.fee
    BY <2>1, <2>4, <2>5
  <2>7. balance[g] \in Nat /\ balance'[g] \in Nat
    BY <1>1, SendToCollector, FeePayAssumption DEF TypeOK, Holders
  <2>8. balance'[g] # balance[g]
    BY <1>2, <2>4, <2>6, <2>7
  <2>9. g \in losers
    BY <2>8, FeePayAssumption DEF Holders
  <2>. QED
    BY <1>2, <1>3, <2>4, <2>6, <2>9
<1>. QED
  BY <1>4, <1>5, <1>6

(* Every step of the ante handler charges each accepted fee to one party. *)
THEOREM FeeChargedOnce == Spec => FeeChargedToOneParty
<1> DEFINE A == LET tx == last'.tx
                    losers == {h \in Holders \ {FeeCollector} : balance'[h] # balance[h]}
                IN  /\ \A h \in losers :
                           /\ losers = {h}
                           /\ balance[h] - balance'[h] = balance'[FeeCollector] - balance[FeeCollector]
                           /\ h = FeePayModule =>
                                 /\ tx.fee = 0 /\ tx.msgs = <<Exec(tx.msgs[1].contract)>>
                                 /\ tx.msgs[1].contract \in registered
                           /\ h \in Accounts =>
                                 h = IF tx.granter = NoGranter THEN tx.payer ELSE tx.granter
                    /\ \A g, p \in Accounts :
                           grant'[<<g, p>>] # grant[<<g, p>>] =>
                               /\ tx.granter = g /\ tx.payer = p /\ losers = {g}
                               /\ balance[g] - balance'[g] = tx.fee
<1>1. TypeOK /\ [Next]_vars => [A]_vars
  <2> SUFFICES ASSUME TypeOK, [Next]_vars PROVE [A]_vars
    OBVIOUS
  <2>1. CASE Next
    <3>1. PICK tx \in Txs, isCheckTx \in BOOLEAN : AnteHandle(tx, isCheckTx)
      BY <2>1 DEF Next
    <3>. QED
      BY <3>1, AnteHandleChargesOne
  <2>2. CASE UNCHANGED vars
    BY <2>2 DEF vars
  <2>. QED
    BY <2>1, <2>2
<1>. QED
  BY <1>1, FeePayTypeCorrect, PTL DEF Spec, FeeChargedToOneParty

=============================================================================
