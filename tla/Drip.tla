-------------------------------- MODULE Drip --------------------------------
(***************************************************************************)
(* The x/drip message server (src/x/drip/keeper/msg_server.go): an allowed *)
(* sender moves tokens to the fee collector, which the distribution module *)
(* pays out to stakers at the next block.  The drip params (EnableDrip,    *)
(* AllowedAddresses) are changed by governance through MsgUpdateParams,    *)
(* whose keeper code is not under src/ and is modelled from the module's   *)
(* params: any enable flag and any list of addresses.                      *)
(*                                                                         *)
(* Amounts are of one denom: bank SendCoins fails as a whole when one coin *)
(* is short, so further denoms add nothing to the control.  A message that *)
(* returns an error leaves no writes, so it is a stuttering step.          *)
(***************************************************************************)
EXTENDS Integers

CONSTANTS
    Accounts,      \* user accounts that may send MsgDistributeTokens
    BadAddrs,      \* stored strings that AccAddressFromBech32 rejects
    FeeCollector,  \* the fee collector module account
    MaxCoin,       \* largest amount of one message
    MaxBalance     \* largest initial balance of an account

ASSUME DripAssumption ==
    /\ BadAddrs \subseteq Accounts
    /\ FeeCollector \notin Accounts
    /\ MaxCoin \in Nat \ {0}
    /\ MaxBalance \in Nat

Holders == Accounts \cup {FeeCollector}
Params == [EnableDrip : BOOLEAN, AllowedAddresses : SUBSET Accounts]

VARIABLES
    balance,       \* bank balances of the drip denom
    params         \* the drip module params

vars == <<balance, params>>

Init ==
    /\ balance \in [Holders -> 0..MaxBalance]
    /\ params \in Params

(* Mutant of Authorized: authorized starts out true.                      *)
AuthorizedAnySender(p, sender) == TRUE

(* The loop over params.AllowedAddresses: is the sender one of them?       *)
Authorized(p, sender) == \E addr \in p.AllowedAddresses : sender = addr

(* Mutant of SendCoinsFromAccountToFeeCollector: no balance check.        *)
SendNoBalanceCheck(sender, amt) ==
    balance' = [balance EXCEPT ![sender] = @ - amt,
                               ![FeeCollector] = @ + amt]

(* bank SendCoinsFromAccountToModule(sender, fee_collector, amt): fails,   *)
(* writing nothing, when the sender holds less than amt.                   *)
SendCoinsFromAccountToFeeCollector(sender, amt) ==
    /\ amt <= balance[sender]
    /\ balance' = [balance EXCEPT ![sender] = @ - amt,
                                  ![FeeCollector] = @ + amt]

(***************************************************************************)
(* DistributeTokens: ErrDripDisabled unless EnableDrip, ErrDripNotAllowed  *)
(* unless the sender is allowed, the Bech32 parse error, then the send.    *)
(***************************************************************************)
DistributeTokens(sender, amt) ==
    /\ params.EnableDrip
    /\ Authorized(params, sender)
    /\ sender \notin BadAddrs
    /\ SendCoinsFromAccountToFeeCollector(sender, amt)
    /\ UNCHANGED params

(* MsgUpdateParams from governance: any params.                            *)
UpdateParams(p) ==
    /\ params' = p
    /\ UNCHANGED balance

Next ==
    \/ \E s \in Accounts, a \in 1..MaxCoin : DistributeTokens(s, a)
    \/ \E p \in Params : UpdateParams(p)

Spec == Init /\ [][Next]_vars

-----------------------------------------------------------------------------
(* The type invariant: balances are never negative. *)
TypeOK ==
    /\ balance \in [Holders -> Nat]
    /\ params \in Params

(***************************************************************************)
(* Tokens leave an account only through a drip the params allowed when it  *)
(* ran: drip enabled, the sender in AllowedAddresses, and every token it   *)
(* loses arriving at the fee collector, with no other balance changed.     *)
(***************************************************************************)
OnlyAllowedDrips ==
    [][\A s \in Accounts :
         balance'[s] < balance[s] =>
            /\ params.EnableDrip
            /\ s \in params.AllowedAddresses
            /\ balance'[FeeCollector] - balance[FeeCollector]
                  = balance[s] - balance'[s]
            /\ \A h \in Accounts \ {s} : balance'[h] = balance[h]]_vars
=============================================================================
