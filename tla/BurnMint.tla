------------------------------ MODULE BurnMint ------------------------------
(***************************************************************************)
(* The wasm burn plugin (src/x/burn/burner.go) and the mint keeper's       *)
(* supply operations (src/x/mint/keeper/keeper.go), over the bank state    *)
(* they change: per-account balances and per-denom supply.                 *)
(*                                                                         *)
(* Every operation runs inside a transaction or a block hook whose state   *)
(* is discarded when it returns an error or panics, so an operation that   *)
(* fails changes nothing and is a stuttering step.                         *)
(***************************************************************************)
EXTENDS Integers, FiniteSets

CONSTANTS
    Denoms,          \* coin denoms
    Accounts,        \* user and contract accounts
    WasmModule,      \* the "wasm" module account (Burner permission)
    BurnModule,      \* the "junoburn" module account (no permissions)
    MintModule,      \* the "mint" module account (Minter permission)
    FeeCollector,    \* the fee collector module account
    MaxCoin,         \* largest amount of one coin in an operation
    MaxSupply        \* bound on the supply of a denom

Modules == {WasmModule, BurnModule, MintModule, FeeCollector}
Holders == Accounts \cup Modules

(***************************************************************************)
(* The module accounts that burn through the burn plugin: wasm, the one  *)
(* keeper the plugin is given to.  maccPerms also grants Burner to the     *)
(* bonded and not-bonded pools, gov, transfer and tokenfactory; they call  *)
(* the bank keeper's BurnCoins directly, bypass the plugin and leave      *)
(* TargetSupply alone, and are not modelled.                               *)
(***************************************************************************)
BurnerModules == {WasmModule}

ASSUME BurnMintAssumption ==
    /\ Accounts \cap Modules = {}
    /\ Cardinality(Modules) = 4
    /\ MaxCoin \in Nat \ {0} /\ MaxSupply \in Nat

VARIABLES
    balance,         \* bank balances: holder -> denom -> amount
    supply,          \* bank supply per denom
    targetSupply,    \* minter.TargetSupply (math.Int: may become negative)
    mintDenom        \* params.MintDenom

vars == <<balance, supply, targetSupply, mintDenom>>

(* sdk.Coins as amounts per denom; a denom with amount 0 is absent.         *)
Coins == [Denoms -> 0..MaxCoin]
IsEmpty(amt) == \A d \in Denoms : amt[d] = 0
HasCoins(h, amt) == \A d \in Denoms : amt[d] <= balance[h][d]

Debit(h, amt) == [balance EXCEPT ![h] = [d \in Denoms |-> @[d] - amt[d]]]
Credit(h, amt) == [balance EXCEPT ![h] = [d \in Denoms |-> @[d] + amt[d]]]

(* Mutant of Transfer: the sender's balance is not checked.               *)
TransferNoBalanceCheck(from, to, amt) ==
    balance' = [h \in Holders |-> [d \in Denoms |->
                   balance[h][d] - (IF h = from THEN amt[d] ELSE 0)
                                 + (IF h = to THEN amt[d] ELSE 0)]]

(* bank SendCoins: fails, writing nothing, when the sender lacks a coin.   *)
Transfer(from, to, amt) ==
    /\ HasCoins(from, amt)
    /\ balance' = [h \in Holders |-> [d \in Denoms |->
                      balance[h][d] - (IF h = from THEN amt[d] ELSE 0)
                                    + (IF h = to THEN amt[d] ELSE 0)]]

---------------------------------------------------------------------------
(* Mutant of ReduceTargetSupply: Add where Sub is meant.                  *)
ReduceTargetSupplyAdd(d, a) ==
    /\ d = mintDenom
    /\ targetSupply' = targetSupply + a

(***************************************************************************)
(* ReduceTargetSupply(burnCoin): error for a coin that is not the mint     *)
(* denom; otherwise TargetSupply := TargetSupply - amount.                 *)
(***************************************************************************)
ReduceTargetSupply(d, a) ==
    /\ d = mintDenom
    /\ targetSupply' = targetSupply - a

(***************************************************************************)
(* BurnCoins(moduleName, amt): bank BurnCoins first (it panics for a       *)
(* module without Burner permission and fails on insufficient funds, in    *)
(* both cases with nothing written); then, for the coin of the mint denom, *)
(* ReduceTargetSupply.  sdk.Coins holds each denom once, so the loop       *)
(* reduces the target at most once.                                        *)
(***************************************************************************)
BurnCoins(m, amt) ==
    /\ m \in BurnerModules
    /\ ~IsEmpty(amt)
    /\ HasCoins(m, amt)
    /\ balance' = Debit(m, amt)
    /\ supply' = [d \in Denoms |-> supply[d] - amt[d]]
    /\ IF amt[mintDenom] > 0
          THEN ReduceTargetSupply(mintDenom, amt[mintDenom])
          ELSE UNCHANGED targetSupply
    /\ UNCHANGED mintDenom

(* SendCoinsFromAccountToModule(sender, _, amt): whatever module is named, *)
(* the coins go to the "junoburn" module account.                          *)
SendCoinsFromAccountToModule(a, amt) ==
    /\ Transfer(a, BurnModule, amt)
    /\ UNCHANGED <<supply, targetSupply, mintDenom>>

(***************************************************************************)
(* MintCoins(newCoins): an empty amount is skipped; otherwise bank         *)
(* MintCoins credits the mint module account and raises the supply.       *)
(* The caller (the mint BeginBlocker) is not under src/, so any amount up  *)
(* to MaxSupply may be minted.                                             *)
(***************************************************************************)
MintCoins(amt) ==
    /\ ~IsEmpty(amt)
    /\ \A d \in Denoms : supply[d] + amt[d] <= MaxSupply
    /\ balance' = Credit(MintModule, amt)
    /\ supply' = [d \in Denoms |-> supply[d] + amt[d]]
    /\ UNCHANGED <<targetSupply, mintDenom>>

(* AddCollectedFees(fees): send from the mint module to the fee collector. *)
AddCollectedFees(amt) ==
    /\ Transfer(MintModule, FeeCollector, amt)
    /\ UNCHANGED <<supply, targetSupply, mintDenom>>

(***************************************************************************)
(* SetParams(p): p.Validate() (not under src/; it requires a non-empty,   *)
(* valid mint denom), then the params are written.                         *)
(***************************************************************************)
SetParams(md) ==
    /\ mintDenom' = md
    /\ UNCHANGED <<balance, supply, targetSupply>>

---------------------------------------------------------------------------
(* The supply of every denom is the sum of the balances.                   *)
SupplyOf(bal, d) ==
    LET S[H \in SUBSET Holders] ==
            IF H = {} THEN 0
            ELSE LET h == CHOOSE x \in H : TRUE IN bal[h][d] + S[H \ {h}]
    IN  S[Holders]

Init ==
    /\ supply \in [Denoms -> 0..MaxSupply]
    /\ balance \in {b \in [Holders -> [Denoms -> 0..1]] :
                      \A d \in Denoms : SupplyOf(b, d) = supply[d]}
    /\ mintDenom \in Denoms
    /\ targetSupply \in {supply[mintDenom] + k : k \in 0..1}

Next ==
    \/ \E m \in Modules, amt \in Coins : BurnCoins(m, amt)
    \/ \E a \in Accounts, amt \in Coins : SendCoinsFromAccountToModule(a, amt)
    \/ \E amt \in Coins : MintCoins(amt) \/ AddCollectedFees(amt)
    \/ \E md \in Denoms : SetParams(md)

Spec == Init /\ [][Next]_vars

---------------------------------------------------------------------------
TypeOK ==
    /\ balance \in [Holders -> [Denoms -> Nat]]
    /\ supply \in [Denoms -> Int]
    /\ targetSupply \in Int
    /\ mintDenom \in Denoms

(***************************************************************************)
(* Over burns made through the wasm burn plugin, redirected sends, mints,  *)
(* fee collection and mint-denom changes, the minter's target supply moves *)
(* only together with the supply of the mint denom: a step that changes    *)
(* TargetSupply or burns mint-denom coins lowers both by the same amount.  *)
(* A BurnCoins whose bank burn or target reduction fails must leave both  *)
(* untouched (burner.go lines 27-41).                                      *)
(***************************************************************************)
TargetTracksBurns ==
    [][ (targetSupply' # targetSupply \/ supply'[mintDenom] < supply[mintDenom])
          => /\ mintDenom' = mintDenom
             /\ targetSupply - targetSupply' = supply[mintDenom] - supply'[mintDenom]
      ]_vars
=============================================================================
