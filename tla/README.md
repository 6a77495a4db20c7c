# Verification project for the Juno chain modules under `src/`

This directory holds TLA+ models of the state machines in `src/`, TLC
configurations that check them on small instances, and TLAPS proofs of
their main invariants for every value of the constants. `PROJECT.json`
lists the components, runs, mutants, the source lines each definition
models, the findings, the hazards and the theorems.

## 1. Inventory

The repository is a selection of files from the Juno Cosmos-SDK chain. The
natural-language spec (`spec.md`) describes its core: the **x/clock**
recurring job scheduler. The other files are smaller keeper and ante
components and tooling.

| Component | Source | State | Operations | Interacts with |
|---|---|---|---|---|
| Clock scheduler | `x/clock/abci.go` | none of its own. Each block it reads the params and the registry, and writes jail flags | `EndBlocker`: snapshot the unjailed contracts, then for each one parse the address, `Sudo` with a fresh gas meter, and jail the contract on error | the clock keeper (registry and params), and the wasm keeper's `Sudo` through the permissioned contract keeper |
| Clock keeper | not under `src/` (spec.md 4.1, 4.2) | registry: address -> jailed flag. Params: `ContractGasLimit` | `GetAllContracts(ctx, jailedToo)` in key order, `JailContract`, registration, `MsgUpdateParams` | the EndBlocker, governance |
| Clock queries | `x/clock/types/query.pb.go` (generated) | none | `ClockContracts`, `Params` | gRPC |
| Burn plugin | `x/burn/burner.go` | none (bank and minter) | `BurnCoins`: bank burn, then `ReduceTargetSupply` for each coin in the mint denom. `SendCoinsFromAccountToModule` is redirected to the burn module | bank keeper, mint keeper, wasm |
| Mint keeper | `x/mint/keeper/keeper.go` | minter (`TargetSupply`, ...), params | get/set minter and params, `MintCoins` (skips an empty amount), `ReduceTargetSupply`, `AddCollectedFees` | bank, staking, burn plugin |
| FeePay ante | `x/feepay/ante/dedcuct_fee.go` | none (bank balances, feepay registry) | `AnteHandle`: gas check, fee checker, then `checkDeductFee` with a fee-grant branch and either the zero-fee route paid by the feepay module or the standard deduction. `getTxPriority` | bank, feegrant, feepay and globalfee keepers |
| Oracle history | `x/oracle/keeper/history.go`, `x/oracle/util/store_helper.go` | price history entries keyed by (denom, time) | store an entry, entry at-or-before / at-or-after / between, remove at-or-before, generic first-value / values / remove in a key range | ordered KV store and its iterators |
| Drip | `x/drip/keeper/msg_server.go` | params (enable flag, allowed addresses) | `DistributeTokens`: checks, then send to the fee collector | bank |
| cw-hooks keeper | `x/cw-hooks/keeper/keeper.go` | params | `SetParams` (validate, then write) and `GetParams` (zero value when unset) | gov, staking, wasm |
| forceprune | `cmd/junod/cmd/forceprune.go` | block store and state store on disk | prune the block store to `current - full`, compact it, delete three key families from the state store in batches of 1000, compact it | leveldb, the `junod status` process |
| FeeShare handler, migrators, app wiring, CLI root, test harness | the rest | - | dispatch, delegation, configuration | - |

**What makes the system hard.** The chain is replicated and deterministic.
Within a block everything runs on one thread, so there is no in-process
concurrency. The hard behaviours are:

- failure containment inside a single block: a contract's error or gas
  exhaustion, what is rolled back, and whether a panic escapes into
  `EndBlock` and halts the chain;
- state read once and used after it changes: the contract list is read
  before the loop that jails contracts;
- long sequences of blocks: a contract that failed must never be called
  again;
- numeric edges in fee and supply arithmetic;
- crashes between the batch writes of the offline prune tool.

**What makes each component correct.**

- *Clock*:
  - a contract is jailed exactly when its call failed;
  - a jailed contract is never called again;
  - no fault escapes the EndBlocker;
  - the writes of a failed call are discarded;
  - every failing job is quarantined (spec.md 4.3, 4.4, 5 and 8).
- *Burn/mint*: the target supply falls by exactly the burned amount of the
  mint denom, and only when the bank burn succeeded.
- *FeePay*:
  - exactly one party pays the fee: the payer, the granter or the feepay
    module;
  - a transaction that fails any check pays nothing;
  - the fee-pay route is taken only for a single execute message with no
    fee.
- *Oracle history*: each lookup returns the entry that a reference
  definition over the ordered set of keys selects.
- *forceprune*: after a run that completes, every key below the retain
  height is gone and none above it. After a crash, what was deleted is a
  prefix of the batches. Every block left in the block store can still
  load its validator set and consensus params.

## 2. Modules and status

| Module | Models | Runs | Proofs |
|---|---|---|---|
| `Clock`, `MC_Clock` | the clock EndBlocker, one loop iteration per step, and the keeper operations it uses | `clock_safety`, `clock_out_of_gas_halt`, `clock_failed_writes_kept` | `ClockProofs` |
| `ClockPass` | the abstract specification of one EndBlocker pass | through `Clock!PassRefined` | `ClockProofs!Refinement` |
| `ClockQueryCodec`, `MC_ClockQueryCodec` | the protobuf codecs of both clock query replies (ClockContracts, Params) and of the requests' decoders | `clock_query_codec` | none (recursive operators) |
| `BurnMint`, `MC_BurnMint` | the burn plugin and the mint keeper's supply operations | `burn_mint_target` | `BurnMintProofs` |
| `FeePayAnte`, `MC_FeePayAnte` | the deduct-fee ante decorator | `feepay_one_payer` | `FeePayProofs` |
| `TxPriority`, `MC_TxPriority` | `getTxPriority`, one loop iteration per step | `priority_zero_price_overwritten` | none |
| `OracleHistory`, `MC_OracleHistory` | the oracle price-history index and its range helpers | `oracle_lookups` | `OracleProofs` (the at-or-before and between lookups, `GetValueInRange`, and the panic of the at-or-after lookup) |
| `ForcePrune`, `MC_ForcePrune` | the offline `forceprune` command, with kills at any step | `forceprune_refines_retention`, `forceprune_rerun_leaks_state`, `forceprune_loses_loadable_state` | `ForcePruneProofs` |
| `PruneRetention` | the abstract specification of what forceprune promises of the databases | through `ForcePrune!PruneRefined` | `ForcePruneProofs!PruneRetentionRefined` |
| `Drip`, `MC_Drip` | the drip message server and its params | `drip_allowed_only` | `DripProofs` |

Still to do, in order:

- a liveness property for forceprune (a run that is not killed completes)
  and its fairness, once a run slot is free;
- the requests' `Marshal` and `Size`, if a property about them appears;
- the cw-hooks params store, if its `Params.Validate` (not under `src/`)
  can be pinned down from the spec.

## 3. The Clock model (`Clock.tla`)

**State.**

| Variable | In the code |
|---|---|
| `registered`, `jailed` | the clock registry |
| `gasLimit` | `Params.ContractGasLimit` |
| `phase` | `"txs"` while the block body runs, `"endblock"` inside `EndBlocker`, `"halted"` after a panic escaped it |
| `contracts` | the snapshot `GetAllContracts(ctx, false)` (line 22) |
| `idx` | the loop index (line 26) |
| `errorExecs`, `errorExists` | lines 23-24 |
| `written` | the contracts whose writes are in this block's state |
| `sudoFailed` | the contracts whose `Sudo` returned an error in this block |
| `block` | the height, capped at `MaxBlock` |

Contracts are naturals, because the store iterates addresses in key order
and the model needs that order. `BadAddr` is the set of stored addresses
that `AccAddressFromBech32` rejects.

**Actions.**

- `BeginEndBlocker`: lines 15-24.
- `SkipBadAddress`: lines 27-31.
- `SudoSucceeds`: lines 33-35.
- `SudoFails`: lines 33-45. The contract's writes may have happened
  (`partial`), then `JailContract`.
- `SudoOutOfGas`: line 34. The call needs more gas than the child gas
  meter allows, `ConsumeGas` panics, and nothing recovers it.
- `EndEndBlocker`: lines 46-51.
- `RegisterContract` and `UpdateParams`: the administrative transactions
  of the block body. They are modelled from spec.md, because the clock
  keeper and message server are not under `src/`. Params validation keeps
  `ContractGasLimit >= 1`.

**Runs** (`MC_Clock`: contracts {1,2,3}, 3 has a bad address, gas limits
1..2, calls needing up to 3 gas units, 3 blocks):

- `clock_safety` (pass, specification `LiveSpec`) checks four properties.
  - `TypeOK`.
  - `JailedIffSudoFailed`. Within a pass, the snapshot contracts already
    visited are jailed iff their Sudo failed at that index, and none not
    yet visited is jailed. Across blocks this means a contract jailed
    earlier is never in a later snapshot.
  - `PassRefined`, the refinement of `ClockPass` (below).
  - `EveryActiveContractCalled` (liveness): every unjailed contract with
    a parsable address in the snapshot has its Sudo called, successfully
    or not, before the block commits, unless the chain halts. Its mutant
    ends the loop one contract early (`EndEndBlockerEarly`).

  The bounds are enough for the interesting cases to happen: a contract
  fails in one block, and later blocks follow. They also allow
  registrations and gas-limit changes between blocks, and a bad address
  in the registry.
- `clock_out_of_gas_halt` (violation of `EndBlockNeverAborts`): a call
  that needs more gas than the limit panics out of `EndBlocker`.
- `clock_failed_writes_kept` (violation of `FailedSudoRolledBack`):
  `childCtx` is `ctx.WithGasMeter(...)`, which is not a cache branch, so
  a failed call's writes stay in the block.

Both violations are findings in `PROJECT.json`. The loop also skips an
address that does not parse without jailing it (lines 27-31), so such a
contract is reported again every block. This is listed as a hazard. No run
checks it, because only a registry entry that the registration code (not
under `src/`) should never write reaches it.

Deadlock checking is off in these runs. The chain really stops after
`SudoOutOfGas`: every node panics at the same height. The model also stops
at `MaxBlock`.

Fairness: `LiveSpec` is `Spec /\ WF_vars(LoopStep)`, where `LoopStep` is
the disjunction of the loop's steps and `EndEndBlocker`. The code
justifies this. `EndBlocker` is one Go call that BaseApp makes once the
block's transactions are delivered, and its loop never blocks, so a pass
that has started keeps stepping until it returns or panics. Nothing is
assumed about transactions or about new blocks: `BeginEndBlocker` has no
fairness, and the model may stop between blocks.

**Abstract specification and refinement.** `ClockPass` is what a pass
promises, as one step:

- between blocks, contracts are registered and the gas limit changes;
- a committed pass (`Pass`) jails some unjailed contracts whose address
  parses, and jails nothing else;
- or the node halts (`Halt`) when an unjailed contract needs more gas than
  the limit.

`Clock` instantiates it with `jailed <- CommittedJailed` and
`halted <- (phase = "halted")`. `CommittedJailed` leaves out the jail flags
written during the current pass: they are committed only at
`EndEndBlocker`, and lost if the block panics. So every loop step is a
stutter of the abstract registry, `EndEndBlocker` is `Pass` with the
block's failures, and `SudoOutOfGas` is `Halt`.

**Proofs** (`ClockProofs.tla`, checked by tlapm):

- `TypeCorrect`: `Spec => []TypeOK`.
- `JailingFollowsLoop`: `Spec => []JailedIffSudoFailed`.
- `Refinement`: `Spec => PassRefined`. `InitRefines` maps the initial
  states. `StepRefines` shows `IInv /\ IInv' /\ [Next]_vars` implies a
  `PassNext` step or a stutter, one step per action.

`JailedIffSudoFailed` is not inductive on its own. The inductive
invariant `IInv` (defined in `Clock.tla` and checked by TLC as an
invariant before it was proved) adds four facts:

- the snapshot holds registered addresses, none twice. It is strictly
  ascending, which the lemma `SnapshotType` derives from
  `GetAllContracts`. Without this, jailing `contracts[idx]` could jail a
  later index;
- the error slots not yet visited are still `Blank`;
- no Sudo failure is pending between blocks;
- `PassFailuresJailed`: during a pass, the contracts whose Sudo failed are
  jailed, have a parsable address, and the block bound is not reached.
  The refinement needs this: it makes the failures of the pass a valid
  `failed` set for `Pass`.

The proofs show `Init => IInv` and `IInv /\ [Next]_vars => IInv'`, then
conclude with PTL. They assume only:

- `Contracts` is a finite set of naturals;
- `Blank` is not a contract;
- the bounds are naturals, with `MaxGasLimit` and `MaxGasNeed` positive.

## 4. The query codec (`ClockQueryCodec.tla`)

This models the generated code of `x/clock/types/query.pb.go` for three
messages:

- `QueryClockContractsResponse`, which has one repeated string field;
- `QueryParamsResponse`, which has one optional `Params` message field;
- the field-less request `QueryClockContracts`. `QueryParamsRequest.Unmarshal`
  is the same code.

`Params` is generated into `clock.pb.go`, which is not under `src/`. Its
codec is the same generated pattern over one field, `ContractGasLimit`
(uint64, omitted when 0), and is modelled from the spec (`ParamsSize`,
`ParamsBytes`, `ParamsLoop`, marked `spec_modelled`).

- `Marshal` sizes the buffer with `Size`, and `Fill` then writes it from
  the end as `MarshalToSizedBuffer` does. Each write is checked against
  the buffer bounds, and a Go out-of-range index is a panic.
- `UnmarshalLoop` and `UnmarshalEmptyLoop` read tags. `StringField` reads
  a length-delimited string. `SkipLoop` is `skipQuery`.
- `ParamsResponseMarshal` writes the nested Params at the end of
  `dAtA[:i]`, then its length and the tag. `ParamsResponseLoop` reads a
  field-1 message with the same length checks as a string, allocates
  `Params` if it is nil, and merges `Params.Unmarshal` of the sub-slice
  into it.

The checks are kept in the code's order: shift overflow, EOF, the
end-group and illegal tags, `int()` sign, the `postIndex` wrap, and the
bounds.

Integer widths are kept but scaled. `uint64` and `int` are `IntWidth = 15`
bits wide, and `int32` is 8 bits wide. A varint then overflows after three
bytes, as a 64-bit one does after ten. A three-byte length turns negative
under `int()`, and `iNdEx + length` wraps. All of these happen in inputs of
four bytes.

One round is either of:

- the server marshals a response of up to two addresses (one of them 130
  bytes long, so its length needs a two-byte varint), and the client
  unmarshals the bytes;
- the server marshals a params response, which is nil, an empty `Params`
  (gas limit 0), or gas limits 1 and 300 (a two-byte varint), and the
  client unmarshals it;
- the client is handed any byte string of up to four bytes over an
  alphabet of tags, lengths 0 to 2, continuation bytes, 0x00 and 0xFF.
  It decodes the string as each of the two responses. Lengths up to 2
  let `<<10, 2, 8, 1>>` reach a nested `Params` that decodes.

In both cases a server that knows none of the fields also decodes the
bytes as a request.

Run `clock_query_codec` (pass, about 129,000 states) checks:

- `RoundTrip`: Marshal never panics, writes exactly `Size()` bytes, and
  Unmarshal gives back the addresses;
- `UnmarshalNeverPanics`: for arbitrary bytes, all three decoders;
- `ParamsRoundTrip`: a params response marshals to `Size()` bytes without
  a panic and unmarshals to the same `Params`, nil or set. Its mutant
  leaves the length varint out of `QueryParamsResponse.Size`;
- `UnknownFieldsSkipped`: `skipQuery` measures every field of a
  well-formed encoding exactly, for both responses. A params response
  has a nested message in a length-delimited field.

`TypeOK` is defined but not checked by this run. The wire is a sequence
of bytes, and Go truncates every `byte(...)` conversion to 0..255, so no
bug the Go code could have would put a value outside the type.

The probes used while building the model reached every error of the
decoder except `ErrUnexpectedEndOfGroup`. That error cannot be reached
from `Unmarshal`: a wire type 4 at depth 0 is rejected before `skipQuery`
is called. Deadlock checking is off, because a round ends after its
decodes.

## 5. Burn plugin and mint keeper (`BurnMint.tla`)

State: per-holder, per-denom balances, the supply per denom, the minter's
`TargetSupply`, and the mint denom. The operations are:

- `BurnCoins`: the bank burn, then `ReduceTargetSupply` for the mint-denom
  coin;
- the redirected `SendCoinsFromAccountToModule` (to `junoburn`);
- `MintCoins`, `AddCollectedFees` and `SetParams`.

A failing call writes nothing and is a stutter. The initial balances add
up to the supply.

Only burns made through the plugin are modelled, and the plugin is given
only to the wasm keeper. `maccPerms` also grants Burner to the bonded and
not-bonded staking pools, gov, transfer and tokenfactory. Those modules
call the bank keeper's `BurnCoins` directly. Such a burn lowers the supply
and leaves `TargetSupply` alone, so `TargetTracksBurns` is a statement
about the plugin's burns only, not about every burn of `ujuno`.

Run `burn_mint_target` (pass, about 17,000 states) checks:

- `TypeOK`;
- `TargetTracksBurns`, an action property: a step that changes the
  target supply or lowers the mint-denom supply lowers both by the same
  amount and keeps the mint denom.

`BurnMintProofs` proves both for all constants:

- `BurnMintTypeCorrect`: `Spec => []TypeOK`;
- `TargetFollowsSupply`: `Spec => TargetTracksBurns`, from the type
  invariant, with one case per action.

## 6. FeePay ante decorator (`FeePayAnte.tla`, `TxPriority.tla`)

One step of `FeePayAnte` is one accepted `AnteHandle` call (simulate off).
It runs, in order:

1. the gas check;
2. the fee checker, with the validator's minimum gas price in CheckTx;
3. the fee-grant branch, which spends a BasicAllowance and deletes it at 0;
4. either the fee-pay route or the standard deduction. The fee-pay route
   is taken for a zero-fee transaction with a single execute of a
   registered contract; the feepay module then pays the global-fee price
   times gas, rounded up.

A rejected transaction is a stutter, because runTx discards the ante
handler's writes.

Run `feepay_one_payer` (pass, about 160,000 states) checks:

- `TypeOK`;
- `FeeChargedToOneParty`. At most one party loses bond tokens, and what
  it loses the fee collector gains. The feepay module pays only on the
  fee-pay route. An account pays only as the granter, or as the payer
  when there is no granter. A grant changes only when its granter pays.

`FeePayProofs` proves both properties for all constants:

- `FeePayTypeCorrect`: `Spec => []TypeOK`;
- `FeeChargedOnce`: `Spec => FeeChargedToOneParty`.

`TypeOK` is inductive here, so no strengthening is needed. The argument
rests on three lemmas:

- `AnteHandleFacts` names the account that pays (`from`) and the amount
  (`amt`) of an accepted transaction, and shows a single `Send` of `amt`
  from `from` to the fee collector;
- `SendToCollector` shows that such a `Send` changes no other balance;
- `UseGrantType` shows that the grant branch changes only the
  `<<granter, payer>>` grant, and none when the fee is 0.

`AnteHandleChargesOne` then shows the action formula for one step. The
set of losers is contained in `{from}`, and a changed grant forces a
non-zero fee on the standard route, paid by the granter. The assumptions
are those of `FeePayAssumption`:

- the module accounts are distinct and not user accounts;
- `PriceDen > 0`;
- the prices and bounds are naturals.

`TxPriority` models `getTxPriority` one coin per step, with `MaxInt64`
scaled to 2. Run `priority_zero_price_overwritten` (violation of
`PriorityIsLowestGasPrice`) shows that a coin whose gas price truncates to
0 is overwritten by a later coin's higher price. The reason is that 0 also
means "unset". Its comment says the priority is the smallest gas price.

## 7. Oracle price history (`OracleHistory.tla`)

The store is the set of history keys `<<denom, time>>`, ordered by denom
and then by time. `InRange` is an iterator's `[start, end)`, and a nil end
is unbounded.

- Actions: `SetPriceHistoryEntry` and `RemoveHistoryEntryAtOrBeforeTime`.
  The latter calls `RemoveValueInRange`, which deletes exactly the keys the
  iterator visits.
- Operators: the lookups (`GetFirstValueInRange`, `GetValueInRange`, and
  the keeper's at-or-before, at-or-after and between). They are evaluated
  in every reachable store.
- The order in which an iterator yields keys is `IterBefore`: ascending,
  or descending for a reverse iterator. `IterPos(R, k, rev)` is the
  position at which the iterator over `R` yields `k`, one more than the
  number of keys it yields first. `IteratorSeq` is the list of the keys by
  position, which is what the loop over the iterator appends.
- The store runs over two denoms and four times.

Run `oracle_lookups` (pass) checks the lookups against reference
definitions written from their doc comments:

- `AtOrBeforeMatchesReference`;
- `BetweenMatchesReference`;
- `GetValueInRangeMatchesReference`: every entry in `[s, e]` exactly once,
  and in ascending order when iterating forward.

`getHistoryEntryAtOrAfterTime` passes a nil end key, so
`GetFirstValueInRange` calls `Get(nil)`, which the SDK's stores reject
with a panic. The function has no caller in the repository. No run checks
`AtOrAfterMatchesReference`; the theorem `AtOrAfterAlwaysPanics` below
states the failure for every store instead.

`OracleProofs` proves, for all sets of denoms and times (naturals):

- `OracleTypeCorrect`: `Spec => []TypeOK`;
- `AtOrBeforeCorrect`: `Spec => []AtOrBeforeMatchesReference`;
- `BetweenCorrect`: `Spec => []BetweenMatchesReference`;
- `RemoveAtOrBeforeKeepsBoundary`: for every store,
  `RemoveHistoryEntryAtOrBeforeTime(d, t)` deletes exactly the entries of
  `d` strictly before `t`;
- `GetValueInRangeCorrect`: `Spec => []GetValueInRangeMatchesReference`;
- `ReverseListingAppendsEndLast`: for every finite store, a reverse
  listing descends except that a stored end key is appended last, after
  keys smaller than it;
- `AtOrAfterAlwaysPanics`: in every reachable store, for every denom and
  time, the at-or-after lookup panics, and its reference result never
  does. The reference result is either `NotFound` or the lowest matching
  key. That key exists because `IterPosOnto` gives a key at position 1 of
  the forward iterator.

The lookups are functions of the store. Each invariant therefore follows
from `TypeOK` and a lemma that holds for every store of `<<denom, time>>`
keys: `AtOrBeforeEqualsRef` and `BetweenEqualsRef`. Each lemma splits on
whether the end key is stored.

- If it is, `Get(keyEnd)` returns it. `HighestIs` shows that the end key
  is the greatest element of the reference set, because the key order is
  total on pairs of integers (`KeyLessTotal`).
- If it is not, `PrefixRange` and `BetweenRange` show that the iterator
  visits exactly the reference set, so both sides pick the same element.

`GetValueInRangeCorrect` rests on lemmas about iterator positions, for a
finite set `R` of keys:

- `IterBeforeOrder`: the iteration order is a strict total order;
- `IterPosMonotone`: a key yielded earlier gets a smaller position. The
  keys before it are a strict subset of those before the later key;
- `IterPosRange` and `IterPosInjective`: positions are distinct and lie in
  `1..|R|`. The positions are therefore an injection of `R` into `1..|R|`,
  a set of the same size. `FS_Injection` makes it a surjection
  (`IterPosOnto`), so every position holds exactly one key;
- `IteratorSeqFacts`: the iterator's list has length `|R|`, holds exactly
  the keys of `R`, and is in iteration order.

`BetweenRangeStrict` identifies the iterator's keys as the entries of the
denom in `[s, e)`. `GetValueInRangeEqualsRef` then splits on whether the
end key is stored. If it is, the appended key is the one entry of `[s, e]`
missing from `[s, e)`, and it sorts after all of them. Otherwise the list
is the iterator's own. The finiteness of the store, needed for cardinality,
comes from `Keys` being a product of finite sets (`KeysFinite`).
`IteratorThenEndShape` states the list's order for both directions, and
gives `ReverseListingAppendsEndLast`.

Two behaviours are listed as hazards:

- `RemoveHistoryEntryAtOrBeforeTime` keeps the entry at exactly `t`,
  because the iterator excludes its end;
- `GetValueInRange` with `reverseIterate` appends the end key last,
  although in reverse order it comes first. `ReverseListingAppendsEndLast`
  proves this for every store. No comment fixes which order is meant, so
  no run asserts either reading.

## 8. forceprune (`ForcePrune.tla`)

The block store is its base height, and the state store is the set of
per-height keys of the three families. One step is one loop iteration of
the command:

- the block-store prune, and its compaction;
- the state-store deletes, added to a batch that is written every
  `BatchMaxSize` deletes, and the flush after each family;
- the final compaction.

`Crash` kills the process at any step, including after `PruneBlocks` has
moved the base. Later runs start again from the disk state. The bounds are
5 heights, 2 full and 1 minimum retained heights, batches of 2, and 3 runs.
That is enough for a kill between batches and for a run after a kill.

Where a height's validator set and consensus params live comes from
Tendermint's state store. That code is a dependency, so
`LastHeightChanged`, `StoredHeight` and `KeysNeeded` are `spec_modelled`:

- the key of height `h` of both families holds the set or the params only
  at a change height, and for validators also at every
  `valSetCheckpointInterval` checkpoint;
- any other key holds only `LastHeightChanged`;
- `LoadValidators(h)` and `LoadConsensusParams(h)` read key `h`, then the
  key `StoredHeight(s, h)`.

The constants `ValSetChanges` and `ParamsChanges` are the change heights;
both contain the initial height 1.

- `forceprune_refines_retention` (pass) checks `TypeOK` and `PruneRefined`
  (see below).
- `forceprune_rerun_leaks_state` (violation of `PrunedAfterCompletedRun`)
  shows a completed run leaving state keys below the base. This happens
  when an earlier run was killed after it moved the base, because the next
  run starts its loop at the new base.
- `forceprune_loses_loadable_state` (violation of `RetainedStateLoadable`)
  checks the help text's promise that the state data of the last
  `fullHeight` blocks is kept. The promise fails on the first batch write.
  The loop deletes by height alone, so it removes key 1, the last
  validator-set change. Height 3, the new base, loads its validators
  through that key. On a real chain this happens whenever the last change
  lies below `Height - fullHeight`. Consensus params have no checkpoints,
  so for them it happens to every retained height. Tendermint's own
  `PruneStates` keeps those keys for this reason.

Deadlock checking is off: the command ends.

`PruneRetention` states what the command promises of each height's own
keys, as two atomic steps:

- `RaiseBase`: the base rises, to at most `Height - fullHeight`;
- `DeleteState(s, H)`: keys of family `s` are deleted, all below the
  family's retain height. Validators and consensus-params keys must also
  lie below the base.

It says nothing about the earlier key a retained height points to. That
key is what `RetainedStateLoadable` adds, and the command breaks it.

`ForcePruneProofs` proves, for all constants (any height, any flags, any
batch size, and any number of runs killed at any step):

- `ForcePruneTypeCorrect`: `Spec => []TypeOK`;
- `PruneRetentionRefined`: `Spec => PruneRefined`.

Both rest on the inductive invariant `IInv`, which adds three facts to
`TypeOK`:

- `RunInv`: once `PruneBlocks` has succeeded (phases `compact` and
  `state`), the base is `Height - fullHeight` and the run has read
  `currentHeight = Height`. In the state loop, `curBatchSize` is
  `c - startHeight`, which keeps the counters within the heights;
- `BatchInv`: a pending batch exists only in the state loop, and holds
  heights below the retain height of the family being pruned;
- `DeletedInv`: every deleted key lies below its family's retain height
  (`Kept`). A validators or consensus-params key is deleted only after
  the base reached `Height - fullHeight`. A later crash inside
  `PruneBlocks` can only raise the base, so it cannot undo this.

`NextIInv` has one step per action. `DeleteStep` and `FlushFamily` are
split per conjunct, and the flush is split on whether the family is a
state family. The refinement proof has two parts:

- `InitRefines`: the initial databases are the abstract ones;
- `NextRefines`: under `IInv`, each step is an abstract step or a stutter.
  - `PruneBlockStoreAndGetHeights`, and a `Crash` inside it, are a
    `RaiseBase` (`PruneIsRaiseBase`).
  - A batch write in `DeleteStep` or `FlushFamily` is a `DeleteState`
    (`WriteIsDeleteState`). It relies on `BatchInv`, and on `RunInv`'s
    fact that the base equals the retain height of the state families in
    the state loop.
  - Every other step leaves both databases unchanged.

The assumption is `ForcePruneAssumption`:

- `Height > 0`;
- the other constants are naturals, with `BatchMaxSize > 0`;
- the change sets are subsets of the heights that contain 1.

Liveness is not checked, because a killed run never completes and the
runs are bounded by `MaxRuns`.

## 9. Drip (`Drip.tla`)

`DistributeTokens` runs its checks in order:

1. `ErrDripDisabled`;
2. the allow-list loop;
3. the Bech32 parse;
4. the send to the fee collector, which fails when the sender's balance is
   too low.

Governance's `MsgUpdateParams` may set any params. The drip keeper's
params code is not under `src/`, so this is `spec_modelled`.

Run `drip_allowed_only` (pass) checks:

- `TypeOK`;
- `OnlyAllowedDrips`: tokens leave an account only through a drip enabled
  and allowed by the params of that moment, and they all reach the fee
  collector.

`DripProofs` proves both for all constants:

- `DripTypeCorrect`;
- `DripsOnlyAllowed`.

## 10. What is only model-checked, and what is not modelled

- **Only model-checked.** Liveness (`EveryActiveContractCalled`), and
  anything mentioning ENABLED, are out of TLAPS's reach and stay with TLC. So is what a recursive
  definition computes for every input. The codec and the priority loop
  are checked only by TLC, over the bounded inputs described above. The
  codec's properties are about byte strings of any length and need
  induction over them.
- **Proof modules.** No module with a theorem reaches a RECURSIVE
  operator. `ClockProofs`, `BurnMintProofs`, `DripProofs`, `FeePayProofs`,
  `ForcePruneProofs` and `OracleProofs` extend modules that use only
  recursive functions or none. `ClockQueryCodec` declares RECURSIVE
  operators for its byte loops, so no theorem is stated about it.
- **Abstractions.**
  - What `Sudo` does inside the VM is abstracted to its three outcomes:
    success, error, and out-of-gas panic. The contract's writes are the
    `written` set.
  - Bank, feegrant and globalfee keepers are modelled by what the calls
    used here do to balances and allowances.
  - Burns by modules other than wasm (the staking pools, gov, transfer,
    tokenfactory) go through the bank keeper, not the burn plugin, and are
    not modelled.
- **Modelled from spec.md.** The clock keeper's registry and params code,
  the drip keeper's params code and the `Params` codec of `clock.pb.go`
  are not under `src/`. They are
  marked `spec_modelled` in the map.
- **Modelled from Tendermint.** Where the state store keeps a height's
  validator set and consensus params (`LastHeightChanged`, `StoredHeight`,
  `KeysNeeded` in `ForcePrune`) is Tendermint code, a dependency of this
  repository. It is also marked `spec_modelled`.
- **Not modelled:**
  - the requests' `Marshal` and `Size` (an empty message: no bytes), the
    descriptors, and the gRPC glue;
  - the cw-hooks keeper (a params store and getters);
  - app wiring and the CLI root (configuration only);
  - the FeeShare handler (pure dispatch);
  - the migrators (they delegate to code not under `src/`);
  - the test harnesses.
