# Massbit chain: a TLA+ verification of the pallets, the runtimes and the node

The repository is a Substrate chain whose own logic is in four pallets, in the two runtimes that put them
together and in the node that runs them. Providers of decentralised APIs bond tokens, delegators stake on
providers, block rewards and the payments of API consumers are shared among them era by era, and a set of
validators produces the blocks. This directory models that logic in TLA+, model-checks it with TLC on small
instances and proves most of its safety properties with TLAPS for instances of every size.

`PROJECT.json` is the index: components, runs, mutants, the source lines of every definition, findings,
hazards and theorems. Paths below are relative to the repository (`src/`).

## 1. Inventory

| Component | State | Operations | Modelled by |
|---|---|---|---|
| dapi-staking pallet (`pallets/dapi-staking`) | `Era`, `EraState`, `RewardAccumulator`, `ProviderInfo`, `ProviderEraInfo`, `DelegationInfo`, `UnbondingInfo` | the era hook, ten dispatchables, register/unregister for the dAPI pallet, `handle_imbalance` | `DapiStaking` |
| `Delegation` in `types.rs` | the `(era, amount)` entries of one delegator on one provider | `stake`, `unstake`, `claim`, `latest_staked_value` | `Delegation` |
| `UnbondingMetadata` in `types.rs` | unlocking chunks of one account | `add`, `partition`, `sum` | `Unbonding` |
| validator-set pallet (`pallets/validator-set`) | `Invulnerables`, `Candidates`, `LastAuthoredBlock`, `DesiredCandidates`, `CandidacyBond`, `SlashDestination` | five dispatchables, `note_author`, `new_session` | `ValidatorSet` |
| sessions (`pallet_session`, configured in the runtimes) | session keys, current and queued validators | `set_keys`, `purge_keys`, rotation every `SessionPeriod` blocks | `ValidatorSet` (external) |
| balances and ratios (`pallet_balances`, `Perbill`) | free and reserved balance per account | `reserve`, `unreserve`, `slash_reserved`, `withdraw`, `transfer`, `resolve_creating`; `from_rational`, `*` | `Currency`, `Perbill` (external) |
| dapi pallet (`pallets/dapi`) | projects with quota and usage, providers with a status, regulators, chain ids | eleven dispatchables and a signed extension | `Dapi` |
| block-reward pallet (`pallets/block-reward`) | the distribution percentages | issue, split and pay per block; `set_config` | `BlockReward` |
| runtimes (`runtime/keiko`, `runtime/local`) | the genesis of either chain | hook order, reward and payment routing | `Runtime` |
| transactions (`SignedExtra`, fees and `create_transaction` of the runtimes, the signed extension of the dapi pallet) | nonces, the pool, a block under construction, the pot of the validators | sign, submit, revalidate, apply, begin and end a block | `Transactions` |
| node (`node/`) | chain specification, native runtime, running tasks | load a specification, choose a runtime, start the service step by step, find and lose peers, sync, author, fail, end | `Node` |

**How they interact.** A block runs the `on_initialize` hooks first: authorship (`note_author` pays the
validators' pot to the block's author), session (`new_session` kicks stale candidates and assembles a
set), staking (an era may end). Then come the inherents (setting the timestamp issues the block
reward and splits it between the validators' pot and `handle_imbalance` of staking) and the calls of
accounts. `deposit_provider`, `unregister_provider` and `report_provider_offence` of the dAPI pallet call
`DapiStakingRegistration`; the payments of projects arrive at staking through `OnProjectPayment`, fees at
the validators' pot through `DealWithFees`. Bonds, stakes, unlocking amounts and candidacy deposits all
share the one reserved balance an account has.

Calls come in transactions. A transaction is signed for a limited number of blocks or for ever, validated by every
node whose pool it enters and checked again, and charged, when a block takes it; between the two anything
may happen. The fee goes to the validators' pot, too late for the author of its own block. The node brings
all this to life: it reads a chain specification, picks one of two native runtimes by the id it finds there
and spawns the tasks of the service one after the other, each of which may fail on its own.

**What is hard.** Nothing runs in parallel inside a block, but the order of the calls is anybody's choice,
and each call sees the state all others left. The difficult parts are:

* three redundant records of the same stakes (the delegators' vectors, the provider's record of each era,
  the era's total), each updated by different calls and copied at the end of an era;
* claims for eras that ended long ago, paid from records that must not change any more;
* vectors that compress runs of eras into one entry, shortened by `unstake` and by `claim`;
* one reserved balance for several purposes, with `unreserve` silently giving back less than asked;
* rounding of shares, wrapping addition, limits compared one too early;
* an era length, a bond and a set of invulnerables that change under what depends on them;
* validators elected two sessions ahead, with a kick threshold as long as a session;
* slashing in a loop that reads a count it is itself reducing;
* free calls whose signer may lose the role between the pool and the block, nonces that disappear with the
  account they belong to, and periods that must not outlast the hashes they are checked with;
* an existential deposit that swallows small payments to accounts that do not exist;
* a start of a dozen steps with errors in most of them, while what is already spawned runs and fails.

**What makes each part correct.** Staking: every reserved token is accounted for; the records agree; a finished
era is final; what was earned is paid once, and what is there to pay it with is short by rounding and dust only;
a stake can always be recovered. Validator set: a deposit is held exactly while one is a candidate; the minimum
number is kept; a candidate is slashed only after a session as a validator, but for the exceptions section 3
lists; candidates are elected, leavers retire, idle ones go. dAPI: its statuses agree with the staking pallet's,
a provider has one life. Block rewards: parts add up to the whole and no token but dust is lost on its way.
Transactions: applied once, paid for, gone in the end if they are mortal; fees reach an author. Node: a complete
service or none, the right runtime, an authority that authors.

The `hazards` of `PROJECT.json` list these at the lines where they bite, with the properties that would
catch them.

## 2. Modules

```
Perbill   Currency   Delegation   Unbonding        operators (two of them external libraries)
     \        |          |          /
      +-------+--DapiStaking-------+               the staking pallet
                /     |       \
  MCStakingHistory   |   StakingRefinement ---> StakeLedger
                     |          \
                     |        MCDapiStaking
          DapiStakingProofs <-- StakingLedgerProofs <-- StakingTotalProofs (also StakingRefinement)
Dapi (DapiStaking)   BlockReward (Perbill)         the dAPI and the block reward pallet
     \--- Runtime ---/  ---> ProviderLife           a block: author, hooks, inherent, calls
              \--- MCRuntime, RuntimeProofs
ValidatorSet (Perbill, Currency)                   the validator set and its sessions
              \--- ValidatorSetProofs
Transactions (Perbill, Currency)                   signing, pool, fees, blocks
              \--- MCTransactions, TransactionsProofs
Node -- MCNode, NodeProofs                         from the command line to the running service
LedgerLemmas (Currency, Perbill)                   sums over finite sets and what currency calls do
                                                   to them; used by all proofs about tokens
```

**DapiStaking.** One variable per storage item, plus `block` and `balances`. One action per dispatchable
and per function that another pallet calls; `StartEra` and `ContinueEra` are the two outcomes of
`on_initialize`. Every dispatchable of the pallet checks before it writes, so an action is a successful
call: its guards are the `ensure!`s and `?`s in the code, and a failing call is a stutter. A storage map without
an entry holds `None`; the code's `unwrap_or_default` is `...OrDefault`. Events and weights are left out.
The amounts are natural numbers up to `MaxBalance`; `saturating_add`, `saturating_sub` and the plain
`+`, which wraps in a release build (no `overflow-checks` in `Cargo.toml`), are three different operators.

**Delegation** and **Unbonding** hold the vectors as sequences of records. `Claim` includes both prunings
of the code (the merging of consecutive eras and the removal of one leading entry without stake), and
`AddChunk` the binary search with its merge.

**StakeLedger** is the abstract specification: amounts locked, staked, earned and unlocking, without
vectors, chunks or snapshots. `StakingRefinement` maps the pallet's storage to it, one named operator per
variable of the ledger. `Issuance` bounds what one call can move and counts the rewards of all eras: a claimed
reward can be staked, so a stake may exceed what was there at genesis.

**Dapi, BlockReward, Runtime.** `Dapi` extends `DapiStaking`: the calls that activate and deactivate a provider
are one action each that conjoins the dAPI pallet's own write with `RegisterProvider` or
`UnregisterProvider`, as one call does both or fails before it writes. Payments of consumers become rewards
of the running era. `BlockReward` has the distribution and its configuration. `Runtime` runs a block in
stages: the author is paid from the validators' pot, the staking hook may end an era, the timestamp issues
and splits the block reward, then any number of calls. The registration functions of the staking pallet
can be reached through the dAPI pallet only, which is what the runtime does and `DapiStaking` alone does not
assume. Elections are not part of the composition: the author is any account.

**ProviderLife** is the abstract specification of the composition: a provider is admitted, serves, leaves
with one reason in one era and is redeemed, whichever pallet keeps which part of this. `Life` in `Runtime` is
the refinement mapping: the status comes from the dAPI pallet, the era and the withdrawal from staking.

**Transactions.** A block is `InitializeBlock` (with the author's payment), any number of `ApplyExtrinsic`
and `FinalizeBlock`. `ValidateTransaction` is what the pool asks, `PreDispatch` what a block asks: the same
extensions with exactly the next nonce. `ApplyExtrinsic` may take what is not in the pool, as in a block of
another node. The era of a transaction is what its signer chose: a wallet signs it
for ever or for a period of its own from the latest block on, `create_transaction` for a computed one from the block
before. `CheckEra` accepts an immortal one always, a mortal one within its period while the hash of its birth
block is kept. Only ages of transactions matter, never block numbers, and an age stops where it no longer counts,
so the state space is finite without a bound on time. Three kinds of calls are kept: transfers,
which can remove an account and with it its nonce, the free calls of regulators, and root's changes of the
regulators. `applied` is a history variable: what was applied in the life of the signer's account. `Init`
is either genesis: keiko's, whose author has no account and which has no regulator, or that of the local
chain. Lengths, weights and fees are one number per run; the fee multiplier stays at one.

**Node.** `step` is the place in `run` and `start_node_impl`; each step spawns its tasks, and those with a
`?` may return an error instead, upon which the task manager is dropped. A task that is spawned may fail
from then on; that an essential one did is noticed once the start is over. Of a chain specification the
model keeps what `IdentifyChain` sees of its id and which runtime its genesis holds. Peers are found and lost
at most once; of the blocks only the first one authored is recorded. Whether the keystore holds a key of the active set,
and whether others are in it, is a choice of `Init`. The Aura worker skips every slot of a major sync, whatever
`force_authoring` says; that flag only concerns a node without peers while other authorities go on (`LeftOut`).
The strategy for backing off when finality lags postpones a slot by a bounded number and is left out.

**ValidatorSet.** `ContinueSession` and `RotateSession` are one block each: `note_author` with the payout of
the pot, then, at the end of a session, `kick_stale_candidates`, `assemble_validators` and pallet_session's
shift of the queued set to the current one. The loop that removes stale candidates is the
recursive function in `KickStaleCandidates`: it goes through the candidates there were at the beginning,
and each `KickStep` reads the list and the ledger the step before left, as the code reads its storage again.
Only differences between block numbers are
ever used, so the block number is kept modulo the session period and `LastAuthoredBlock` as the number of
blocks since, up to the kick threshold (beyond it all numbers count alike), negative during the grace
period. This makes the state space finite without a bound on time, so liveness is checked on real
infinite behaviours. The list of validators is a set: a candidate that was made invulnerable appears
twice in the code's list and once here. `SetKeys` and `PurgeKeys`
are the calls of pallet_session that change `keys`; who has none is not queued, whatever `new_session` names.
`waived` is a history variable: the candidates that have less than the whole grace period (see `KickedAfterTerm`
in section 3).

Operators marked *Faulty* in a comment are the mutants: plausible mistakes that stand in for the
definition that follows them, to show that a property would notice. No specification uses them.

## 3. Runs

All sets are model values; amounts are small numbers; `Accuracy` is 1000 instead of 10^9 (the ratios that occur
are exact or round the same way). `ExistentialDeposit` is 2, as in the mocks of the pallets, so that a token can
be dust; it is 1 in `validator_set` and in the doc runs about stakes, which are not about lost tokens. With 0 or
1 nothing is ever dust; 2 is the smallest with which a claim can remove the account it is paid from and a
payment can be too small for the account it goes to. The proofs cover all others.

| Run | Instance | Properties | Shows |
|---|---|---|---|
| `staking_stakes` | 2 accounts, 1 provider, 3 blocks, eras of 1 or 2 blocks | `TypeOK`, `ReservedLedger`, `ProviderTotals`, `DelegationsWellFormed`, `UnbondingWellFormed`, `MinimumStakes`, `ImplementsStakeLedger` | bonds, stakes and chunks agree with the reserved balance and with each other, and every step of the pallet is a step of `StakeLedger` |
| `staking_rewards` | 1 account, 2 providers, 3 eras, rewards of 3 | `EraStakeTotals`, `PotShortByDust`, `RewardsBooked`, `EntitlementsPaidOnce`, `FinishedErasImmutable` | the divisor of an era's rewards is right in all eras; no reward is forgotten or booked twice; finished eras are final; what was earned is recorded until it is paid; the pallet's account is short by rounding and dust only |
| `runtime` | 2 accounts, 1 provider, 1 project, 2 blocks, eras of 1 or 2 blocks, a block reward of 5 | `RuntimeTypeOK`, `StatusesAgree`, `ReservedLedger`, `TokensKept`, `QuotaPaidFor`, `ImplementsProviderLife` | the pallets agree on every provider and give it one life, payments for projects leave what is staked alone, no token is created and only dust is lost, quota is paid for |
| `validator_set` | 3 accounts, one of which sets and purges its keys, sessions of 2 blocks | `ValidatorTypeOK`, `DepositsReserved`, `MinimumKept`, `KickedAfterTerm`, `IdleCandidatesKicked`, `CandidatesElected`, `LeaversRetire` | deposits, minimum, grace period, and that election, retirement and kicking happen |
| `transactions` | both chains, 5 accounts, 5 transactions (2 immortal), blocks for 2, 6 block hashes | `TransactionsTypeOK`, `BirthHashKept`, `AppliedOnce`, `FreeOnlyForRegulators`, `AuthorAlwaysPaid`, `OnlyDustIsLost`, `PoolDrains`, `FeesPaidOut` | a transaction is applied once and for free only with the role, fees get to an author, the author's payment never fails, mortal transactions leave the pool |
| `node` | all 32 configurations, 4 kinds of `--chain`, 3 files, every active set | `NodeTypeOK`, `CompleteOrNothing`, `RunsWhatItReports`, `AuthorsOwnChain`, `EssentialFailureEndsNode`, `AuthoritiesAuthor` | the service is complete or absent, has the right runtime, ends with an essential task, and an authority with a key of the active set authors |

Two accounts are the fewest with which an owner, a delegator and a second delegator (the owner delegates too)
compete for one provider. Three eras are the fewest in which an entry is made, carried over an era without a
change and claimed afterwards, with a chunk of an earlier era waiting; the doc runs about entries without stake
need six and have them. Two providers are needed only for the totals of an era; `staking_rewards` has them with
one account, which is owner and delegator at once, and all calls but a change of the era length, with one
unlocking chunk. `MaxBlock`, `MaxEra` and `MaxEraRewards` bound a staking behaviour, which is why those runs do
not check for deadlock: a behaviour ends at its last block. `validator_set` needs no such bound and checks it;
`MaxIssuance` bounds its tokens. Its kick threshold equals the session length, as in both runtimes. In `runtime`
two blocks suffice to admit, activate, deactivate and pay out a provider, and an odd block reward makes its
split round; 5 is the smallest with which a claim can leave the pallet's account below the existential deposit.
In `transactions` one account spends itself to nothing and is funded again by the other, which makes its first,
immortal transaction valid twice; another is signed for longer than hashes are kept; root removes a regulator
whose free call waits in the pool; and 6 hashes, no power of two, give a period of 4. These are the fewest
transactions with which that happens; nothing bounds the number of blocks. `node` has no bound but that a node
finds peers, loses them and authors once; it may stop, so deadlock is not checked there. `SYMMETRY`
(permutations of accounts and of providers) is used only in runs without liveness. `MaxEraStakeValues` is too
large to be reached in three eras: that the vectors keep a free place is shown by the proof only.

`PotShortByDust` counts what the pallet's account lacks of what it owes, beyond rounding: `Perbill * amount` rounds to
the nearest integer, so *n* shares of one amount can exceed it by (n - 1) div 2 (three equal shares of
8 are 3 + 3 + 3). The account starts with nothing owed, and no step makes it lack more, except one after which
it is empty, by less than the existential deposit. So a claim that pays too much or pays twice, a share that is
too large and a reward that is counted and does not arrive are all noticed, and what remains is the dust that
`doc_dust_claims` shows to be taken from others. `RewardsBooked` is the same for all tokens together.

`KickedAfterTerm` says exactly how far the grace period reaches. A candidate gets `KickThreshold` blocks on top
of the threshold, and both equal a session. Who registers after the first block of a session is stale at the end
of its first session as a validator at the earliest, so it is slashed only after it could author. Three kinds of
candidates have less and are in `waived`: who registers in the first block of a session is stale at the very
boundary at which it becomes a validator (the pallet's test `kick_and_slash_mechanism`, `tests.rs:241`, shows
this and expects it); who purges its session keys is not queued while it stays a candidate; and who left or was
kicked, registers again and then authors a block of the session it is still a validator of, replaces the later
block that registering had noted. No sentence of the repository promises these candidates more, so there is no
finding.

**Fairness.** The staking specification has none, and no liveness is claimed for it: every call is made by
somebody who need not make it. `ValidatorSet` has weak fairness of `NewBlock`: the chain goes on, which is what
consensus provides as long as validators run. No particular validator has to author and nobody has to call
anything. `Transactions` has the same for the two ends of a block, and weak fairness of `RemoveInvalid`: the
pool revalidates what it holds after every block. Nobody has to sign or submit, and a block need not take a
transaction, so `PoolDrains` rests on expiry alone and says nothing of immortal ones. In `Node` the process goes
on with its start (`StartUp`), polls its essential tasks (`EndOnFailure`), downloads what its peers have
(`FinishSync`) and tries to author in every slot (`AuthorBlock`, enabled only with a key of the active set and
while the node is neither syncing nor left out); failures and finding peers are never fair.

### What the code does otherwise than its documentation says

Each is a run that TLC must end with a counterexample.

* `doc_unstaked_head`: `claim` (`types.rs:225`) removes only one leading entry without stake. After delegate,
  unstake, delegate, unstake in consecutive eras a second one comes to the head; then `claim_delegator` fails
  with `NotStakedProvider` and later rewards cannot be claimed until a further unstake drops the entry. If the
  provider is unregistered before that, they are lost, and the stake cannot be withdrawn either (`lib.rs:677`).
* `doc_bond_width`: `amount + MinProviderStake` (`lib.rs:361`) wraps for an amount near the maximum; the check
  of the minimum bond passes and the bond is reduced to 0.
* `doc_delegator_limit`: `<=` admits one delegator more than `MaxDelegatorsPerProvider`.
* `doc_era_length`: a new era length applies to the running era, not to the next one.
* `doc_own_fees`: "In each block, the validator who authored it receives total value of the Pot and transaction
  fees within the block" (`pallets/validator-set/src/lib.rs:23`). `note_author` pays the pot out before the
  block's transactions, whose fees go to the author of the next block. `FeesPaidOut` is what the code does
  provide: fees do not stay in the pot.
* `doc_dust_claims`: "when **era** finished, both operators and delegators can claim their rewards for that era"
  (`pallets/dapi-staking/src/lib.rs:13`). Claims withdraw with `AllowDeath` from the pallet's account: one that
  leaves less than the existential deposit (500 in both runtimes, `DustRemoval = ()`) removes the account and
  destroys the rest, which was owed to others. In the run a delegator claims 2 of 3 tokens, and the provider's
  own reward of that era cannot be paid until more rewards arrive, at the expense of later claims. With a
  deposit of 1 the same instance has no violation.

More were met and have no run of their own:

* `new_session` registers its weight as `new_session(candidates, removed)`
  (`pallets/validator-set/src/lib.rs:468`), where the benchmarked function is `new_session(r, c)`
  (`weights.rs:123`), r removals among c candidates: less than the work done in the usual case of more
  candidates than removals. Weights are not modelled;
* a delegation shares in the rewards of the era in which it is made, where `lib.rs:388` says "effects of
  delegation will be felt at the beginning of the next era" (`StakeLedger` states what the code does);
* `submit_project_usage` only cuts the usage at the quota where `pallets/dapi/src/lib.rs:246` says "This will
  disable project if the quota is excess": a project has no status;
* a candidate that became invulnerable can call `leave_intent`, which `pallets/validator-set/src/lib.rs:337`
  says "is not available to `Invulnerable` validators";
* for a specification file whose id is neither a development nor a keiko one, `native_runtime_version`
  (`node/src/command.rs:80`) reports keiko and `run` (line 142) starts the local runtime. If its genesis is
  keiko's, an authority never authors; `RunsWhatItReports` and `AuthoritiesAuthor` therefore speak of the
  shipped chains only, `AuthorsOwnChain` of all.

## 4. Proofs

All theorems hold for every value of the constants that the named assumptions allow: any finite set of accounts,
providers, projects or users, any amounts, any number of eras, any configuration. Of the 38 properties of the
passing runs, 31 are proved: all that are not liveness. The assumptions on constants are `ASSUME`s of the
modules that declare them: natural-number parameters, ratios at most one, pots that are nobody's account, finite
sets of accounts and identifiers, `None` distinct from every record, deposits within the type `Balance`,
distinct reasons, a minimum delegation that is not 0 (without which an entry of no stake would count as a
delegation). What a single theorem needs beyond that is a hypothesis in its statement:

| Hypothesis | Used by | Why it is needed and justified |
|---|---|---|
| `IssuanceFits`: genesis and all rewards stay below `MaxBalance` | the theorems on sums of the staking pallet alone | balances are 128 bits wide, the issuance is far smaller; without it the saturating additions may lose tokens |
| `AmountsFit`: no amount plus the minimum bond exceeds `MaxBalance` | the same | excludes the wrapping addition of `provider_bond_less`, which `doc_bond_width` shows does break `MinimumStakes` |
| some account and some provider exist | the theorems on the pot and on what an era owes | `RoundingSlack` counts the shares less one, which for no shares is not 0 |
| `BlockIssuanceFits`: genesis and all block rewards stay below `MaxBalance` | the same theorems within the runtime | the same: there block rewards are all the tokens that come in |
| `GenesisAlive`: an existential deposit of at least 1, and no genesis balance below it | three theorems within the runtime | the deposit is 500, the endowments are far larger. A payment that keeps its account alive may still empty an account that is below the deposit already; a delegator must not be one |
| `BlockIssuance <= Issuance` | `RuntimeImplementsStakeLedger` | `Issuance` bounds the amounts of the abstract ledger; it must have room for what the runtime issues |
| `RewardsFit`: the rewards of an era are below `MaxBalance` | `QuotaIsPaidFor` | the accumulator saturates otherwise |
| `FeesAmple`: a fee is positive and at least two existential deposits | three theorems of `TransactionsProofs` | the runtimes charge 10^13 per byte, the deposit is 500 |
| `SessionsShort`: `SessionPeriod <= KickThreshold` | `KickedOnlyAfterTerm` | they are equal in both runtimes |

**LedgerLemmas.** The least-number principle for sets of naturals, from which inductions are arguments by a
least counterexample (the library's induction theorems take an operator, which the provers cannot instantiate);
with it, sums over finite sets: they are natural numbers, change by what one summand changes, are monotone,
split, exchange. The folds the model uses are shown equal to these sums. Proportions: `from_rational` rounds
down (`FromRationalBound`), `Perbill * amount` to the nearest integer (`PerbillMulRounding`), so a share exceeds
the exact one by at most a half, and shares of one amount to several weights exceed it together by at most half
their number less one (`SharesTogether`: the numerators of the halves gained add up, and the last one is
absorbed because both sides are integers). On top of that, what `Reserve`, `Unreserve`, `Withdraw`, `Transfer`
and `ResolveCreating` do to one account and to the total.

**DapiStakingProofs.** `TypeCorrect`, `DelegationsStayWellFormed`, `UnbondingStaysWellFormed` and the action
property `FinishedErasStayFixed`. The inductive invariant is
`IndInv == TypeOK /\ DelegationsWellFormed /\ UnbondingWellFormed`: the type invariant is not inductive on
its own, since `UnstakeAmount` and the tail of a vector have their types only because the vectors are ordered
and not empty, and the new stake entry belongs to the running era only because no entry lies ahead of it.
The first part of the module says what the vectors' operators do: a stake, an unstake and a claim keep the
entries in order and lengthen them by at most one, and change the stake of which eras to what
(`StakedAt`); the binary search finds the chunk of an era or the place where it belongs; `AddChunk` keeps the
chunks sorted and adds at most one; a partition keeps their order. `FinishedErasStayFixed` goes action by
action: all but three write only the record of the running era, `StartEra` completes the era that is just
ending (not yet finished) and `ClaimProvider` sets a flag it has found unset.

**StakingLedgerProofs.** `SupplyStaysBounded` (no call creates a token) and `ReservedLedgerKept`
(`ReservedLedger`). They are proved together by `LedgerInv`: `IndInv`, that a registered provider has a record
in its last era, an active one has its bond and one never registered left no trace (`Recorded`), that exactly
the eras begun have a state (`ErasBegun`), that all tokens together fit a balance (`SupplyFits`) and the
equation itself. The equation needs `SupplyFits`, as a sum that saturates breaks it, and `Recorded`, since a
bond is read from a record that might be the default. Where the tokens come from is kept apart: `StepLedgerInv`
says that a hook or call of the pallet (`PalletStep`) keeps `LedgerInv`, whoever pays rewards in. For the pallet
alone `PalletInv` adds the bound on the supply, which implies `SupplyFits` as long as rewards arrive through
`HandleImbalance` only. One `...Call`
lemma per dispatchable states once everything a successful call does to vectors, records, chunks and
balances; all later proofs cite these instead of opening the actions.

**StakingTotalProofs.** On top of `LedgerInv` and, for the theorems, `PalletInv`:

* `RewardsStayBooked` (`RewardsBooked`), for any existential deposit: accumulator and eras hold every reward
  exactly once, and a step loses only what `MovedParts` allows, the dust of the pallet's account and a payment
  too small for an account that is gone;
* `ProviderTotalsKept` (`ProviderTotals`), by `Totals`: exact in the current era, covering in earlier ones,
  where claims make the delegators' side smaller but never the record;
* `MinimumStakesKept` (`MinimumStakes`);
* `EraStakeTotalsKept` (`EraStakeTotals`), by `EraSums` together with `Totals`: the pallet subtracts a
  provider's whole record from the era's total when it leaves, which is right only if the record is exact;
* `EntitlementsArePaidOnce` (`EntitlementsPaidOnce`), by `Entitled`: no entry belongs to era 0 (the check that
  all rewards were claimed before a stake is withdrawn compares eras and would pass on such an entry), who has
  an entry has an account (so that a payment to it cannot be swallowed by the existential deposit), and an era
  in which something is staked has a record to pay it from;
* `PalletImplementsStakeLedger` (`ImplementsStakeLedger`): one `...Mapped` lemma per call shows which step of
  `StakeLedger` it is, or, for `ContinueEra`, `SetBlocksPerEra`, `ClaimProvider` and `HandleImbalance`, that the
  ledger does not see it. Stakes and bonds come from the `...Call` lemmas. What is earned needs how a vector's
  stake changes era by era, and that an entry is claimed before a later one. The unlocking amounts need that a
  sorted list has one chunk per era at most (`UnlockAtOne`), so that `AddChunk` adds to one era and leaves all
  others (`UnlockAdded`), what `withdraw_unbonded` keeps unlocks later (`UnlockFuture`), and what it releases is
  the sum over the eras due (`UnlockDue`, which exchanges the sum over chunks with the sum over eras).
  `ReleaseStake` needs `Entitled`: without it a delegator could leave with something unclaimed;
* `ErasPayWhatTheyCollected` and `PotStaysShortByDust` (`PotShortByDust`). What can be claimed of a finished era
  is bounded by what it collected: its rewards are split over the providers by their records, each provider's
  part between provider and delegators, and the delegators' part by their stakes. `EraSums` says that the
  records add up to the divisor of the first split, `Totals` that a record covers its stakes, which makes it a
  divisor large enough for the last one; `SharesTogether` does each level and `ClaimsBacked` the two together.
  For the account's shortfall a step is one of four: it pays a claim, and the claim is gone from the record with
  what it paid (`ProviderClaimed`, `DelegatorClaimed`, where `Entitled` guarantees that the payment arrives); it
  finishes an era, and the accumulator, which the pot holds already, backs the era's claims (`StartEraClaims`);
  it pays into the pot and the accumulator alike, unless the pot does not exist and the payment cannot create
  it; or it changes no claim on a finished era and nothing in the pot (`QuietStep`). The inductive invariant is
  `LedgerInv`, `Totals`, `EraSums` and `Entitled` together.

**RuntimeProofs.** `RuntimeTypeCorrect`, `StatusesStayAgreed`, the refinement
`RuntimeImplementsProviderLife`, `TokensAreKept` and `QuotaIsPaidFor`, by
`RuntimeInv == IndInv /\ TypesFit /\ StatusesAgree /\ WithdrawnHasLeft`. `TypesFit` adds to the types that a
quota is at most `MaxBalance`: a larger one would be cut by the next payment, below the usage.
`ProviderStep` says that a step admits, activates, deactivates or redeems one provider, or leaves all alone
while the era stays or advances by one; every action of the composition is such a step, and every such
step is one of `ProviderLife`, which settles agreement and refinement at once.

The second half takes what is proved of the staking pallet alone into the runtime, where payments for projects,
the block reward and the payouts to block authors write the same balances and the same accumulator at
other moments. `RuntimeSeen` shows that every step is a `PalletStep`, or does not concern the pallet, or is
`TokensMoved`: the pallet's records stay, no reserved balance changes, no account with an existential deposit
falls below it, and the pot receives what the accumulator counts, unless that is too little to create the pot.
For a `PalletStep` the lemmas on the pallet alone apply as they are; `TokensMoved` needs one short lemma per
invariant. Two things have to be found anew. That the tokens fit a balance comes from `TokensAreKept` here:
nothing exists but genesis and one reward a block, less what was lost (`Backed`). And that whoever has a stake
keeps an account, which in the pallet alone holds because no account ever gets poorer, needs here that every
account is empty or has an existential deposit (`AccountsAlive`), as the withdrawal that keeps an account
alive protects only such accounts. From `StakingInv` (`Backed`, `LedgerInv`, `Totals`, `EraSums`,
`MinimumStakes`) and `PayInv` (with `Entitled` and `AccountsAlive`):

* `RuntimeKeepsFinishedEras`, from `RuntimeInv` alone: `FinishedErasImmutable`, `DelegationsWellFormed` and
  `UnbondingWellFormed`;
* `RuntimeKeepsStakingBooks`: `ReservedLedger`, `ProviderTotals`, `EraStakeTotals` and `MinimumStakes`;
* `RuntimePaysEntitlementsOnce` and `RuntimeImplementsStakeLedger`: `EntitlementsPaidOnce` and
  `ImplementsStakeLedger`, now of the specification of the runtime;
* `RuntimeErasPayWhatTheyCollected` and `RuntimePotShortByDust`: no finished era owes more than it
  collected, and the pot runs short of its claims by dust alone.

**ValidatorSetProofs.** `ValidatorTypeCorrect`, `DepositsStayReserved`, `MinimumIsKept` and
`KickedOnlyAfterTerm`. `Booked` is the inductive form of `DepositsReserved`: the candidates are distinct and
each one's reserved balance is its own deposit, everybody else's is 0. The kick loop has an invariant of its own
(`LoopInv`), by induction over its steps: deposits stay booked for those left, who comes later in the list is
still in it, only stale candidates are gone, and not below the minimum. `Grace` carries the grace period of
every candidate outside `waived`: it has its keys, and the blocks it has been idle are bounded by the part of
the session that has passed while it is not queued, and by a session more while it is not a validator, so that
it is not stale before it has been one.

**TransactionsProofs.** `TransactionsTypeCorrect`, `TransactionsAppliedOnce` (every applied transaction of a
living account has a nonce below the account's, `NoncesUsed`), `FreeCallsOnlyByRegulators`, `AuthorsArePaid` (by
`PotReady`: the pot has at most the existential deposit, so there is nothing to pay, or at least two, so the
payment can create the author's account), `FeesAreNeverBurnt` and `BirthHashIsKept` (the arithmetic of
`create_transaction`'s period for every `BlockHashCount`, power of two or not).

**NodeProofs.** `NodeTypeCorrect`, `ServiceCompleteOrNothing`, `RunsTheReportedRuntime`, `AuthorsOnlyItsOwnChain`,
by `NodeInv`: which essential tasks were spawned before each step (`Spawned`), that they are the ones running
as long as none has failed, and that a specification is loaded once, so that the runtime an author used
stays the one on chain.

**Only model-checked.**

* Liveness (`IdleCandidatesKicked`, `CandidatesElected`, `LeaversRetire`, `PoolDrains`, `FeesPaidOut`,
  `EssentialFailureEndsNode`, `AuthoritiesAuthor`): fairness and `ENABLED` are outside the prover.

## 5. Plan

All components with a state machine have a module, and every property that is not liveness a theorem, both
refinements included; no theorem bounds the existential deposit by a number from above, and those on the staking pallet
hold of the runtime as well, where `TokensKept` takes the place of `RewardsBooked`.

## 6. Not modelled

* The call filter of the runtimes. It takes `leave_intent` (and in keiko `register_as_candidate`) from
  signed callers; `ValidatorSet` allows every order of the calls, so what it shows holds with fewer of them.
* The votes of Grandpa, and more than one node: consensus is a library.
* The subcommands of the node other than running it, and the RPC methods: one-shot tools and queries. The
  inside of client, network and pool: libraries, of which only what the code depends on is modelled.
* Weights: generated tables that only the fee library reads. Benchmarks and
  mocks: test scaffolding. The fee multiplier: it changes the size of a fee, on which nothing depends here.
* `MassbitId` and the other primitives: opaque identifiers, model values here. Runtime APIs other than those
  of blocks and transactions: queries.
* Balances, sessions, authorship, transaction payment and the other third-party pallets are libraries too:
  what the pallets call is modelled from how they call it, and marked external.
