# Verification of the Normal protocol

TLA+ models, TLC checks and TLAPS proofs for the programs under `anchor/programs`.
The models are translated from the Rust sources. File names of sections 1 to 6 are relative to
`src/anchor/programs/governance/src/` for the governance program and to
`src/anchor/programs/normal/src/` for the normal program.

Contents: [inventory](#1-inventory) · [modules](#2-the-modules-and-the-code) ·
[runs](#3-what-tlc-checks) · [proofs](#4-what-tlaps-proves) ·
[divergences](#5-where-the-code-and-its-documentation-differ) ·
[not modelled](#6-what-is-not-modelled) · [plan](#7-plan)

To check a run: `tlc -workers 2 -config voting.cfg MCGovernance`; the table of section 3 names
the module of each configuration. To check a proof: `tlapm VotingProofs.tla`.

## 1. Inventory

The repository has two Solana programs of its own, three stubs of third-party
programs, a TypeScript SDK and a web client. A Solana instruction is a transaction
step: it runs to its end or is rolled back, and two instructions that write one account
run one after the other. What interleaves are *instructions*, sent by anyone in any
order, and time passes between them. So the hard behaviours are of five sorts: orders of
legal calls nobody tried, account data that has become stale (a config, a supply, a
reported weight, an average price) between two instructions, one handler that writes two
accounts that may be the same one, limits and roundings, and calls that nobody ever makes.

### Governance program (`anchor/programs/governance`)

| Component | State it keeps | Operations | Must hold |
|---|---|---|---|
| Vote resolution (`state/proposal.rs`, `vote_record.rs`) | none: arithmetic on a tally | threshold, choice weight, tip, final result | thresholds exact; tipping and finalizing agree; a strict tip cannot be undone; a spread vote gains nothing |
| Token owner records (`state/token_owner_record.rs`) | deposit, unrelinquished votes, outstanding proposals, locks | create, deposit, withdraw, revoke, set and relinquish locks | committed tokens stay; a token votes once per proposal; the holding account backs the deposits; a lock is its authority's |
| Proposals before the vote (`state/proposal.rs`, `signatory_record.rs`, `proposal_deposit.rs`) | draft and signing states, signatories, security deposit | create, add signatory, sign off, cancel, refund | the vote starts with every signature; counters of active proposals are exact; a decision is final |
| Voting | tally, vote records, state, recorded maximum weight and threshold | cast, withdraw, prune, finalize | the tally is the sum of the votes; the outcome can be recomputed from what is recorded; one winner; votes end and are released |
| Configuration (`state/realm.rs`, `realm_config.rs`, `governance.rs`) | token types, weight sources, plugins, council, thresholds, tipping, voting times, required signatories, lock authorities | set realm config and its items, set governance config, add and remove required signatories | none of the above is broken by a change in the middle of a vote |
| Execution (`state/proposal_transaction.rs`) | transactions of an option, counters, hold-up time | insert, remove, execute, complete | each executed once, after its hold-up time, also by nested calls; completed when all are |
| Realms, governances, treasuries, authorities | addresses, authority keys, delegates | create, set authority, set delegate | only the authority hands on the authority; what exists was created by somebody who may |
| Accounts of version 1 (`state/legacy.rs`) | old layouts | read as today's, written back as old or migrated | what is read back is what was written, counters included |
| Plugins (`addins/`) | weight records of other programs | read a weight | modelled as any weight of a set, a new one every time |
| Plumbing (`tools/`) | – | (de)serialization, PDA checks, CPI | – |

A vote reads the voter's record (weight), the governance (config), the realm
(who votes, source of the maximum weight) and the mint (supply), and writes the proposal,
its vote record, the voter's record and, when it tips, the record of the proposal's owner –
which may be the voter's – and the governance's counter. Withdrawals read the counters the
votes and proposals maintain. Locks are put on records by other programs. An executed transaction
calls any program with the governance's signature, and so the governance program itself.

### Normal program (`anchor/programs/normal/src`)

| Component | State | Operations | Must hold |
|---|---|---|---|
| AMM: ticks, positions, swaps (`controller/amm.rs`, `tick.rs`, `liquidity.rs`, `position.rs`, `swap.rs`, `util/swap_tick_sequence.rs`) | price, current tick, liquidity, fee and reward growth (wrapping), ticks, positions | modify liquidity, collect, swap over ticks | liquidity is the sum of the positions in range; growth inside a range counts once; the price is at its tick; the vaults cover the claims |
| 256-bit arithmetic (`math/amm/u256_math.rs`) | – | add, shift, multiply, divide | exact |
| Insurance fund (`controller/insurance.rs`, `state/insurance.rs`) | shares, share base, stakes, withdrawal requests | add, request, cancel, remove, rebase, settle revenue, pay | shares of users never exceed the total; nobody dilutes the others; a request stays covered |
| Synth balances (`controller/synth_balance.rs`) | scaled balances, cumulative interest | accrue, deposit, withdraw, transfer, donate | totals are the sums of the positions; the vault is short by rounding only; withdrawals stop at the floor |
| Liquidation and margin (`controller/liquidation.rs`, `math/margin.rs`) | positions, liquidation status and clock | liquidate, exit, resolve bankruptcy | margin is freed no faster than time allows; bad debt is paid once; a bankrupt account can be resolved |
| Oracles and guard rails (`math/oracle.rs`, `state/oracle_map.rs`, `controller/synth_balance.rs`) | feed, averages | post, read, validate, average | the feed never goes back; averages stay among the prices; a severer fault allows no more |
| Registries (`instructions/synth_market`, `index_market`, `user`) | markets and users by number, counters, fee and limit, referrals | create, configure, wind down, delete | dense numbers, exact counters, sound settings, no circle of referrers |
| Vaults, index funds, schedules | accounts | handlers of `instructions/` | – |

Parts of this program are a fork in transition: several controllers refer to
modules or functions that the crate does not define (`controller/liquidation.rs` imports
`controller::spot_balance`, `math::orders` and `math::bankruptcy`). Where the code that exists
settles what a call does, it is modelled and what is undefined is an input or an external
operator; where it does not, the component is left out (section 6).

The `pyth`, `switchboard` and `switchboard-on-demand` programs are account layouts used in
tests. `ts-sdk` and the web client build transactions and decode accounts.

The hazards of this code, each at its line and with the properties that are about it, are in
`PROJECT.json`.

## 2. The modules and the code

```
VoteResolution <- GovernanceState <- TokenOwnerRecords --+
      |                          <- Proposals -----------+- Governance <- MCGovernance
      |                          <- Voting --------------+    |    |
      |                                                       |    +- GovernanceProofs <- VotingProofs
      |                                          Execution ---+          |
      |          ProposalLifecycle (abstract) <--- INSTANCE               +- ExecutionProofs (with Execution)
      +- VoteTallies -+                           MCExecution
     INSTANCE: AccountVersions, Realms -+- Foundations <- MCFoundations (with U256Muldiv), FoundationsProofs

AmmMath <- LiquidityPool <- Swaps <- ConcentratedLiquidity <- MCConcentratedLiquidity, PoolProofs
InsuranceFund <- MCInsuranceFund, InsuranceProofs
SynthBalances <- SynthMarkets <- NormalProgram <- MCNormal, NormalProofs
                                   INSTANCE Liquidations (on Margin), OracleFeeds,
                                            MarketRegistry, UserRegistry
OperatorLemmas: sums over finite sets and the arithmetic of VoteResolution, used by all proof modules
```

### Governance

* **VoteResolution** – the pure part of `state/proposal.rs` and `vote_record.rs`: valid
  ballots, `ChoiceWeight`, `MinVoteThresholdWeight`, `FinalVoteState` with its winners
  (`resolve_final_vote_state`), `TippedElectorateState` and `TippedVetoState`
  (`try_get_tipped_*_vote_state`).
* **GovernanceState** – the accounts as variables. One realm and one governance; a record is
  named by its owner, a *member*, who has one governing mint (`MintOf`). `tor`, `proposal`
  and `proposalDeposit` are functions whose domain are the accounts that exist; `voteRecords`
  is a set. `supply` and `holding` are the SPL mint's supply and the balance of the realm's
  holding account; a token is undeposited or held. `now` is the clock. Optional timestamps
  are 0 when unset and the clock starts at 1. Rents, names, links and reserved bytes are left out.
* **TokenOwnerRecords** – `process_create_token_owner_record`, `process_deposit_…`,
  `process_withdraw_…`, `process_revoke_governing_tokens`, `process_set_…_lock`,
  `process_relinquish_…_locks`, each an action; `CanWithdraw` is
  `assert_can_withdraw_governing_tokens`. A deposit may come out of a token account or be
  minted by the mint authority. Minting and burning outside the program are external actions.
* **Proposals** – `process_create_proposal`, `…_add_signatory`, `…_sign_off_proposal`,
  `…_cancel_proposal`, `…_refund_proposal_deposit`. Signatory records are the sets
  `signatories` and `signedOff` of the proposal.
* **Voting** – `process_cast_vote` with its tip, `process_finalize_vote`, and the two halves of
  `process_relinquish_vote`: `WithdrawVote` while the vote is open (signed by the owner, the
  vote is taken off the tally and its record disposed) and `PruneVote` once it is decided (by
  anyone, the record stays). Between the end of the voting time and FinalizeVote neither is
  possible. `MaxVoterWeights` and `VoterWeights` are sets because a plugin may report
  different weights at every call.
* **Governance** – composes the three, adds the clock and the handlers that change configurations,
  and states the properties. The processor dispatches one instruction at a
  time (`processor/mod.rs`), so `Next` is the disjunction of the handlers.
* **Execution** – every handler of Governance together with `process_insert_transaction`,
  `…_remove_transaction`, `…_execute_transaction` and `…_complete_proposal`. An executed
  instruction may set the governance's config, which only the governance can do, or execute
  other transactions of the same proposal; the outer call wrote nothing before it and writes the account it
  has read before it (`Callees`, `ExecuteTransaction`), so that what the inner call counted is lost.
  In Governance alone `SetGovernanceConfig` may run at any time, which covers every moment at which an
  executed proposal could call it; here it runs when a transaction does.
* **ProposalLifecycle** – the abstract specification of one proposal: it is drafted with a plan of
  transactions, put to the vote, approved or rejected once, what is due is executed, each once, and it is
  concluded. Execution implements it under the mapping `Phase`, `Plan`, `Due`, `Done`.
* **AccountVersions** – a governance, a record, proposals with their transactions and votes, each in the layout of
  version 1 or of today, under the reads and writes of every handler. Each account is read as today's
  and written back in its own layout unless the handler migrates it (`serialize_as_governance_v2`, a record
  that grows for its first lock); `agreed` and `granted` are ghosts that remember what handlers have written.
* **Realms** – two realms, their governances and treasuries: creation, the authority over a realm with and
  without the check that the new one exists, removal of the authority, the delegate of a record.
  `lastSigner` and `unchecked` are histories.
* **VoteTallies** – a Yes/No vote of any maximum weight, threshold and tipping. **Foundations** puts it beside AccountVersions and
  Realms, which share no state with it (`part`); MCFoundations gives the values and counts through the numbers of U256Muldiv.

Signatures are modelled where their absence changes who may act next: signatories (`signing`),
lock authorities (`signed`), the permissionless calls (FinalizeVote, PruneVote,
RefundProposalDeposit, ExecuteTransaction) and the authority over a realm. Handlers that simply need their account's owner are
enabled at any time.

Arithmetic: amounts are `u64` in the code, with checked or saturating operations and `u128`
products. Checked operations that could fail are guards (`HasCounted`, `tor[r.voter].unrelinquished > 0`), the
saturating ones are `SaturatingSub`. The runs stay far below 2^64; overflow of the sum of
weights would need a supply that an SPL mint, itself a `u64`, cannot have, or a plugin.

### Normal

* **AmmMath** – `math/amm`: price steps (`NextPriceFromA`, `…FromB`), amounts between two prices with their
  rounding, `ComputeSwap` (`swap_math.rs`). It takes exact integers, which is what U256Muldiv and its run justify.
* **U256Muldiv** – `u256_math.rs` word by word: comparison, addition, shifts, multiplication and the long
  division with its estimate and its corrections, for words of `U64_RESOLUTION` bits.
* **LiquidityPool** – ticks, positions and growths: what `modify_liquidity`, `update_fees_and_rewards`,
  `collect_*`, the reward and the fee rates do. A tick is `initialized`, has its net and gross liquidity and its outside
  growths; growths wrap around at `WORD`. `earned` is a ghost: what was paid while the price was in the position's range.
* **Swaps** – `swap.rs`: the search of the next initialized tick over up to three tick arrays, the loop of steps
  (`Swapped`, a recursive function of the state of the loop), crossing, fees. **ConcentratedLiquidity** composes them.
* **InsuranceFund** – `controller/insurance.rs`: initialize, add, request, cancel, remove, settle revenue and pay, with the
  rebase of the fund and of a stake (`RebasedFund`, `RebasedStake`). A stake follows the fund's base only when its owner acts.
* **SynthBalances**, **SynthMarkets** – interest with its share for the revenue pool, averages, scaled balances and their rounding, the
  withdrawal limit; the handlers that deposit, withdraw (and so borrow), transfer and donate.
* **Margin**, **Liquidations** – `math/liquidation.rs` and `controller/liquidation.rs`: what may be liquidated by now, transfer of the
  position and its fees, exit, bankruptcy and who pays. The margin calculation and `is_user_bankrupt`, which the crate does not
  define, are those of one position.
* **OracleFeeds** – posting pull updates, reading and scaling a price, classifying it, the table of actions, averages and
  their reset; `sanitize_new_price`, undefined in the crate, clamps to a band.
* **MarketRegistry**, **UserRegistry** – numbers, counters, status, expiry and margin settings of markets; statistics, sub
  accounts, referrers, the limit on accounts and its fee.
* **NormalProgram** – the five machines SynthMarkets, Liquidations, OracleFeeds, MarketRegistry and UserRegistry beside each
  other. They share no modelled state, so a behaviour is one of one of them (`part`) and the others rest. MCNormal gives the values.

## 3. What TLC checks

A `.cfg` gives every constant its value. Sets that are empty switch a part off, so that each run
spends its states on its own question.

| Run (module) | Instance | Properties | Shows |
|---|---|---|---|
| `voting` (MCGovernance) | two community members (3 tokens), one council member (1), one Yes/No proposal, strict tipping above a threshold of 30 %, `FairSpec` | VotesBacked, CoolOffNeverHelps, StrictTipIsFinal, VotingEnds, VotesReleased | voting, withdrawing, moving tokens and voting again counts no token twice, through tip, cool off, veto and finalization; every vote ends and is released |
| `ballots` (MCGovernance) | every ballot type with and without deny option; plugins report 0, 1 or 3 and change their mind; configs change from strict to early tipping | TallyMatchesVotes, OneWinner | what is taken off is what was added; one winner |
| `reconfiguration` (MCGovernance) | membership community; thresholds, tipping, council and weight source change during the vote; tokens are minted, burned, revoked | VotesCounted, OutcomeReproducible | no order of changes confuses the counters or the outcome |
| `accounts` (MCGovernance) | two proposals of one member who votes; signatories and required ones, two lock authorities with one lock id, a realm that goes dormant | TypeOK, ProposalsCounted, VotingNeedsAllSignatures, DecisionFrozen, LocksAreTheirAuthoritys, CommittedTokensStay | counters, signatures and locks, also when voter and owner are one record |
| `execution` (MCExecution) | one proposal, up to two transactions of an option, transactions that execute each other or set a longer hold-up time, `FairExecutionSpec` | EachRunsOnce, TransactionsCounted, TimelineOrdered, LifecycleRefined, ExecutionEnds | transactions run once and late enough; Execution implements ProposalLifecycle; what is approved is executed |
| `foundations` (MCFoundations) | all Yes/No tallies with a maximum weight ≤ 12; all 65,536 pairs of four-word numbers of two-bit words; accounts of two versions; two realms | VotesDecidedExactly, WideArithmeticIsExact, AccountsSound | the arithmetic, the two layouts and the authorities the handlers stand on |
| `amm` (MCConcentratedLiquidity) | two positions on overlapping ranges of seven ticks, swaps in both directions and modes over several ticks, a reward, growths about to wrap | LiquidityInRange, TicksMatchPositions, EarningsFollowRange, PriceMatchesTick, VaultsCoverClaims | liquidity, earnings and vaults stay consistent |
| `insurance` (MCInsuranceFund) | two stakers; payments take most of the vault; shares are rebased by ten; revenue is settled | SharesBacked, RequestsCovered, NoDilution, CancelIsNeutral | shares stay backed and nobody loses to another |
| `normal` (MCNormal) | the five machines of NormalProgram, each explored to its end | BalancesAddUp, FloorHolds, BankruptcySound, OraclesSound, RegistriesConsistent, ShortageIsDust, EndsHealthy, LiquidationIsPaced | see the properties |
| `membership_tip` (MCGovernance) | membership tokens, strict tipping; violation | OneWinner | section 5 |
| `missing_required` (MCGovernance) | two signatories; violation | RequiredSignatoriesSign | section 5 |
| `dust` (MCNormal) | a token coarser than the interest; violation | TotalsAreSums | section 5 |

TypeOK is checked in one run only; the theorem `TypeCorrect` covers all the others. Each property
of a passing run has a mutant in `PROJECT.json`: a plausible mistake in one mapped definition that breaks it.

### Bounds

* Governance: `MAX_TIME = 4`, base voting time 1, cool off 1, `LAST_START = 1`: a vote that starts at
  t may be cast on up to t+1, counter-voted or cancelled up to t+2 and finalized from t+3 on, so every
  comparison in the code (`end < now`) is met on both sides and at equality. Sign off after
  `LAST_START` is left out because the bounded clock could not finish that vote.
* `MaxSupply`, `InitialSupply`: one to three tokens. Two voters with three tokens give every relation
  (less, tie, more) between Yes, Deny and what is uncast, for thresholds of 60 % (2 of 3) and
  30 % (1 of 3). `voting` uses 30 %, so that a strict tip has to wait for more than its threshold.
* One proposal except in `accounts`: the handlers touch one proposal each, and what
  proposals share (the owner's and the governance's counters) needs two. `accounts` explores signatories, locks and
  dormancy one kind at a time (`OneKindAtATime`), because their handlers share proposals and records only.
* `MAX_OUTSTANDING = 10` is the code's constant; the instances do not reach it, the theorem
  `ProposalsCountedAlways` does not depend on it.
* Percentages of weighted votes are {0, 50, 100}, where an odd weight makes rounding bite; the
  finer roundings are in `foundations`.
* `foundations`: two-bit words make every case of the long division happen, the second correction and the add-back
  too. `U32 = 4` is the half of a count of votes; `NeverEnough = 9` is `u64::MAX` as a minimum weight.
* `amm`: `TICK_ARRAY_SIZE = 2` puts three arrays under one swap of seven ticks; `WORD = 64` and `InitialGrowth` make
  growths wrap; `PriceLimits = {20}` is the price of a tick two ranges share, so that swaps stop exactly there; `MAX_VAULT = 5`.
* `insurance`: a stake of 100 in a vault of at most 130, of which 90 or 300 are paid, forces a rebase (`MAX_BASE = 1`). A stake is
  one base behind at most; the theorems cover any distance.
* `normal`: `PRECISION 8` over `INTEREST_ONE 4` makes dust; `MAX_CALLS 6` calls; prices 20 and 17 take a long account
  of 40 below its margin; four messages, one of them negative; three markets, two accounts for each of two authorities. Conversions by
  powers of ten have small precisions instead.
* Community members, the two proposals of `accounts`, the stakers, positions and users are interchangeable: symmetry is used in the runs of
  invariants and action properties and not in those with liveness (`voting`, `execution`).
* Deadlock is checked except where the instance is used up in the end: `foundations` (all the weight is cast, all numbers are
  counted) and `normal`, `dust` (clocks, vaults and counters are full). In the other runs some handler is always possible.

### Fairness

Nothing ends a vote by itself. `FairSpec` assumes that the clock advances, and that somebody
calls FinalizeVote and RelinquishVote when they stay possible. Both are permissionless once
the time is up (process_finalize_vote.rs takes no signer; process_relinquish_vote.rs asks for
the owner's signature only while the proposal is in voting), so any wallet that wants a vote
settled can make them. No fairness is assumed of voters, owners, signatories, authorities or the DAO.
`VotingEnds` and `VotesReleased` are checked under a configuration that stays as it is: a
config that disables the threshold makes FinalizeVote fail (section 5).

`FairExecutionSpec` adds ExecuteTransaction, which anybody may call, and supposes that the foreign instructions of a
transaction succeed. CompleteProposal needs the owner, so it has no fairness: `ExecutionEnds` must be reached by executing alone.

## 4. What TLAPS proves

All theorems hold for every value of the constants that satisfies the assumptions of the modules
(`ConstantsAssumption`, `FoundationsAssumption`, `InsuranceFundAssumption`, `NormalAssumption`, …): finite sets of members and accounts,
well-typed configurations, amounts that are numbers, precisions and denominators that are not zero, and the
limits the code itself puts on fee rates. TLC evaluates them in the runs.
`LiquidationAssumption` is what the rounding of a liquidation rests on: positions are whole order steps, which each fill validates
(`controller/liquidation.rs:408-417`, `:432-441`); no price is zero, which the oracle's validity excludes before a liquidation
(`math/oracle.rs:82-119`); the initial ratio exceeds the maintenance ratio, and this one the liquidator's fee (`validation/margin.rs:21-34`); the precision
of fees is a multiple of that of ratios (`constants/main.rs:43`, `:77`).

| Theorem | Says |
|---|---|
| **OperatorLemmas** | |
| `ThresholdIsExactAlways` | the threshold is the least weight that is enough, and never more than all |
| `TipAgreesAlways` | a tip is what resolving the same tally gives, if the maximum covers the votes cast |
| `TipIsFinalAlways` | a strict tip, and any tip to Defeated, stands however the rest is cast |
| `SpreadKeepsWeightAlways` | a vote spread over any number of options gains no weight and loses less than a unit per option |
| **FoundationsProofs** | |
| `VotesDecidedExactlyAlways` | the four above for every tally |
| `AccountsSoundAlways` | accounts of both versions keep what they say; the authority over a realm passes from hand to hand |
| **GovernanceProofs** | |
| `TypeCorrect` | `TypeOK`, and that accounts refer to accounts that exist |
| `DecisionFrozenAlways` | no handler changes a proposal that has been decided |
| `VotingNeedsAllSignaturesAlways` | a started vote has every signatory's signature |
| **VotingProofs** | |
| `VotesCountedAlways`, `ProposalsCountedAlways` | the counters of live votes and of active proposals are exact |
| `CommittedTokensStayAlways` | tokens leave a record with live votes, active proposals or locks only by revocation |
| `LocksAreTheirAuthoritysAlways` | an unexpired lock goes by its own authority only |
| `TallyMatchesVotesAlways` | every tally is the sum over the votes that count |
| `HoldingBacksDepositsAlways` | the holding account has what the records have deposited |
| `VotesBackedAlways` | votes ≤ deposits ≤ holding ≤ supply; *if* `OwnTokensVote` of both mints |
| `OutcomeReproducibleAlways`, `OneWinnerAlways` | the recorded tally, maximum and threshold explain the outcome; one winner; *if* `TippingSound` |
| `StrictTipIsFinalAlways` | what has not voted cannot undo a strict tip; *if* the supply is the maximum weight (`FullSupply`) and votes once |
| `CoolOffNeverHelpsAlways` | no option gains weight in the cool off time |
| **ExecutionProofs** | |
| `EachRunsOnceAlways`, `TransactionsCountedAlways`, `TimelineOrderedAlways` | execution, nested calls included |
| `LifecycleImplemented` | Execution implements ProposalLifecycle |
| **InsuranceProofs** | |
| `SharesBackedAlways`, `RequestsCoveredAlways` | stakes ≤ users' shares ≤ all shares; a request ≤ its stake |
| `NoDilutionAlways`, `CancelIsNeutralAlways` | nobody lowers the value of the others' shares; cancelling keeps the value |
| **PoolProofs** | |
| `PoolInvariant` | the inductive invariant of the pool |
| `LiquidityInRangeAlways`, `TicksMatchPositionsAlways`, `EarningsFollowRangeAlways`, `PriceMatchesTickAlways` | liquidity, ticks, earnings and price fit together |
| `SolventInvariant` | the vaults, less the protocol's fees, cover what positions are owed when nothing is rounded |
| `VaultsCoverClaimsAlways` | the vaults can pay out every position, its fees and the protocol's |
| **NormalProofs** | |
| `BalancesAddUpAlways` | both totals together are the sum of the positions |
| `FloorHoldsAlways` | withdrawals never take the deposits below what the average demands, but for what exempt users took |
| `ShortageIsDustAlways` | no call makes the vault short of more than rounding explains: less than a token per total, a unit of the debt repaid, the interest on one token |
| `CoarseTotalsAreSums` | each total is the sum of its side, *if* the token is no coarser than the interest |
| `RegistriesConsistentAlways` | numbers, counters, settings and referrers of markets and users |
| `BankruptcySoundAlways` | positions only change hands, bad debt is paid once and in order, a bankrupt account can be resolved |
| `LiquidationKeepsItsClockAlways` | a liquidation that goes on keeps its clock; no number is used twice |
| `EndsHealthyAlways` | a liquidation that ends leaves an account that meets its margin requirement, up to `Rounding` |
| `LiquidationIsPacedAlways` | what a liquidation frees, in however many calls, is due for the time since it began, up to `StepWorth` |
| `FeedIsNewestAlways` | the feed holds the newest message |
| `OraclesSoundAlways` | feed, averages, severity; *if* prices are fine (`FinePrices`) |

### The arguments

* `TypeOK` is not inductive. A handler reads accounts through other accounts (a vote record
  names a proposal, a proposal an owner), and a withdrawn vote is taken off option by option, which has a type only if
  the choices have one entry per option. `TypeInv` adds `References` (named accounts exist; approve
  choices fit the ballot) and `HoldingWithinSupply`, without which a burn could
  leave a negative supply. One lemma per group of handlers shows that it is kept. For casting and
  finalizing, `CastVoteEffect` and `FinalizeVoteEffect` say once what the step does to each variable, so
  that later proofs need not open the handlers again.
* `VotingNeedsAllSignatures`: the code compares *numbers* of signatories. `SignaturesInv` adds that those who
  signed are signatories and are finitely many, so that equal numbers are equal sets.
* `CountingInv` says that each counter is the cardinality of the set it counts and that the
  votes are finitely many. The code decrements with saturating subtraction: exactness is what
  shows that it never saturates. The delicate step is the tipping vote of a proposal's own
  owner, which changes two counters of one record in one write. `CommittedTokensStay` follows in one
  step: the guard of a withdrawal reads counters, and the counters are right.
* Sums. The induction theorems of the library take an operator as a parameter, which the provers cannot
  instantiate, but induction on *sets* of numbers or subsets needs none: `OperatorLemmas` proves from it what a sum over a finite set does when a
  term is added, removed or changed. Tallies, deposits, shares, scaled balances, gross and net liquidity and the worth of
  accounts are all handled by the same 19 lemmas. So is a spread vote (`SpreadKeepsWeightAlways`): the parts, each rounded down, are added
  up in hundredths of the weight (`PartsOfWeight`).
* `AccountInv` (for `AccountsSound`) says what is *read* of each account, whatever layout it is stored in (`DataOf`, `VotesOf`, `RequiredOf`, …), and that
  this is a proposal, vote or record that its layout can hold. A handler reads, changes and writes; `GovernanceWritten`, `RecordWritten`,
  `ProposalWritten` and `VoteWritten` say that what was written reads back the same, except for the two counters of a governance, which may be
  forgotten. Hence `CountersFit` bounds those from above and only the live votes are counted exactly. A proposal of version 1 has no place for veto votes,
  so that the invariant must say that it has none: the only handler that could add one panics. The assumption on `U32` is that the votes fit into the lower
  half of the old count. `OneProposalChanges` gives the handlers of proposals.
* `RealmInv`: the authority that the check accepted exists, and stays because governances do.
* `SupportInv` (for `VotesBacked`) is the counting invariant together with the sum of deposits, the fact that configurations in use are configured ones, and that the votes on an open
  proposal are at most the holding. A withdrawal lowers the holding, but only of a record without live votes;
  `OwnTokensVote` excludes what makes it false: membership tokens, which are revoked while they vote, and plugins, whose weights are
  not deposits.
* `ResolvedInv` (for `OutcomeReproducible`, `OneWinner`) is the outcome property with the relation between tally and recorded maximum. It
  needs the maximum to cover the votes at a strict tip. `TippingSound` asks that each mint's own tokens vote, or that the code raises
  the maximum to the votes (a plugin reports it or a supply fraction is raised), or that no config is strict. This is not a convenience:
  where it fails, the run `membership_tip` violates `OneWinner`. It holds in the runs `voting`, `ballots` and `reconfiguration`.
* `ExecutionInv` is `TypeInv`, the types and references of the transaction accounts, `EachRunsOnce`, `ApprovedInv` (only what a decision
  approved is executed), `DatesInv` and the counters. The outer handler of a nested execution writes a stale
  proposal account; the invariant must say what is *not* counted, hence "never runs ahead" instead of equality. The refinement has one lemma per
  handler: it maps to a step of ProposalLifecycle or to a stutter.
* `FundInv`: stakes lag behind the fund's base by any number of rebases, so their shares are added up at the fund's base (`Portion`, a
  quotient by a power of ten). Rounding down at each rebase of a stake is what makes users' shares an upper bound. `NoDilution` multiplies out two fractions with
  their roundings; `Portion` of a stake that follows is the same before and after.
* `SynthInv`: types and `Balanced`, that the *sum* of the two totals is exact while the deposits' total may exceed its positions: dust that changes sides is
  moved in the positions only. With a fine token nothing is dust and each total is exact.
* `FloorInv` (for `FloorHolds`). The limit lets a user below the exemption withdraw below the floor, and no counter says how much such users took. What they can still
  take says it: the `Room` of a user is what separates the position from the exemption, and a withdrawal below the floor fills as much room as it
  takes deposits. `Floored` is that the deposits and everybody's room cover the floor; the bound follows from the sum of the rooms (`SumBounded`). It is stated in scaled units, because rounding
  the deposits down at each call would lose a token each time. An average rises to at most one above the deposits it averages, and interest
  only raises both sides. The utilization limit of the same handler divides by its constant less one: the assumption `UTILIZATION_PRECISION >= 2`.
* `ShortageIsDust` is shown from `SynthInv` alone, in parts of which `PRECISION` are a token: `Owed`, the worth of the deposits less that of the debts, is the
  depositors' claim but for the rounding of two totals (`ClaimBounds`). Two things move it. Interest that lenders get is what borrowers pay, but the utilization is a
  quotient by deposits rounded *down*, so lenders may earn the interest on one token that nobody borrows (`LendersEarn`, `InterestGap`); the stakers' part is taken from the
  lenders' before it becomes a deposit (`InterestOwed`). A repayment may take a unit of scaled balance too many off the debt, which is worth `interest["Borrow"]`
  (`UpdateOwed`). A withdrawal, a transfer and a donation are compared with the vault at their end (`CoveredIsDust`); only a deposit is not (`DepositIsDust`).
  The bound is that of any settings and allows a few tokens in the instance of the run, where the shortage grows by one at most. It is per call: nothing in the
  code makes up for dust except calls that are compared with the vault.
* `PoolInv`: besides types, `TicksFit` (net and gross liquidity of each tick are sums over the positions it bounds; it is initialized if
  and only if gross is positive), `EarningsFit` (growth inside a range, modulo `WORD`, is the ghost's plus the checkpoint), `PriceFits` (price between the prices of its tick and
  the next, liquidity that of the positions in range). A swap has states of its own between two ticks, so the proof carries the same facts as `SwapFits` through
  its loop by induction on the number of steps: `NextTickEffect` shows that the search over the arrays skips no initialized tick,
  `ComputeSwapEffect` that the rounded price stays between the old price and the target. The tick may be one below the lowest only at the lowest price, so that no
  tick is crossed twice.
* `SolventInv` (for `VaultsCoverClaims`) is `PoolInv` and, for each token, that the vault less the protocol's fees covers `Debts`: what each position's liquidity is
  worth at the price, what it is owed and what it has earned since its checkpoint, with *no* rounding. Claims themselves are not inductive: a claim is rounded down, so
  two steps that each keep the sum of the claims could use up the same fraction twice. Worth is counted in parts of which `ONE * Scale` are a token; a unit of liquidity
  has `Depth` of them at a price. For the quote token this is the price. For the synthetic one it is the price's inverse, which is made a whole number by a common multiple of all prices
  (`CommonMultipleExists`), so that the proof needs no fractions. `AmountScaled` says that an amount of a swap rounded up is at least, and one rounded down at
  most, the difference of depths; `StepCovered` adds the fee; `DebtMoves` says that a step between two ticks changes each debt by its liquidity times
  that difference, if it is in range, and by the growth. `CoveredMoves` sums this over the positions, where `LiquidityInRange` turns the sum into the liquidity the code swaps against. An induction over the
  iterations (`SwapLoopCovered`) gives the swap; deposits, withdrawals and settlements change one debt and the vault (`ModifySolvent`, `SettleCovered`). Growths wrap, so a debt reads them through the ghost `earned`,
  which `EarningsFit` ties to the code's numbers.
* `MarketsInv`, `UsersInv`: the domain of the markets is `0 .. number - 1`; sub account numbers are below those created; *no set* of users refers only
  within itself (`NoCircle`), which a new referral keeps because its referee refers nobody yet.
* `AveragesInv`: averages are within three below and one above the prices seen. Each update adds a bias of one away from the
  smaller term, so that a bound by induction needs `AverageBounded`: an average at its bound is biased back or not at all. The clamp of a new price
  to the band must reach back among the prices, which needs a band of three units: `FinePrices`. Real prices have six decimals. The instance of
  TLC has prices of one or two digits and a negative one, where the theorem does not apply and the property holds all the same.
* `LiquidationInv`: the sums of bases and of worth over all accounts against what the pools have paid, the order of the payers (`InsuranceFit`), and `Resolvable`:
  a bankrupt account has no base and a negative quote. That the amounts are numbers needs the divisor of the liquidation to be positive: the insurance fee is cut so that
  it leaves margin to be freed.
* `PaceInv` (for `EndsHealthy`, `LiquidationIsPaced`) adds to `LiquidationInv` that every account is `Orderly` (its position is whole steps; only an account being
  liquidated has freed margin) and that the price is not zero. Both properties are about one account in one step (`Proper`), so each call has a lemma that says so
  for the accounts it changes. The allowances for rounding are in terms of the market's settings, not of the instance: `Rounding` is a unit for each of the two quotients of the
  requirement and the margin that one unit of base frees; `StepWorth` is four units for the quotients and the margin that two steps less two units of base free.
  `CoveredShort` is the first bound: the amount to cover a shortage is a quotient, and what an amount frees are the products its divisor was made of, less two fees rounded
  *down*. Hence covering falls short by at most one unit of base and the quotients. An account that is to leave otherwise is asked for the requirement with its
  buffer, or for the initial margin, which are both above it (`ExitMeets`, `InitialMeets`).
  `FreedDue` is the second: the share for the time passed is taken of the *amount*, rounded up to a step before (`StandardizedUpBounds`) and after (`TransferBounds`), so that two
  steps less two units may be freed too early. The clock is read from the slot at which this liquidation began: `LiquidationKeepsItsClockAlways` is
  the part without arithmetic.

### Only model-checked

* Liveness (`VotingEnds`, `VotesReleased`, `ExecutionEnds`): fairness is out of the prover's reach.
* `WideArithmeticIsExact`: long division by words is a loop over data with `RECURSIVE` helpers.

## 5. Where the code and its documentation differ

Three have a run that exhibits them:

* **A tie can pass** (`membership_tip`). With the whole supply as maximum weight the code does
  not raise it to the votes cast (`state/proposal.rs:559-568`). A membership token that has
  voted can be revoked and burned. One member votes Deny with 1, their token is revoked, the
  other votes Yes with 1: the supply is 1, nothing is left to outvote Yes, and the strict tip
  declares Succeeded at 1:1, where `proposal.rs:469-470` says a tie is Defeated.
* **A required signature can be missing** (`missing_required`). Sign off compares the number of
  signatories with the number of required ones (`process_sign_off_proposal.rs:44`). A signatory
  chosen by the owner before the requirement was configured takes the place of a required one.
* **A total is not the sum it is documented to be** (`dust`). `controller/synth_balance.rs:241` reduces a balance only if it is worth a
  token. In a token coarser than the interest a withdrawal may leave a deposit that is worth none; the next one turns the position round
  and its rest into debt (`:268-278`), while the total of deposits keeps it and that of debts lacks it. `state/synth_market.rs:147` and `:151` call the totals sums over users. The last
  borrower cannot repay everything: the total is smaller than his debt. Tokens of nine decimals or more are not affected (`CoarseTotalsAreSums`).

Others were met while modelling and are described without a run. Governance:

* With a supply fraction below 100 % (or an absolute maximum) strict tipping is not final:
  the maximum is below what may still be cast, while `state/enums.rs:190-194` says that no other
  option can win any more. (`StrictTipIsFinal` is about the whole supply.)
* A survey ends in Completed without `closed_at`, which `state/proposal.rs:211-213` describes
  as the time the proposal was closed.
* `state/token_owner_record.rs:83-84` says one outstanding proposal is allowed; the code has 10.
* When the threshold of a population is disabled during its vote, FinalizeVote fails
  (`state/governance.rs:336-361`), and the votes on it can be neither withdrawn nor pruned until
  another config is set. (`process_set_governance_config.rs:36-39` makes such changes the
  DAO's responsibility.)
* Removing the council mint leaves deposits and votes of council members unreachable;
  `process_set_realm_config.rs:68-69` notes it for the deposits.
* A transaction that executes another one of its proposal overwrites what the inner call counted (`state/proposal.rs:62`), so the proposal stays
  Executing, which `state/enums.rs:125-128` describes as waiting for the rest. If the winning option of several has no transactions and a losing one has, it stays Succeeded.
  ExecutingWithErrors (`enums.rs:139-142`) is never assigned. FinalizeVote sets `voting_completed_at` to the end of the voting time,
  so a hold-up time may be over when the vote is finalized.
* A governance of version 1 forgets its counters on every write until CreateProposal migrates it: a required signatory added to it is
  never counted (`process_add_required_signatory.rs:49`), therefore not required, and its removal panics on the checked subtraction. Version 1 proposals panic on a veto vote.
* The authority over a realm may be set, unchecked, to an address that does not exist; the create authority need not sign.

Normal:

* `u256_math.rs:559` reads past the dividend when the divisor is added back next to the carry space (only a four-word dividend and a divisor of three or four
  words). The comment at 305 says a division by zero returns zero; 314 panics.
* Insurance fund: a staker who requests everything when nobody else holds shares and cancels loses all shares; a rebase that brings a request to no shares but leaves its value makes
  it stuck; a stake behind the base cannot request before it adds; after a loss all shares can be removed only after a new request; `max_insurance` is never enforced.
* Collateral: a debt smaller than a scaled unit is rounded to none and the vault may be short by a token per call, where the doc says that it is at least deposits less borrows.
  `validate_spot_market_vault_amount` then refuses withdrawals. `get_max_withdraw`, unused, promises more than the limit allows.
* Liquidation: leaving liquidation takes precedence over bankruptcy when the shortage is covered, so that a rest of bad debt stays by rounding; the receiver of a transfer stays "being
  liquidated"; a liquidator's own status is not looked at.
* Oracles: a zero or negative price fails before it could be classified NonPositive; with tiny prices averages may drift past all prices by the bias.
* Markets: an index market's number and address come from `number_of_markets` while `number_of_index_markets` is counted, so that the last index market cannot be deleted and others can
  (comment at `delete_initialized_index_market.rs:28`); `update_status` makes an expired market active again, or an active one Initialized and so deletable; no handler sets Settlement
  or Delisted. Users: with a limit of zero the fee for an account is a multiple of the maximum; the age of an account is always counted from now, so that checks of thirteen days never bite.

## 6. What is not modelled

* More than one governance of a realm in the vote: its counters and configuration are its own; records are shared, which two proposals of one owner already exercise.
* Expiry of plugin weight records, and the option to vote with a record bound to one action.
* Abstain votes and multi choice limits other than "all options": the code rejects them.
* Account creation, rents, PDA derivation; realms and signatory records of version 1, which lose nothing; `update_program_metadata`.
* What foreign instructions of a transaction do.
* AMM: thresholds on amounts, authorities, token accounts, two of the three rewards, swaps over two pools (two swaps), and minting outside the price range,
  which calls functions the crate does not define. A swap in which growth wraps fails in the code (`controller/swap.rs:232-236`), which is a guard here.
* Collateral: margin checks, the fee's qualification and token limits are inputs. Insurance: statistics; two handlers without callers.
* Liquidation of orders, limit prices, paused operations. Oracles that are pushed, and the cache of verdicts in one transaction.
* Index mint, redeem and rebalance, `controller/vault`, `controller/vp`, `controller/schedule`, lend, unlend and borrow_and_lp: unfinished in the source
  (bodies elided, undefined types), so that what a call does is not settled.
* Stubs and clients (client I/O).

## 7. Plan

Done: all modules of section 2, their runs, the theorems of section 4. Of the properties that runs check, only those under "Only model-checked" have no
theorem: what they need is out of the provers' reach. What would extend the project next are the parts of section 6, once the source settles what they do.
