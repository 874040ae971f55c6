# TLA+ models of the Bleavit protocol

Bleavit is a futarchy-governed parachain: proposals are decided by conditional
prediction markets on a welfare metric, and their consequences are settled by
measuring that metric. The protocol's logic is in Rust: frame-free cores
(`crates/*-core`) and FRAME pallets around them (`pallets/*`), joined by the
adapters of `runtime/bleavit-runtime/src/configs.rs`. The clients are in
TypeScript: the application (`app/`), which talks to the chain through a light
client and keeps an index of its own, and the explainer (`explainer/`), which
teaches the protocol by computing with it. This directory holds TLA+ models of
both sides, the TLC configurations that check them and TLAPS proofs about them.
Paths below are relative to the repository. (The repository's own `models/tla`
is unrelated to these modules.)

`PROJECT.json` maps every definition to the source lines it translates, names
for every checked property a plausible bug of the code that breaks it, and lists
the hazards, the disagreements found and the theorems.

## Inventory

Each pallet stores state and each call runs the core on it; a call that fails
is rolled back as a whole. Nothing runs by itself except `on_initialize` of a
few pallets (guardian maintenance, meters): almost every transition waits for
somebody to crank it, which is where ordering, staleness and partial failure
come from.

| Component | State | Operations |
|---|---|---|
| conditional ledger (`conditional-ledger-core`, `pallets/conditional-ledger`) | per proposal a vault with escrow, supplies of two branches, 14 instruments; per epoch a Baseline vault; positions, totals, deposits, the mirrors `TotalEscrowed`, `DepositsHeld`, `RedemptionFeesAccrued`; freeze and split pause | split, merge, transfer, resolve, void, settle, redeem, `sweep_dust`, `reconcile`, `sweep_redemption_fees`, gates. The runtime instantiates the pallet twice (proposals; hosted questions) |
| epoch engine (`epoch-core`, `pallets/epoch`) | clock, proposals, resource locks, cohorts and their frozen schedules, archived cohorts, funded slate, stale-epoch cutoff | submit, withdraw, tick, decide, settle_cohort, void_cohort, finalize_epoch_baseline, drive_oracle_boundaries; calls of guardian and guard |
| market (`market-core`, `pallets/market`) | books, LMSR inventory, TWAP checkpoints, decision windows, seeds, sweep markers | trade, observe, seal, close, sweep revenue, reap |
| execution guard (`execution-guard-core`, `pallets/execution-guard`) | queue, ratifications, held resources, attestation bindings, pending upgrade, recovery image | execute, reject_stale, expire_failed_execution, ratify, apply_authorized_upgrade |
| guardian (`guardian-core`, `pallets/guardian`) | members and bonds, pending actions, approvals, review deadlines, active playbooks | propose, approve, ratify, renew_playbook, uphold_veto, recall, maintenance |
| oracle (`oracle-core`, `pallets/oracle`) | reporters, watchtowers, rounds, component values, reserve health | report, challenge, counter_report, recompute_proof, ack, crank_round_close, adjudicate, force-neutralization |
| welfare (`welfare-core`, `pallets/welfare`) | metric specs, snapshots, gate flags, samples | record_snapshot, record_daily_gate, compute_settlement, settle_baseline_void |
| attestor (`attestor-core`) | members, attestations, liabilities | attest, challenge, resolve, remove_for_cause, reap |
| evidence registry (`registry-core`) | filings and challenges of an epoch | file, challenge, close, resolve, close_epoch, reap |
| treasury (`futarchy-treasury-core`) | balances, rolling meters, streams, budget lines | spend, streams, issuance, sweeps, renewal |
| constitution (`constitution-core`) | parameter records, capabilities, phase flags | set_param, set_capability, set_phase_flag, amend |
| question service (`question-service-core`) | questions, reports, bonds | register, open, seal, attest, settle, void, archive |
| trading rewards, client registry, client ABI, inflow caps, origins | scores; clients and meters; counters | enroll, claim, settle; admit, top up; receive |
| keeper (`keeper/bleavit-keeper`) | off-chain snapshot and plan | submits the cranks |
| local index (`app/packages/local-index`) | an IndexedDB of finalized blocks: coverage ranges with the source that served them, event and transaction rows, undecoded blobs, chart data and its resolution, eviction records; a Web Lock shared by the tabs | boot check, ingest of a block, four rungs of the storage budget |
| chain connection (`app/packages/chain-client/src/transport.ts`) | runtimes announced with unfinalized blocks, the finalized one, whether announcements were dropped | follow events: new block, finalized, pruned |
| compatibility session (`app/src/application/src/compat-*.ts`, `boot.tsx`) | the verdict on the screen, the runtime last observed, one probe in flight, a wanted rerun, a retry timer | boot, watch, probe, retry, release-channel read |
| redemption ticket (`app/packages/protocol/src/redemption.ts`, `app/src/features/tx/src/redemption-ticket.ts`) | none: a function of chain reads | quote, fee threshold |
| explainer ledger (`explainer/src/protocol/ledger.ts`) | one taught vault of supplies | split, merge, transfer, resolve, void, settle, redeem, checkConservation |
| explainer lifecycle (`explainer/src/protocol/lifecycle.ts`) | none: the table of 26 transitions of a proposal | lookup |
| runtime, node, XCM, APIs, the rest of app and explainer, reference model, simulation, tools | wiring, rendering, tooling | - |

How they interact: market trades on the ledger with the MarketAuthority origin;
epoch creates, resolves and voids vaults; welfare settles scalars, gates and
Baselines; execution guard executes what epoch queued and reports success or
failure back; guardian delays, reruns, rejects and activates emergency playbooks
that freeze ledger and market; oracle and registry feed welfare; treasury and
insurance receive the sweeps; the keeper cranks all of it. A client follows the
chain's blocks through its connection; the session decides from the finalized
runtime whether the user may sign, the index stores what finalized blocks said, and
tickets quote what a call will pay.

What is hard, and what must hold:

* *Ledger.* Claims are redeemed in any order and in pieces, each rounded down,
  by holders who split and merged differently; fees are charged or waived. Every
  order must stay solvent and nobody may be locked in. The mirrors are updated by
  differences and never recomputed; sweeps and batched reaping run among
  everything else.
* *Freeze.* One freeze lives in four places with separate lifetimes, synchronized
  by a maintenance layer that can roll back.
* *Epoch.* Phases are stored by whichever call synchronizes first; a proposal is
  touched by tick, decide, guardian, guard and the cohort operations in any
  order, late or never; batches persist in part. Vaults, locks, cohorts and
  Baseline must not come apart.
* *Guard, attestor, oracle, registry.* Deadlines raced by late answers, retries,
  quorums counted earlier than they are used, rounds that must end.
* *Market, treasury, rewards.* Irregular observations, rolling meters at their
  limit, batched settlement.

* *Local index.* Tabs share one database, each works from a copy in memory, and any
  may be closed between two transactions; ranges are damaged, orphaned, joined,
  degraded and evicted. A claim to hold history must never outrun what is held, nor
  claim for the light client what an operator served.
* *Session.* Runtimes change on forks, several within one finality stall, while a probe
  is in flight; a lost retry leaves the user read-only for ever and a stale verdict
  lets the user sign on a runtime nobody examined.
* *Ticket and lessons.* The same payout is computed three times, in different
  arithmetic, by chain, application and explainer.

The hazards of `PROJECT.json` give the source line of each.

## Modules

| Module | Models |
|---|---|
| `RedemptionFee` | operators: payout and fee of a redemption (`redemption_fee`, `mul_score`, pair legs) |
| `ConditionalLedger` | one proposal vault, every call of the core on it |
| `BaselineVault` | one Baseline vault |
| `LedgerCustody` | the pallet: the sovereign's money, deposits, mirrors, gates, reaping and sweeps over several vaults |
| `FreezePlaybook` | PB-LEDGER-FREEZE across guardian, ledger, market and the phase flags |
| `EpochLifecycle` | the epoch engine and its pallet with the calls on ledger and welfare |
| `TaughtLifecycle` | the life of one proposal as the explainer teaches it: the abstract specification of a proposal of the epoch engine |
| `EpochTaught` | `EpochLifecycle` under the guardian's ledger of reruns, and the mapping of every proposal to `TaughtLifecycle` |
| `TaughtVault` | the vault the explainer computes with: the abstract specification of a proposal vault |
| `LedgerTaught` | `ConditionalLedger` with a history variable, and the refinement mapping to `TaughtVault` |
| `RedemptionQuote` | operators: the application's quote and threshold, the explainer's fee |
| `BaselineTicket` | `BaselineVault` with the ticket a client shows of it |
| `LocalIndex` | the application's database of history: boot check, ingest, storage budget, tabs |
| `CompatSession` | the connection's view of the runtime, and the session that classifies it |
| `ConditionalLedgerProofs`, `BaselineProofs`, `LedgerCustodyProofs`, `FreezePlaybookProofs`, `EpochLifecycleProofs`, `LocalIndexProofs`, `CompatSessionProofs` | theorems |
| `Sums` | lemmas on least elements, finite sets of integers and sums of functions, used by the proofs |
| `MC*` | constants for TLC |

`RedemptionFee` is used by both vaults, the quote and, through them, the tickets.
`LedgerTaught`, `EpochTaught` and `BaselineTicket` compose a chain component with a
client's model of it.

**ConditionalLedger, BaselineVault.** The variables are the fields of
`VaultInfo`, `BranchSupply`, positions and totals; one action per call, the
guards its `ensure!`s, in a failed call nothing changes. The operands of the fee
(rate, minimum split) are read live in the code, so they are inputs of each call.
u128 overflow is a checked error of the code and not modelled. `Rebook` is `burn`
followed by `mint`, with the position cap checked where a record opens.

**LedgerCustody.** A vault is its escrow and how many records each holder has;
what one core call may do to these is left open, the pallet's own bookkeeping
around it is exact (`Run` is `run_proposal_paid` with `settle_collateral` and
`settle_deposits`). Collateral transfers keep the sovereign alive
(`Preserved`). Reaping a book drops the records of its own protocol accounts, which
are any subset of them. Loss of custody from outside is not modelled.

**FreezePlaybook.** Deadlines count down. `Maintained` is the last layer of
`run_maintenance`, which may fail and roll back (`RollsBack`). Five approvals are
one step, taken when the fifth arrives; a renewal is enacted by a referendum at
any time.

**EpochLifecycle.** `st` is the pallet's storage. A call loads, runs the
engine and persists, or fails and leaves everything as it was, so an operation
is an operator from a state to the set of states it may leave, and `Call`
persists one of them: the cohort schedules are compared, terminal records are
dropped, the funded slate is pruned. Calls that synchronize the clock use
`Sync(st)`, the others the stored phase, as in the code. Where data only
selects an outcome (prices and grades in `decide`, static checks, budgets, the
guard's reasons to reject) the outcome is a choice; so is whether the freeze is
in force when a call asks. A record keeps one time, `due`, for the deadline of
its state. Proposals are numbered in the order screening ranks them.

**TaughtLifecycle, EpochTaught.** `TaughtLifecycle` has one action per row, or group of
rows, of `TRANSITIONS`; what a row enters and leaves in the same block (Screening,
Executed, a rejection with its vault open) is passed through, and T4's and T26's
cancellations are one action with T2's, as nothing tells them apart once the record is
gone. `EpochTaught` adds what the guardian keeps, the proposals it reran, with its
check before `delay_once` and `force_rerun` (`GuardianAdmits`; the status it asks for is
read off the epoch pallet by the runtime), and one history variable, the proposals that were
ever deferred. The mapping takes each proposal by itself: one call may move several, so the
property is about steps of each and not one instance of the taught specification. The engine
alone would not meet it: `delay_once` of the engine asks only for its own flag, so a delay
after a forced rerun is refused by the guardian's ledger alone. Three steps are no row of the table and are named in the property.
`Demoted` is the budget taking a proposal off the slate with its deferral unspent.
`DemotedAgain` is the same with the deferral spent, where
`docs/architecture/05-welfare-and-decision-engine.md:190` has the proposal cancel: it is
admitted here because the code does it, and the run `epoch_demoted_again` shows it.
`MeasurementVoided` is the void of a measured cohort, which line 214 of the same document
leaves out of the table on purpose. There the code does what the document asks: it moves the
vaults, leaves the state and the decision of every member, emits no event per proposal, and
archives the members with the cohort as they stand; in the model that is one step, at the
end of which the record is gone.

**TaughtVault, LedgerTaught.** `TaughtVault` has one action per pure function of the
explainer's ledger and the supplies it keeps; it knows no holders, fees or caps.
`LedgerTaught` maps the totals of the chain's instruments to the taught supplies,
adds one history variable (whether a redemption was paid; the explainer counts
them) and states `Taught!Spec` of the chain. The chain is the stricter of the two in one
place: the explainer's `redeemGate` burns the losing side for nothing, the chain's
`redeem_gate` has no path for it. The hypothesis `FloorsTaught`, which the MC module
assumes of its values, leaves out the market authority's splits below the floor, which
the explainer does not teach.

**RedemptionQuote, BaselineTicket.** The client's arithmetic is translated as it is
written (a ceiling of the whole product, where the chain forms it across quotient and
remainder), with its refusals: an unread value, two published forms of the rate that
disagree, a rate outside its domain, a missing or superfluous score. The bisection for
the threshold is a recursive function. Readings are of one block, which `combine`
enforces; the explainer's doubles are taken as exact. No screen calls the quote yet.

**LocalIndex.** One action per IndexedDB transaction, so a crash (`Close`) falls between
any two. `BootRead` and `BootWrite` are the two transactions of `checkIndexAtBoot`;
`IngestStart`, `WriteBlock`, `IngestEnd` are `withIngestLock` around `runIngest` over
`storeWriter`; the quota actions are the rungs of `applyQuota`. Three tiers stand for the
resolutions of the two folds. The record of evicted blobs is the set of blocks its
count stands for. `HolesIn` is the loop of `holesIn` without a span, over the ranges by
first block; those that begin together come in any one order. Nothing in the application calls the ingest loop yet: the
composition of lock, loop and boot follows their own comments.

**CompatSession.** One action per follow event, probe step, timer and channel read. A
runtime stands for the four version fields `runtimeMoved` compares. Which runtime
every block has is chosen in the initial state, with no order between the runtimes a
release supports and those it does not. The second client is at a finalized head of its
own: `Pull` examines the runtime of any block behind the connection's head, or ahead of it on any
branch (more than finality allows, which may only add behaviours). Assumed: follow events are handled in tasks of
their own. A defect of the release's own list of surfaces ends a boot in the terminal
screen (`BootFails`) and a probe of the watch without a verdict (`ProbeFails`). Lengths of backoff, the
`stop` event and the wording are left out.

## Runs

| Run | Question | Bounds |
|---|---|---|
| `conditional_ledger` | Is one vault solvent, consistent and open for exit in every order of calls, and does it implement the taught vault? | 2 holders and a protocol account, 4 units of escrow, amounts {3, 4} (a partial and a whole call), a scale of 5 with scores in the middle, at zero and above the top, one branch and one gate split further |
| `baseline_vault` | The same for a Baseline; are pair fees and waivers sound, and is the client's ticket what the chain pays? | escrow 7, amounts {1, 2, 4} on a scale of 5, two minimum splits, rates below and above one |
| `ledger_custody` | Does the sovereign cover everything, do the mirrors stay exact and are due cranks never refused? | 2 vaults, 2 holders and a protocol account, 3 records, 2 records per reap call, so reaping takes several calls |
| `freeze_playbook` | Do the copies of the freeze agree, outlive and end with their authorization? | window 3, one renewal, maintenance may fail |
| `freeze_ceiling` | Is a freeze limited to two windows? Violated | window 2 |
| `epoch_lifecycle` | Do vaults, cohorts, Baselines, locks and decisions stay together under every order and batch of calls, and does every proposal live the taught life but for three named steps? | 2 proposals, 1 resource, 12 blocks, 3 epochs of 4 blocks, horizon 1, a timelock of 3 blocks and extensions of one epoch |
| `epoch_members_join` | May a second proposal join a standing cohort? Violated | 2 proposals, epochs of 7 blocks |
| `epoch_demoted_again` | Does a proposal that has spent its deferral cancel when the budget takes it off the slate? Violated | 2 proposals, epochs of 4 blocks |
| `epoch_funded_slate` | Is the slate funded once Seed is stored? Violated | 1 proposal, epochs of 7 blocks |
| `local_index` | Does the index hold, or account for, what it claims, behind the source it names, whatever tabs, crashes and corruption do? | 2 tabs, blocks 1 to 3, two of them watched, an earlier session with a hole on both sides, 2 sources, 2 blocks written, 2 repairs or corruptions |
| `compat_session` | Is a surface open only under the label of the runtime the finalized chain is on, and does the session settle? | a branch of five blocks and a fork, 5 runtimes (unsupported, compatible, unreadable, incompatible, unsupported), 2 announcements held; 546 placements of upgrades |
| `session_lost_change` | Does the session come to the verdict of the runtime the chain stops at? Violated | the same |

Why the bounds are enough. Rounding loses at most one unit per call, so a scale
and escrow of a few units with amounts that do not divide them show every
residue pattern the arithmetic has (floor up, floor down, exact); the theorems
then say it for all. Three records with batches of two make reaping stop half
way. Windows of two or three blocks separate "before, at, after" a deadline.
In the epoch run, 12 blocks are an epoch of submission, the earliest epoch of
settlement (`K + 1` later) and its Housekeeping; proposals are late, rerun,
delayed, rolled over or stale in between, the two compete for slot, lock,
cohort and batch, and every action fires. Trade, Decide and Housekeeping share a
block there because no guard asks for Trade or Decide; the runs with epochs of 7
blocks use the offsets of the source. `horizon_k = 1` is admissible (1..2). `Intakes` bounds the
epochs with submissions, `Horizon` the clock. Symmetry is used for holders and
vaults, which no definition orders; proposals are ordered and have none.

In the index run, three blocks are enough for two ranges and the hole between them,
and for a join; two writes and two faults let a tab commit beside, before and after
another's repair. In the session run, four blocks ahead and a cap of two make
announcements overflow, a stall hold several upgrades and a fork carry one that is pruned.
A score of 2 in 5 with an amount of 4 floors both legs, which separates the client's
independent floors from a short leg taken as the remainder.

Deadlock checking is off where a bound or a finished chain ends the behaviours, or where
all tabs may be closed; the freeze model has no such bound and is checked for deadlock.

Fairness. `FreezePlaybook` assumes it of blocks (`NextBlock`) and of `Reconcile`: the
crank is open to anybody and the bundled keeper plans it
(`keeper/bleavit-keeper/src/planner.rs`); guardians, referenda and successful
maintenance are never assumed. `CompatSession` assumes that the boot proceeds, timers
fire and channel reads end (weak), and that the chain answers a pull and a probe that is
repeated for ever (strong: each may fail any number of times before). New blocks are not
assumed, nor needed: the session settles on the finalized runtime of a quiet chain.
All other models state safety only.

Explicit hypotheses appear in properties because the code does not meet the claim
without them. `CommitsExtendAlways` leaves out the commits of a run beside which a boot
check read or wrote: the check takes no lock (see below). `FinalizedSound` leaves out a
finalized runtime that was announced as invalid, and `OpenVerdictCurrent` speaks of the last
runtime the node could report. `Settles` promises that the screen stays with the chain's
runtime only of a session that never reads the release channel (see below). `Honest` speaks of claims, not of rows:
a block ingested again from an operator overwrites rows a range of the light client claims.

### What the violated runs show

* `TwoWindowsAtMost`: maintenance expires the record in a block and five
  approvals in the same block activate it again with a fresh renewal.
* `MembersJoin`: the pallet freezes the member list of a cohort when it first stores
  it and requires the same list ever after, while the engine appends members. So
  only proposals that become measured in one and the same call can share a cohort;
  the call of a later one fails until the cohort is gone.
* `DemotedOnlyOnce`: `shrink_qualified_slots` (`crates/epoch-core/src/lib.rs:938`) takes a
  proposal from Qualified back to Submitted. `docs/architecture/05-welfare-and-decision-engine.md:190`
  says that one deferred before "has already consumed its allowance and cancels". It does
  not: `qualify` drops its rollover entry (line 922), so the demotion finds none and defers
  it again, as often as the budget falls short, and whether contention or an earlier
  demotion deferred it first (`ShrinkParts` proves that a demotion never cancels).
* `FundedInSeed`: only tick records the funded slate, when tick itself enters Seed.
  When decide, settle_cohort or drive_oracle_boundaries stores Seed first, every
  tick of a qualified proposal fails for that epoch, and the pallet's own
  try_state refuses the storage.
* `FollowsUpgrades`: `startShell` shows a stranded boot verdict and awaits the release
  channel before it starts the watch (`boot.tsx:330`), and the watch takes the runtime it
  finds then as the one it has looked at (`compat-driver.ts:193`). An upgrade finalized in
  between is never classified: the old stranded verdict stays until the next one, on a
  runtime that this release may support. A late answer of the channel also paints an older
  stranded verdict over a newer verdict. Both close surfaces, never open them; but the
  documents re-run the classifier on every upgrade.

### Other observations

These are no violated runs: they were met while translating, and are a matter of a comment,
on the safe side, or outside what the models can move.

* `boot.ts` reads and writes coverage outside the lock that `ingest-lock.ts` and
  `index-quota.ts` ("Only one may write to local history at a time") ask for. A run of
  another tab in between loses its advance, or its next commit restores a range that the
  check has dropped.
* A block ingested again from an operator replaces rows that a range of the light client
  claims, against `loop-store.ts` ("a row and the range that claims its block cannot
  disagree"); a block ingested again without its metadata leaves a blob beside decoded rows.
* The boot check looks at the last block of each range: a fork that a later good block was
  joined to is not found.
* `transport.ts` ignores a new runtime of type `invalid`, so after its finalization
  `finalizedRuntime()` still names the one before, which its comment (395-397) excludes.
* The verdict is labelled with the connection's runtime and the surface is pulled over a
  second client (`compat-session.ts:207-214`: "nothing connects the two"). The runtime is read
  again after the pull, which catches an upgrade of the connection in between; when the
  second client runs ahead or behind, the label is right and what was examined is another
  runtime. `chain-client/src/compat.ts:92-95` says so of the label, and the code hash that is
  kept beside the verdict is compared with nothing. No property of the session claims more
  than the label; the model has that interleaving.
* `sweep_redemption_fees` asks for the freeze and the minimum balance and not for the
  books. After a loss of custody that no freeze has followed yet it pays the fees out of what
  backs escrow, which its comment ("moves surplus, never escrow",
  `pallets/conditional-ledger/src/lib.rs:1218`) excludes. Without such a loss `Covered` says
  that a sweep takes surplus.
* Nothing remembers that the cohort of an epoch was archived when a late decision starts
  measurement, so a second cohort of that epoch forms, which cannot settle its Baseline
  again; `docs/architecture/05-welfare-and-decision-engine.md:290` says "one cohort forms per
  epoch".
* A ticket checks the rate against its second published form and `min_split` against nothing,
  while a parameter call changes it without an upgrade.

## Proofs

TLAPS proves, for every value of the constants:

* `ConditionalLedgerProofs`: `TypeCorrect`, `AlwaysBacked`, `AlwaysSolvent`. `Solvent`
  has divisions and is not inductive: a redemption changes which pairs are left
  and how much rounding is lost. `Backed` multiplies everything out (the exact
  weight of the outstanding claims) and adds that the counters cover the legs,
  which the checked subtractions need. It is inductive with the types;
  `Solvent` follows from it by bounds on floors.
* `ConditionalLedgerProofs`, of the books: `BooksAlwaysAgree`, that every total is the sum
  of the balances and the set counters are what the totals say: each call moves one entry
  of a row, or two of them in opposite directions. With `Backed` it gives
  `ExitsAlwaysFunded`: a holder of an instrument is never refused for want of books or
  money, the guards without the ENABLED of `ExitsOpen`.
* `ConditionalLedgerProofs`, of the explainer's vault: `ChainImplementsTaught`, that every
  call of the chain's vault is a call of the taught one or a stutter (no invariant is
  needed: the chain's guards are at least the taught ones, call by call), and
  `ChainConserves`, that the taught conservation check holds of the chain, which rests on
  `AlwaysSolvent` and on the books of both branches matching the escrow until the first
  redemption.
* `BaselineProofs`: `BaselineTypeCorrect`, `BaselineAlwaysBacked`,
  `BaselineAlwaysSolvent` along the same line, and `FeesSound`: the charge, formed in two
  parts, is the exact ceiling; the net grows with the gross, so the waived payouts are an
  initial interval; and the legs of a pair are worth at most the pair.
  `BaselineBooksAlwaysAgree` is about the totals of both legs.
* `BaselineProofs`, of the tickets: `TicketsExact` and `QuotesExact`. A ceiling is determined by its bounds, so the
  three ways of writing it agree; waiver and floors then agree term by term. The explainer,
  which waives a charge of the whole payout before it looks at the floor, agrees at
  every rate as long as the floor is not zero. Above a charged payout everything is
  charged, as the net grows with the gross; so what a bisection finds in an interval is
  known in closed form, and the closed form solves the recursion of the search.
* `LedgerCustodyProofs`: `CustodyTypeCorrect`, `AlwaysCovered`. Every call moves the
  custody and one of the claims on it by the same amount. `MirrorsAlwaysAgree`: the
  pallet's counters are the sums of the rows they mirror, over every vault; and
  `CranksAlwaysPayable`, from both: no checked subtraction or minimum balance refuses a
  sweep, a reaping or an exit (the money guards of `CranksNeverRefused`).
* `FreezePlaybookProofs`: `FreezeTypeCorrect`, `GatesAlwaysAgree`, `NeverOrphaned`,
  `NeverLapses`, `RenewalAlwaysUsable`, `FrozenOnlyOnDrift`. The invariant is the
  conjunction, as each part leans on the others: a renewal is usable only because a
  new activation starts from open gates, which is so because nothing is frozen
  without a record.
* `LocalIndexProofs`: `IndexTypedAndCanonical`, `ClaimsAreHonestAndBacked`,
  `LabelsAreExact`, `CommitsExtendTheStore`. The copies in the tabs' memories are part of the
  invariant: they were read from a canonical, honest set, and only the lock's holder or
  a boot check writes one back; a range that was dropped may come back only with rows that
  are still there, because rows go only to the record that excuses them.
  `HolesAlwaysExact`: after any number of turns the loop has found the gaps of the ranges
  it took and stands behind the last of them. A set of ranges for which that fails would
  have a smallest one, and its range that begins last leaves a smaller one.
* `Sums` has no theorem of its own. A sum is a CHOOSE of a recursive function on the finite
  subsets of an index set; the recursion is shown to have exactly one solution, by a
  subset with fewest elements among those for which it fails, and from that how a sum moves
  when an entry does, and that it bounds its entries.
* `EpochLifecycleProofs`: `EpochInvariant`, and from it `EpochTypes`, `VaultsAlwaysFollow`,
  `CohortsAlwaysSound`, `NeutralStaysFinal`, `LocksAlwaysHeld`, `DecisionAlwaysMatches`;
  and the action property `SweepsAlwaysAgree`. A call works on a storage in hand and
  stores it at the end, so the invariant is one of the storage in hand, `Sound`, which
  allows terminal records that are not stored yet. It strengthens the properties where
  they are not inductive: nothing below `Trading` has a decision; a cohort's members are
  those measured in its epoch, in both directions; a neutral Baseline stays final because
  its epoch was voided, which stops whatever is submitted for it later, or is past with
  nothing pending, and nothing rolls over into the past. `Sound` is kept by every step that
  touches one proposal (`StepSound`: most calls and every item of a batch), by every call
  that takes a set of proposals out (`LeaveSound`: shrinking, settlement, void), by the
  clock, and by storing (`PersistSound`). A batch keeps what every item keeps
  (`BatchKeeps`), in any order: the first item after which it failed would be a least one.
  The same lemma gives `SweepsAgree`: under a hold a vault stays open with the hold in
  force, or is voided; the other items of the batch touch neither its record nor, while
  it can still be rejected, the stale mark.
* `EpochLifecycleProofs`, of the lives: `LedgersAlwaysAgree` and `EpochFollowsTaught`, that
  every call takes every proposal one row of the taught table further or leaves its life
  alone, for any number of proposals and any batch. The invariant `LivesInv` adds to
  `EpochInv` what the flags of a record say of its state (a rollover only in Submitted,
  suspended only when delayed) and that the ledgers agree. What an item of a batch does to its
  proposal is a row (`ScreenRow`, `OpenMarketsRow`, `RerunRow`, `ForceRejectRow`, ...), and to
  every other it shows nothing, up to the stale mark; each proposal comes once in a
  batch, so by the argument of the least item the batch as a whole is one row
  (`BatchRow`). A call adds the demotion before the batch and the storing after it
  (`SlateTurn`, `PersistTurn`), in which a terminal record becomes a gone one.
* `CompatSessionProofs`: `SessionInvariant`, and from it `SessionTypeCorrect`,
  `FinalizedAlwaysSound`, `OpenVerdictAlwaysCurrent`, for every finite or infinite tree in
  which each set of blocks has one without its parent. The recursive path function is
  shown to have a solution first, so that being on a path is an order. The connection's
  part: what is held is still pending and nothing that came after it was dropped, which is why
  one promotion is enough to trust the answer again after an overflow. The session's
  part: while a surface is open, the watch runs, what it last looked at is the label of the
  verdict and the connection's answer, and no retry is armed; so the block that moves the
  answer takes the verdict down. Nothing is assumed of what a probe examined.

Assumptions: those stated on the constants (amounts, rates and scores are naturals,
the scale and the denominator positive, finite accounts and vaults, finitely many header
sources, the index's blocks a finite interval, an earlier session's blocks apart
from each other, a block tree without cycles), and the hypothesis `FloorsTaught` of the refinement. The bounds of the runs are
constants too, so the theorems hold for every value of them.

Only model-checked: `ExitsOpen` and `CranksNeverRefused`, as ENABLED is out of the prover's
reach (their guards are the subject of `ExitsAlwaysFunded` and `CranksAlwaysPayable`), and
the liveness properties `ThawsOnceWhole` and `Settles`. Every other property of a passing run
is stated by a theorem. The types of the index and of the freeze are proved and not
checked again by their runs, whose other properties break where the types would.

## Not modelled

* In the epoch model: the dead-man pause and its recovery epoch, admission caps per
  account and in total, the intake pause, a change of the epoch length, a metric
  spec replaced between submission and screening, bonds, preimages, rebates, the
  gate-deadlock latch, market capacity refusals, and the guard's checks other than
  its timing. The guard's own queue is not a variable: what waits in it is read off the epoch's
  Queued and FailedExecuted. `AwaitingOracle` is never written by the code. Progress of the epoch is
  not claimed.
* In the ledger models: events, weights, migrations, and the overflow errors.
* Market prices: the LMSR is fixed-point transcendental arithmetic that TLC cannot
  evaluate. Numeric normalisation in welfare likewise.
* In the index: the trade tape, the candle aggregates, the contents of rows, read-side
  queries, the rebuild of a database of another chain, the eviction of metadata blobs, a
  change of the watched accounts. In the session: the Asset Hub verdict, wrong-chain
  refusals, storage reads, operations, reconnection, the pin window and the watchdog.
* The transaction machine: its production gate is closed in every release of this tree, so
  its states from signature on are not reachable in the program.
* Parsers, validators, canonical encodings, cryptographic checks, row decoders, parameter
  tables, scenes and rendering: pure functions of one input, or no state of the protocol's
  at all. They are most of the TypeScript (the scenes of the explainer alone are a large part
  of it), and no behaviour of theirs spans two steps; a model of them would restate them.
* The remaining pallets, listed in the plan; node, runtime APIs, XCM configuration, tooling.

Coverage. The map covers a small part of the 116,683 lines of TypeScript, 2 to 3 in a
hundred, and the core of the ledger, custody, freeze and epoch on the Rust side. What is
mapped is the code that keeps state over several steps or must agree with other code;
no definition claims lines it does not translate to raise the share.

## Plan

Done: ledger core, Baseline, custody, freeze, epoch lifecycle, local index, session,
redemption ticket; the taught vault and the taught life of a proposal as the abstract
specifications of ledger and epoch; the proofs above. What would add most next, in this order:

1. Execution guard with attestor and ratification gates: the queue entry through
   execute, retry, expiry and stale rejection, under a freeze that its cranks do not
   ask for; then composed with `EpochLifecycle` (the guard's queue and the epoch's Queued and
   FailedExecuted agree).
2. Oracle rounds: challenge, counter-report, adjudication and neutralization at
   half-open windows; termination under keeper fairness.
3. Market book lifecycle and revenue sweep, guardian reviews and bonds, registry,
   treasury meters, question service on the second ledger instance, rewards, client
   registry.
