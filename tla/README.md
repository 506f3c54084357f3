# ArrowHead in TLA+

A verification project for the ArrowHead MEV bot: TLA+ modules translated from
`src/bot/crates/mev-bot/src` (below: `bot/`) and `src/contracts/src`, TLC
configurations that check them on small instances, and TLAPS proofs for every
instance. This file is the inventory of the system and the account of what is
modelled, checked, proved and left out.

Contents: [system](#1-the-system) · [modules](#2-the-modules) ·
[runs](#3-the-runs) · [what disagrees](#4-where-code-and-documentation-disagree) ·
[fairness](#5-fairness) · [proofs](#6-proofs) ·
[abstractions](#7-abstractions-and-assumptions) ·
[not modelled, and what is left](#8-not-modelled-and-what-is-left) ·
[running it](#9-running-it)

## 1. The system

One process watches an Ethereum-like chain, finds opportunities, simulates them
on a fork, and, when armed, sends signed payloads to private relays (or to a
sequencer). Everything runs on one tokio runtime over one SQLite connection;
state is shared through `Arc`s with a lock per field. The last column names the
modules of section 2.

| Component | State it keeps | Operations | Interacts with | What is hard | Modules |
|---|---|---|---|---|---|
| Submission lane (`engine.rs` 1199-1260, 2122-2390), runtime mode | `submission_gate` permit; `nonce_reservations` and `bundles` rows; smoke budget | `submit_live_candidate`, `set_runtime_mode`, `apply_runtime_risk`, cancellation passes, startup recovery | inventory, risk engine, relays, store, qualification | a private payload is invisible to the node; cancellations fail half-way; crashes between reservation, send and settlement row | SubmissionLane |
| Inventory (`inventory.rs`) | next nonce, balances, `blocked_until_block` | `refresh`, `reserve_nonces`, `release_nonces`, `block_broadcast_until` | lane, block task | a refresh races reservations; release is a compare-exchange | SubmissionLane |
| Raw transport (`submission.rs`) | none of its own | `submit_raw`, `cancel_raw` | sequencer, store | a timeout says nothing about delivery; legs are sent one by one | RawSubmission |
| Risk engine (`risk.rs`) | kill switch, cumulative result, in-flight counts, envelope, toggles; `risk_state` row | `check`, `begin`/`end`, `observe`, `persist`, `reset`, `restore`, `RuntimeRisk::apply` | simulation tasks, lane, API | one lock per field and none over an operation | RiskEngine |
| Settlement (`attribution.rs` 36-231) and reorg marking (`engine.rs` 2411, `store.rs` 1133) | `bundles`, `execution_outcomes`, last head | `reconcile_own_submissions`, `detect_reorg`, `record_reorg` | node, store, block task | receipts are read at one time and used later; reorgs in between; skipped heads | Settlement |
| Evidence writer (`store.rs` 864-1040) | bounded queue, drop counter, incident mark | `send`, batching writer | every producer, qualification | full queue; failing commits; order against direct writes | AsyncStore |
| State comparisons (`state_comparisons.rs`, `engine.rs` 1574) | bounded queue of pinned samples | push, `settle` | flashblocks, block task, evidence | drained, awaited, pushed back | StateComparisons |
| Qualification (`qualification.rs`, `engine.rs` 1150-1199) | cached verdict, refresh flag | `evaluate`, `refresh_qualification` | lane, evidence tables | verdict stale when used | Qualification |
| Ingestion (`ingest.rs`), event loop and replay queue (`engine.rs` 1281-1512, 1776) | event channel, hydration ring, walk cursor, bounded replay queue, slots | feeds, pollers, `on_block`, shedding, the replay worker | strategies, attribution | everything is bounded and something must give way | BlockFlow, DeliveredBlocks |
| Attribution of delivered blocks (`attribution.rs` 233-516, `replay.rs`) | blocks, matches, comparisons, reconciliations | match, score, reconcile | evidence writer, strategies | the same block makes the evidence it is judged by | Matching |
| Flashblocks (`flashblocks.rs`) | parser index, dedupe window, tracker, pins | parse, `observe_frame`, `observe_sealed`, `check_pin` | state comparisons, lane | duplicates, gaps, reordering | Flashblocks |
| CoW trading (`cow_trade.rs`, `cow*.rs`) | tracked orders, caps, `cow_orders` rows | place, poll, cancel | remote order book, API, risk | late or lost answers; cancel against fill | CowTrader |
| Simulation (`sim/*.rs`, `engine.rs` consider) | two anvil forks behind locks, risk's in-flight count | reset, prepare, snapshot, execute, mine, measure, roll back | node, provider | futures dropped at a timeout; a fork left dirty | Simulation |
| Pool discovery (`strategies/discovery.rs`) | cursor, accepted, rejected and dust sets | one pass per cooldown | node | cursors over failed scans and forks | Discovery |
| Liquidations (`strategies/liquidation*.rs`, `leads.rs`, `oracle_frontrun.rs`) | watch list, log cursor, leads | harvest, health, publish | node | overlapping ticks; a capped list | Liquidations |
| Routing (`dex.rs`, `dex/*.rs`, `strategies/arb.rs`, `sandwich*.rs`) | none | cycles, sizing, calls | engine | rounding, a pool met twice | Routing |
| Alerts (`alerts.rs`) | active set, history ring, watermarks | signals, rules, evaluate | every counter | firing and resolving once | Alerts |
| `MevExecutor.sol` | owner, searchers, baselines, transient guards | `execute`, `flashExecute`, callbacks, audits | bundles | a settlement over two transactions, re-entry, flash loans | Executor |
| Fee router, configuration, API views, dashboard, encoding and signing | views, keys | plumbing | all | — | section 8 |

What makes each correct, in a sentence: the lane never has two payloads on the
wire with one nonce, and always knows what is on the wire; pause and trip are
final; the risk engine's counters and its durable row follow its memory; a
settlement verdict is the truth about the canonical chain and stays so; evidence
that was lost disqualifies, and evidence of a block was decided before the
block was known; samples, frames, blocks and orders are taken once, in order,
within their bounds; a fork shows one candidate the state it was found in; no
pool and no borrower falls between two scans; a plan pays what it says; the
contract keeps the profit it promised. `PROJECT.json` lists the hazards at
their lines, each with the properties about it.

## 2. The modules

Every action is one stretch of code between two awaits (or two locks), with the
calls it makes; a comment names the function where the TLA+ name does not.

### The lane and what decides about it

**SubmissionLane**: the relay mode of the lane.

| TLA+ | Code |
|---|---|
| `status`, `row`, `smokeUsed` | `nonce_reservations.status`, submitted `bundles` rows, `risk_state.live_smoke_used` |
| `nonce`, `blockedUntil`, `head` | `Inventory.nonce`, `Inventory.blocked_until_block`, `ctx.head()` |
| `runtimeLive`, `tripped`, `cancelPending`, `passed` | `LiveMode.runtime`, kill switch, the task a trip spawns, cached verdict |
| `lane`, `work` | holder of `submission_gate`, reservations a pass has left |
| `pc[b]`, `simNonce[b]` | where the task of candidate b awaits; the nonce it was simulated with |
| `held`, `landed`, `height`, `chainNonce` | relays and chain (environment) |

A candidate goes through `Consider`, `SimulatedProfit`/`SimulatedLoss`,
`EnterLane`, `ReserveNonces`, `ExactResim`, `Recheck`, `PersistReservation`,
`FinalPinCheck`, `SmokeGate`, `RelayReceives`, `SubmitReturns`,
`CancelRejected`, `RecordBundle`. `PauseMode`, `ResumeMode`,
`ApplyRuntimeRisk`, `ResetRisk`, `TripCancels`, `CancelNext` and `CancelDone`
are the operator's calls and the cancellation pass they start; `OnBlock`,
`RefreshQualification` and `Reconcile` the other tasks that touch the same
state; `Crash`, `Boot`, `BootRecover`, `BootDone` the process's life.

**RawSubmission**: the same lane on a sequencer. `ReserveRaw`, `SendLeg` (leg by
leg; an answer may be lost and the leg arrive later, `LateArrival`),
`SubmitEnds`, `Cancel` (over the legs the stored payload names, `StoredLegs`),
`CancelActive`, `RawRestart`; `pool` is the sequencer's, where a leg stays
until it is mined or replaced.

**RiskEngine**: `risk.rs`, one action per lock. A check reads the limits
(`CheckLimits`) and then the toggles and counters (`CheckRest`); `Begin` and
`SimulationEnds` bracket the simulation; `Observe` adds the result and may trip;
a persist reads the flag (`PersistFlag`), the total (`PersistCum`) and writes
the row (`PersistWrite`); a reset clears the flag, the total, and persists; a
patch clones, validates, and writes limits and toggles in two steps under the
lane's gate (`TakeGate`).

How they fit: `SubmissionLane.Reconcile` is the effect of a Settlement verdict
on a reservation, over-approximated (any bundle at its finality depth may be
retired); `SubmissionLane.tripped` moves as `RiskEngine.tripped`, its durable
row replaced by an arbitrary value at boot; `SubmissionLane.passed` is
`Qualification.verdict.pass`, arbitrary at every refresh; the gate of
`RiskEngine.TakeGate` is the lane's permit; `CowTrader.cowArmed` is live mode
without a trip, arbitrary.

### Settlement and evidence

**Settlement**: bundles of `Legs` transactions (some of them victims, which may
land on their own) against a chain that grows and reorganises. `OnBlock` is the
part of `Engine::on_block` that detects and marks a reorg and starts a pass;
`ListBundles`, `FetchReceipts`, `SettleBundle`, `AskCanonical`, `Canonical`,
`ReconcileDone` are the pass, one action per awaited call or written row.
`chain[n].id` is a block hash, `got` the receipts a pass has read.

**AsyncStore** is the write queue of `store.rs`: `Send` puts a row on the bounded
channel or sheds it, counts it and marks the incident (`Drop`); the writer
drains a batch (`TakeBatch`), commits what can be written (`Commit`) and turns
the mark into a row of `qualification_incidents` (`NoteIncident`), holding the
connection over the last two. Two modules extend it, each with its own
producers and readers.

**StateComparisons**: `Capture` pushes a sample into the backlog; `OnHead` is the
part of `on_block` that marks a reorg and spawns a settle pass, `EndHead` the
part after the awaited refreshes; `TakePending`, `Requote`, `SettleNext` (keep,
expire or record) and `EndPass` are the pass; `Restart` forgets all of it. A route
is quoted hop by hop, one awaited call each: `Requote` is one of these calls and
`Record` the send after the last, so heads, marks and reorganisations come in
between. `quoted` collects the blocks that answered, and a row carries them (`ids`):
it is on the chain if the canonical block of its height answered every call.
`marked` are the rows with `canonical = 0`. `unreached` (history) holds the samples
whose row a mark could not reach, being measured, in flight, at a height the heads
do not show or under a failed update (`Unreached`).

**Qualification**: the evaluation of the gate read by read (`ReadHours`,
`ReadIncidents`, `ReadCounters`, `Publish`, `ClearFlag`), the refresh on each
head (`CheckDue`, `SwapFlag`, `Stamp`), the operator's change (`StoreHours`,
`ForceRefresh`) and the boot. What evidence there is is an arbitrary outcome;
`known` (history) says whether a loss was known when the evaluation began.

**Matching**: `on_relay_block` as the gate sees it. Opportunities are decided
live (`Propose`), written through the queue row by row (`WriteRow`), matched
when their block is delivered (`DeliverBlock`, `MatchVictim`, `MatchAtomicArb`),
joined by those the scoring makes of the block itself (`StartScoring`,
`EndScoring`) and reconciled (`Reconcile`). `oppRows`, `simRows`, `blockTxs`,
`compared`, `matches`, `positives` are tables.

### From the chain to a plan

**BlockFlow**: the sources of `ingest.rs` with what each is about to send
(`hand`), the one bounded channel, `run`'s loop with what it awaits itself
(`onBlock`), evaluation slots, the bounded replay queue and its worker step by
step. `PollHead`/`WalkBlock` is `spawn_chain_blocks`, `PollTraces`/
`FetchDelivered` `spawn_relay_blocks`, `HashStreamed`/`HydrateBatch`
`spawn_pending`. **DeliveredBlocks** is what this pipeline promises (each block of
the feed once and in order, scored, waiting, or known to be missed); BlockFlow
instantiates it with a refinement mapping over queue, channel and the poller's
hand, and `BlocksAreAccountedFor` is the abstract specification.

**Flashblocks**: the sequencer builds frames (`NextFrame`, `NextBlock`, `Rebuild`),
some without a link to the frame before (`NoLink`: missing, or not to be parsed),
and `Deliver` hands any of them, at any time and any number of times, to
`Parse` (dedupe window, gap detection, eviction) and `Track`; `ObserveSealed`
grades a block's frames against the canonical block; `PinIsCurrent` is
`check_pin`.

**Simulation**: `Consider` with the gates of the engine; a fork is `pinned` to a
block, has the executor (`code`), and may hold transactions (`pooled`) or a
block (`extra`) that are not the chain's. `TakeFork`, `ResetFork`,
`ResetReturns`, `StatePrepared`, `Snapshot`, `SendPayload`, `MinePayload`,
`ReadResult`, `RevertFork` are the RPC calls of `sim/anvil.rs` in order,
`CallFails` and `InnerFails` their failures, `TimesOut` the dropped future.

**Discovery**: one pass (`DiscoveryPass`) with its chunks of logs, cursor, dust
re-checks and metadata reads against a chain that grows and forks.
**Liquidations**: ticks that overlap, each going through `ReadCursor`, the
harvest (`Harvest`, `HarvestSome`, `HarvestFails`), `SnapWatched`, the health of
its protocol (`AaveHealth`, `CompoundHealth`, `MakerHealth`, `MorphoHealth`) and
`Publish`; `protocol` says which of the four a behaviour is about.

**Routing**: integer output amounts, the ternary search of a cycle's input, the
enumeration of cycles within the quote budget, back-runs and sandwiches of a
victim's swap, and the calls built of them, over the pool states of MCRouting.
**Alerts**: the loop's observations, the evaluator's reads one by one, and a pass
(`Evaluate`) over every rule.

### Orders and the contract

**CowTrader**: the API's tasks and the engine's task (`Trader`) against the order
book and the rows. `Post`, `Placed`, `PlaceFails` are a placement under
`op_lock`; `SendDelete`, `CancelReturns`, `CancelsDone` a cancellation; `Tick`,
`PollNext`, `StatusAnswered`, `Fold`, `WriteStatus`, `PollDone` a tick with its
polls and its pegs.

**Executor**: `MevExecutor.sol`. One transaction runs at a time (`call`), from
`Execute` or `FlashExecute` through `BatchCall`, `MintCallback`,
`ReceiveFlashLoan` and `RepayLoan` to `Opened`, `Settle` or `Revert`; a
settlement may be split into an opener and a closer of one block (`baselines`).
`_settle` is two steps when a bribe is due: `PayBribe` reads the balance and pays
(`_settle` calls the recipient with all its gas), `Settle` checks what was read.
In between the step is `"paying"`, and a pool that is armed may still pull what
it is owed (`MintCallback`, which no lock holds back); `call.pulled` (history)
remembers of which tokens.

### Modules for TLC

`MCSubmissionLane`, `MCRiskEngine`, `MCSettlement`, `MCStateComparisons` and
`MCQualification` instantiate one component each. `MCServices` and `MCParts`
put components that share no state into one run: the variable `part` is chosen
in the initial state, only the actions of that part are enabled, and the others
stay as they began. A behaviour is thus one of one component, and the state
space is the sum of theirs and not their product. The properties are those of
the components, unchanged; `PartsTypeOK` collects the type invariants of the parts of
`parts`, and those of `services` are proved (`CowTypesHold`, `FlowTypesHold`).

## 3. The runs

| Run | Instance | Shows |
|---|---|---|
| `lane_safety` | 2 candidates, 2 relays, smoke budget 1, 3 blocks, database writes may fail, crashes unbounded | `NoncesNeverReused`, `LivePayloadIsRecoverable`, `PausedIsQuiet`, `TripIsQuiet`, `SmokeBudgetHolds`, `SentNonceIsFresh` |
| `lane_liveness` | 2 candidates, 1 relay, fair | `TripCancelsEverything`, `QueuedCandidateIsServed` |
| `risk_safety` | 3 tasks, 2 patches, results of +1 or -1 and a drawdown limit of 1, cap 2, failing reads and writes, crashes | `InflightIsBalanced`, `PatchesAreNotLost`, `RecheckIsUnmixed`, `RowMatchesSwitch` |
| `settle_safety` | 1 bundle of a victim and a leg of ours, reorgs up to 2 deep, finality depth 2, 5 blocks, 7 block identities, 1 restart, failing writes | `VerdictIsRight`, `OutcomesAreCanonical`, `VerdictIsFinal` |
| `settle_liveness` | 2 bundles, 1 per pass, finality depth 1, reorgs 1 deep, 4 blocks, failing receipts and hash checks, fair | `EveryBundleIsSettled` |
| `comparisons_safety` | 2 samples, backlog, queue and batch of 1, age limit 0 (the limit of 1 is never passed within 3 blocks), reorgs up to 2 deep, 3 blocks, 4 block identities, routes of any number of calls, failing calls and writes, restarts unbounded | `SamplesAreConserved`, `EvidenceIsOnChain` |
| `qualification` | 2 thresholds, queue and batch of 1, failing rows, commits and incident inserts, restarts unbounded, fair | `PassIsInformed`, `ThresholdIsNotLost`, `DropIsNoted`, `ThresholdTakesEffect` |
| `services` | CoW: 2 orders, one API task and the engine's, cap 1, failing posts, polls and deletes, restarts. Flow: 3 blocks, channel of 2, replay queue of 1, one slot, every feed, failing fetches; fair | `LiveOrderIsTracked`, `PegsAreCapped`, `TripClosesOrders`; `BlocksAreAccountedFor` (the refinement), `IngestionKeepsUp` |
| `parts` | nine parts, below | one property of each or more, types |
| `comparisons_label`, `sim_timeout`, `sandwich_back` | one sample; two candidates and two blocks; the pools of `parts` | counterexamples, section 4 |

| Part of `parts` | Instance | Property |
|---|---|---|
| raw | 2 payloads of 2 legs, 4 blocks, lost answers, crashes | `RawNonceIsUsedOnce` |
| flash | 3 blocks of up to 2 frames, one payload replaced or one link missing, dedupe window of 1 block and tracker of 2 | `NothingEmittedTwice`, `LossIsCounted`, `ExpiredPinStaysExpired` |
| executor | 2 tokens, up to 2 units held, two calls per batch (one arms a pool, one lets it pull), 2 blocks, profits of 0 and 1, a bribe of half | `SettlementKeepsItsProfit` |
| simulation | 2 candidates, 3 blocks, re-fork every 2, every step may fail or time out | `MeasuredOnItsState` |
| discovery | 1 pool, 5 blocks, forks 2 deep, chunks of 3, failing scans and reads | `CreationsAreJudged` |
| liquidations | 2 borrowers, 2 ticks at once, a list of 1, 2 blocks, failing logs, ilks and polls | `ActiveAccountsAreWatched` |
| alerts | 4 moments, a history of 2, two of the moving signals at a time | `AlertsTellTheTruth` |
| matching | 2 blocks, live and replayed opportunities with and without victim, failing receipts and block rows, restarts | `BlockEvidenceIsForesight` |
| routing | 6 pools over 3 tokens, 6 pool states (one pool off the price, or nearly empty), fees of 4% where they must bite (Aerodrome and V3), victims of 2 sizes and 3 minima, a quote that fails | `CyclesPayOnce`, `SandwichesGoThrough` |

Why the bounds are enough. The lane's properties relate a payload to one other
payload, one relay that acknowledges to one that does not, one block that is
the target to the next: two of each and a chain that passes both targets reach
every pair of steps, and the proofs of section 6 remove the bound. A risk race
needs an observer, a second observer and a reset; three tasks and a cap of two
make the cap bite. A settlement verdict depends on a reorg between the reading
of the receipts and the last check and on heads that jump or rewind, which need
a reorg depth of two and a chain of target + depth + 1; crashes are bounded
there (`MaxCrashes`), since a restart forgets one head and one pass and a second
one adds nothing. Losing a sample takes one that the pass holds and one that
arrives meanwhile; a mark that misses a row takes a row in flight, a skipped
head or a reorg two deep, hence two samples and three blocks; four identities are a
reorganisation of each kind, one while a route is being quoted included.
A queue of one is full at once, and the rows of a batch are written or lost one
by one, so a longer batch adds nothing. An order is lost by a cancellation or a
poll that overlaps one other, and the cap bites at one. A block can be passed,
dropped or reordered only against a neighbour, so three blocks, a queue that is
full after one and a channel that is full after two give every case. A frame is
judged against the last one and the window, so three blocks pass a window of
one; re-forking every two blocks makes a fork both stale and fresh within three;
a scan that fails, its retry and a fork across the cursor fit in five blocks. A
list of one borrower evicts the other. Two legs show a gap between the first and
the second; a block of its own for each payload lets a target pass. Routing's
pool states differ by which pool is off the price, and amounts up to 25 are
enough for a cycle to gain, to break even and to lose by rounding. At 4% the fee
of a V3 pool takes a unit of every such amount, so that a fee of the sum and the
fees of the parts differ; a pool with two units of WETH makes a back leg that
names nothing. A pool has to be armed by one call of a batch before it can pull in
the next or while the bribe is paid, hence two calls. Symmetry is
used where a run has no liveness property.

Deadlock is checked in every run but `parts` and `sim_timeout`, whose parts
come to an end (a chain that has reached its last block, candidates that are
done).

Each property of a passing run has a mutant of the code's model that breaks
it (`Mutant...` operators, next to what they mutate): a release without its
compare-exchange, a recovery that forgets a status, a dropped recheck, a patch
without the gate, a verdict at the target instead of at finality, a walk that
stands still, a scan without its overlap, a cursor that is moved past a failed
scan, a fork that is reset for newer blocks only, a dedupe window that is one
short.

## 4. Where code and documentation disagree

Three are runs that TLC ends with a counterexample; `PROJECT.json` quotes the lines.

1. `comparisons_label`: samples are recorded under the strategy "arb" and counted
   under "atomic_arb" (`state_comparisons.rs` 157, `store.rs` 2209, `types.rs`
   320), so the independent evidence of the sequencer backend is never counted.
2. `sim_timeout`: "Always roll the fork back, even if the simulation blew up"
   (`sim/anvil.rs` 567), but a simulation that outlasts its timeout is dropped
   before its `evm_revert` (`sim/mod.rs` 122, 165), and the next one runs on
   what it left.
3. `sandwich_back`: the back-run leg of a V2 sandwich is built on the pool as it
   was before the front-run and the victim (`strategies/sandwich.rs` 112,
   150-186), and so gives back less than `back_out` says (`dex.rs` 549).

More that no run shows, most a bound or a fault away from one:

*Lane, risk and transport*
- Startup recovery reads an unreadable reservation table as an empty one
  (`engine.rs` 1005), so a nonce on the wire can be signed again: the theorems
  of section 6 assume that reservations can be read.
- After a submission whose cancellation was not acknowledged the range is never
  given back, not even after its target; later payloads are signed above the
  hole until a restart (`engine.rs` 2384).
- A reset overlapping a trip may write its older reading last: the bot is
  tripped and its durable row is not (`risk.rs` 381, `docs/RISK.md` 211).
- The cumulative result is written only by a trip or a reset (`risk.rs` 362).
- The nonce re-read before a reservation is best effort (`engine.rs` 2194), while
  `docs/SIM_TO_LIVE.md` 238 says a stale nonce cannot be signed: with "rpc"
  among the faults of `lane_safety`, `SentNonceIsFresh` fails.
- `risk.rs` 121 calls a patch atomic; limits and toggles are two writes, and a
  first check (not the one in the lane, `RecheckIsUnmixed`) may see one without
  the other. The in-flight cap of `docs/RISK.md` 104 is checked and taken in two
  steps and can be exceeded.
- `bundle_raw_txs` looks for "txs" in a stored array (`store.rs` 1768,
  `submission.rs` 335-338): a raw cancellation finds no legs and replaces none.
  RawSubmission has it so; the lane is shut instead, and legs outlive their target.
- An `eth_sendBundle` that is delivered after its cancellation was acknowledged
  revives the payload (`submission.rs` 174).

*Settlement and evidence*
- A failed receipt batch reads as "not mined"; at finality an included bundle is
  settled as not included and never revisited (`attribution.rs` 540 against 33
  and `docs/SIM_TO_LIVE.md` 259): `VerdictIsRight` needs calls that succeed.
- A reorg gives the reservation of an unsettled bundle the status "reorged",
  which startup recovery does not list (`store.rs` 1172, 1645).
- `detect_reorg` sees one block of a deeper reorg, or none when heads are
  skipped. Verdicts are right all the same, because receipts are read again at
  finality; state comparisons have no second reading, and `EvidenceIsOnChain`
  holds but for the rows so missed, those being quoted or in flight when their block
  is marked, and those of a failed update.
- An incident count that cannot be read is none (`qualification.rs` 113): with
  "read" among the faults of `qualification`, `PassIsInformed` fails. A row or
  commit that fails is only logged (`store.rs` 908-914), while
  `qualification.rs` 5 asks for lossless persistence.
- The settle pass puts samples back without a look at the bound of the backlog.
- A relay that lists old blocks has them scored again after a restart
  (`ingest.rs` 830-832 says otherwise; with `Relisted` TRUE,
  `BlockEvidenceIsForesight` fails): an opportunity made by the first scoring is
  then matched as if it had been a forecast, and its comparison is inserted twice,
  for `block_comparisons` has no unique key and no canonical flag.
- An opportunity whose row was lost counts as one without victims, and its
  simulation as true; what reconciliation reads may still be in the queue.

*Feeds, strategies and the rest*
- "Catch up over any missed blocks" (`ingest.rs` 837): a block whose fetch fails
  is skipped and counted, one that is answered with null is skipped uncounted
  (with "null" among `FlowFaults`, `BlocksAreAccountedFor` fails).
- The replay queue drops the newest block; `engine.rs` 1442 says the oldest.
  `REPLAY_LANES` above one is never used. "A slow block never leaves orphaned
  work" (`engine.rs` 1690), yet ticks of two heads overlap.
- `flashblocks.rs` 584-592: frames never match a sealed block whose hash covers a
  deposit the feed does not carry, so a lossless feed is graded as lossy.
- A frame whose link is missing or does not parse is taken to follow (`flashblocks.rs`
  461-464, 470-473), though the comment above (435-440) counts everything but the two
  linked steps as a gap: frames lost at the end of the block before are then not
  counted. `LossIsCounted` excepts such a tail (`UnlinkedTail`), and nothing else.
- `build_leg` (`strategies/sandwich.rs` 150-186) accepts a back leg whose output rounds to
  0; a pair refuses it, so the simulation of such a bundle reverts.
- Discovery re-examines a dust pair only when its creation log is scanned again
  (`discovery.rs` 66-69), and retries a failed read only within the overlap.
- "Stale leads age out" (`leads.rs` 15-17): a protocol with nobody in the band
  returns before it publishes, and an older tick may publish last.
- Maker's states are indexed by the place in the table though failed ilks are
  left out; a failed harvest of one ilk is swallowed (`liquidation_maker.rs`).
- A failed `aggregator()` call drops a price feed until the next refresh.
- Alerts: `head_stalled` never fires before a first head; a trip that is reset
  between two evaluations is never told; `conversion_collapsed` is one alert for
  all strategies, and a second one that collapses does not fire.
- After `evm_revert` its answer is ignored; `prepare_state` failing after the
  fork's block was noted leaves a fork without the executor.
- A CoW `DELETE` that failed is never tried again, and orders of an earlier
  process are not loaded at boot: `LiveOrderIsTracked` excepts both (`lostTrack`).
- Back-runs assume that the victim trades on the first venue and ignore its
  minimum; V3 books are quoted at WETH sizes in both directions.

## 5. Fairness

`SubmissionLane.Fairness`: weak fairness for a running candidate and for a
cancellation pass, since every awaited call has a timeout of 20 s
(`rpc.rs` 85), and strong fairness for entering the lane, since tokio's
semaphore serves waiters in order. Nothing is assumed of heads, operators,
crashes, relays or the chain. `Settlement.FairSpec`: weak fairness for the
pass (its calls time out), for heads (`OnBlock`) and for the growth of the
chain, without which nothing becomes final. `Qualification.Fairness`:
weak fairness for the writer thread, the evaluation, the operator's second store
and the work of a head, and that heads keep coming (`Produce`, `CheckDue`);
strong fairness for the evaluation's reads of the connection, since
`parking_lot` mutexes are eventually fair, and for a successful incident insert,
that is, the disk does not fail for ever. `MCServices.CowFairness`: weak fairness
for each task's steps (calls to the order book time out), strong fairness for
the trader's turn at `op_lock`, which tokio's mutex grants in order, and that a
book which has heard a `DELETE` acts on it; `FlowFairness`: weak fairness for the
event loop and nothing else, neither for evaluations, nor for the worker, nor
for the sources. The other modules have no liveness property: their operations
end by themselves, or what they wait for is not theirs to bring about.

## 6. Proofs

Eight modules hold the proofs (tlapm 1.4.5: SMT, Zenon, LS4), three of them for
several components whose modules share no name:

| Module | Components |
|---|---|
| SubmissionLaneProofs, RiskEngineProofs, QualificationProofs, SettlementProofs, StateComparisonsProofs | one each |
| ExecutionProofs | RawSubmission, Simulation, Executor, Routing |
| ObservationProofs | Discovery, Liquidations, Matching, Flashblocks, Alerts |
| ServicesProofs | CowTrader, and BlockFlow as an implementation of DeliveredBlocks |

Each is laid out in one way: the parts of the inductive invariant with what they
are for, lemmas about the operators, one lemma per action, the step, the theorem.

`SubmissionLaneProofs` proves, for every set of candidates and relays, any leg
counts, depths and budgets:

| Theorem | Assumes | Says |
|---|---|---|
| `TypeCorrect` | constants only | `[]TypeOK`, under all faults |
| `Invariance` | reservations can be read (`"db_read"` not a fault) | `[]IInv` |
| `NonceSafety`, `Recoverability`, `PauseSafety`, `TripSafety` | the same | the four safety invariants |
| `SmokeSafety` | constants only | the smoke budget, under all faults |
| `NonceFreshness` | neither `"db_read"` nor `"rpc"` a fault | `SentNonceIsFresh`, an action property |

Neither assumption can be dropped: section 4 says how each fails.

The argument. `NoncesNeverReused` alone is not inductive: whether two payloads
collide is decided when the second takes its range, long before it is sent, and
between the two the inventory may move. `IInv` therefore says more, in named parts:

- `PermitInv`: one task holds the permit, and in live mode only;
- `WireInv`: what relays hold is not stale, and whose task is past the send;
- `DurableInv`: whatever is or may next be on the wire (`Exposed`) has an active row;
- `CoverInv`, the heart: outside a cancellation pass every exposed payload lies
  below the next nonce or blocks broadcasting; during one, every payload not
  still in the pass's list blocks broadcasting; and the permit's holder has
  every other exposed payload below its own range, which is what survives a
  later rise of `blockedUntil`;
- `DisjointInv`: exposed payloads have ordered, disjoint ranges;
- `PausedInv`, `TripInv`: the two properties over exposed rather than live payloads.

The step lemmas go action by action (`CandidatePreserves`, `OperatorPreserves`,
`ProcessPreserves`, `EnvironmentPreserves`). `SmokeSafety` rests on counting
with `FiniteSetTheorems`; `NonceFreshness` on an invariant of its own: between
reservation and send the range stays at or above the chain's count, as every payload
that could raise the count lies below it.

`RiskEngineProofs` proves, from `ConstantsAssumption` alone (finitely many tasks,
any patches, limits and results, failing reads and writes, crashes):

| Theorem | Says |
|---|---|
| `TypeCorrect`, `Invariance` | `[]TypeOK`, `[]IInv` |
| `CounterIsBalanced` | `[]InflightIsBalanced` |
| `PatchesStay`, `RecheckSeesOneEnvelope` | `[]PatchesAreNotLost`, `[]RecheckIsUnmixed` |
| `RowFollowsSwitch` | `[]RowMatchesSwitch` |

The argument. The four properties lean on each other's control, so `IInv` joins:
`GateInv` (the gate has one holder, exactly a task in the lane or a patch between
clone and finish); `EnvelopeInv` (limits and toggles differ only between the two
writes of a patch, whose clone is then the newest envelope: with `GateInv` no
second clone can be older, and no recheck can see the difference); `RowInv`
(while nothing excuses it, a running reset has the switch off and no trip in
flight, and a trip in flight has it on, so whoever writes the row last writes
what the switch is); `DownInv` (a process that is down runs nothing, so a boot
reads the row of nobody). `InflightIsBalanced` is a count: `BalanceStep` adds or
removes one element of the finite set of running simulations.

`QualificationProofs` proves, for any capacity, batch size and set of thresholds:

| Theorem | Assumes | Says |
|---|---|---|
| `TypeCorrect` | constants only | `[]TypeOK`, with the bounds of queue and batch |
| `Invariance`, `PassSafety` | incidents can be read | `[]IInv`, `[]PassIsInformed` |
| `ThresholdSafety` | constants only | `[]ThresholdIsNotLost` |

The argument. A verdict is put together over several reads, so `InformedInv`
says at each of them what is still to be seen of a known loss: counter or
incident before the incidents are read, the counter after they were read as
none, nothing after both; it rests on `LossStaysKnown`, that within a process
both only grow. `ThresholdInv` follows the threshold through the evaluation:
while the stamp is fresh and no change is under way, what is being built or was
published is for the threshold in force; `FlagInv` excludes a second evaluation.

`SettlementProofs` proves, for any bundles, victims and limit, and any depths that satisfy `ConstantsAssumption`:

| Theorem | Assumes | Says |
|---|---|---|
| `SettlementInvariance` | constants only | `[]IInv`, with failing calls and writes |
| `OutcomesStayCanonical` | constants only | `[]OutcomesAreCanonical` |
| `VerdictsAreFinal` | constants only | `VerdictIsFinal`, an action property |
| `VerdictInvariance`, `VerdictsAreRight` | `NodeAnswers` | `[]VInv`, `[]VerdictIsRight` |

`NodeAnswers` says that no call fails and that a bundle has a transaction of our
own. Without the first a failed batch makes a false "not included" (section 4);
without the second victims alone are the whole bundle, and land when they like.

The argument. What is `MaxReorg` below the highest tip is fixed, and
`SettledInChain` says it is there, although the chain may for a while be shorter
than its highest tip (`ChainInv` bounds by how much). `ReceiptInv`: a receipt
tells the truth as long as its block is canonical, for identities are never used
again. So the last hash check, made when the first head of the pass was already
`FinalityDepth` above the block, puts the whole bundle into a block that is fixed
(`InclusionInv`), and no later state can differ. `VerdictIsFinal` needs one more:
that block is below the head processed last, so no head that jumps, rewinds or
replaces its predecessor shows it as discarded (`ShownIsYoung`), and a pass holds
in its list only rows without verdict, each once (`PassInv`). For a "no" the proof
is about what is *not* there: `Receipted` (of a block the pass may judge, every leg
of a listed bundle has its receipt) and `Standing` (such a receipt stays true)
survive whatever happens to the chain while the pass awaits, and with
`ConstantsAssumption` every block in which a leg of ours could still land is one
of those (`MissingIsMissed`). `Standing` also shows that without failing calls
the state "finalized_noncanonical" is unreachable.

`StateComparisonsProofs` proves, from the constants' assumptions alone (any samples,
capacities, depths and chain, failing calls, failing writes, restarts):

| Theorem | Says |
|---|---|
| `ComparisonsTypes` | `[]TypeOK`, with the bounds of queue and batch |
| `ComparisonsConserved` | `[]SamplesAreConserved` |
| `ComparisonsEvidence` | `[]EvidenceIsOnChain` |

The argument. `Conserved` puts every sample in exactly one of eight places, or in
none before it is captured; it needs that no sequence holds a sample twice
(`OnceInv`), that what the writer is still to commit is new to the table
(`WriterInv`), and that a pass which is not settling holds nothing (`PassInv`).
`EvidenceInv` adds to the property what becomes of a row while the chain is ahead of
the last head: a row that left the chain lies above that head, or the head itself was
discarded, so the next head shows the reorg, or the row is one that no mark reaches.
It says the same of the row that the pass is measuring (`InHand`), whose calls may be
answered by different blocks of one height.
`BlockRowAssumption` says that the filler row of the queue is not a sample's.

`ExecutionProofs`, RawSubmission: `RawInvariance` and `RawNonceSafety`
(`[]RawNonceIsUsedOnce`) from `RawAssumption` alone: any payloads and legs, all
faults, any number of restarts. The argument is that of the submission lane with
the shutdown in place of the acknowledgement: `CoverInv` says that a contended range
lies below the next nonce or keeps the lane shut, so none that is taken
meets it (`DisjointInv`). A nonce that is read again must not fall
(`RefreshNeverFalls`), and a cancellation must not open the lane: it never does,
since the stored payload names no legs (`CancelShutsLane`). Were the payload read
as it is meant to be, the proof would have to say which legs the sequencer still
holds; it is a proof about the code as it stands. `RawTypesHold` adds the bounds of what is
counted (`RawBounds`): a shutdown ends at most one block after the last.

Simulation: `SimulationInvariance` and `SimulationOnItsState`
(`[]MeasuredOnItsState`), for any candidates and blocks and with every fault. A fork
has one user (`SimLockInv`); unless it is spoilt it stands where `AnvilSim` takes
it to stand, holds nothing between two simulations and, step by step, what its
user has put there (`ForkOk`, `Worked`). What spoils it is a simulation that
was dropped, that failed to prepare or to roll back, and the next reset
mends it; the property says nothing of a spoilt fork, and `sim_timeout` shows what one does.
`SimTypesHold` follows from the same invariant.

Executor: `ExecInvariance` and `SettlementsPay` (`SettlementKeepsItsProfit`, an
action property), for any tokens, guards and balances. `CallInv` says what the numbers
a settlement compares with are: the balance before its transaction or the one its
opener found, and snapshots not below what was held. `SoundBaselines` says that a
baseline of this block is of an opener which nothing has closed, and is restored
with everything else when a call reverts. While a bribe is paid, `Retains` relates what
was read to what is held: the retained profit is over the reference but for what the
armed pool has pulled, one unit of the profit token at most, and `SettlementsPay`
allows that much and no more; the audit reads its balances afterwards and
allows nothing. `ExecTypesHold` is about the balances: what a revert
restores is what was there (`Partial`), and a bribe is at most the profit a settlement has
just compared, so none falls below zero.

Routing: `CyclesPay` (`[]CyclesPayOnce`), for any pools of any kind, reserves, fees,
graph and budgets, and whichever quotes fail. A plan is priced leg by leg on one
state and executed on a state that its own legs have moved: the two agree because
a cycle never takes a pool twice (`WalksAre`) and an amount out depends on its own
pool alone (`AmountIsLocal`), so each leg meets the state it was priced on and what
it names is what the pool gives (`WalkGoesThrough`). That it gives anything is read
backwards: a plan has a positive gain, and from the last amount to the first none
can be 0 (`AmountsPositive`). What a swap takes out of a pool is less than what is in it
(`V2Bounded`, `AeroBounded`), so no reserve becomes negative. A back-run is the same
behind its victim (`BackRunPays`). No cycle is planned twice because its pools and the token it starts
from determine the walk (`WalksDiffer`), its best size is one (`SizeIs`), and a
mixed cycle has a pool that the V2 pass does not look at (`PassesDiffer`).
The walk of amounts and the execution are recursive functions; that each satisfies its
equation is proved by induction over the set of the indices up to which a
function satisfies it (`UpTo`, `StepsExist`), which no prover gives directly.

`SandwichesPay` (`[]SandwichesGoThrough`), for any pools, fees, victims and bounds. On V2:
a sandwich whose back leg names an output goes through, its victim gets its minimum, and
the account ends with exactly what that leg named. The condition is needed: of a dust
amount the named output rounds to 0, which a pair refuses and `build_leg` does not. The
front leg and the victim leave the pair with more of what the back leg takes out and less of what it puts in (`SwapMoves`), so the pair gives at least what was
named (`SaleIsCovered`, from `V2GivesMore`: a quotient is monotonic in its two
reserves). It explains the finding of `sandwich_back`: what is named, and not the
profit the size was chosen by, comes back. On V3 the victim's output is taken for the
difference of two quotes, each of one swap, and two swaps take place, with a fee and a
rounding each: the victim is sure of its minimum less `RoundingRoom`, two units and the
worth of one of what it sells (`VictimIsServed`, from `FeeOfSum` and `PartsGive`). Without
that room TLC finds a victim that misses its minimum on the pools of `parts`.
`RouteTypesHold` says of every plan that it spends between 1 and `MaxIn` and gains; of a
V3 sandwich this rests on the fitted reserves being whole (`FitIs`) and on the
refined sizes staying within the grid (`SizesInReach`).

`ObservationProofs`, Discovery: `DiscoveryJudgesCreations` (`[]CreationsAreJudged`)
assumes that no fork is deeper than the overlap of two windows, which is what the
overlap is for. `ScannedTo` leaves the last `ForkDepth` blocks below the cursor open
while a fork has not been scanned again. `DiscoveryTypesHold` needs no such assumption.

Liquidations: `LiquidationsType`, `LiquidationsInvariance` and
`NoAccountForgotten` (`[]ActiveAccountsAreWatched`), for any borrowers, ticks, caps and
chain, with failing logs, ilks and polls. The invariant says where an
account of a scanned block is: in the list, put out by the cap, or among what
Maker's harvest passed over (`AccountedTo`). Ticks overlap and each moves the
cursor, so `TickInv` says of every tick that waits for logs that all before the
block it asked from is accounted for, whatever the others have done since.

Matching: `MatchInvariance` and `EvidenceWithoutHindsight`
(`[]BlockEvidenceIsForesight`) for any number of blocks, with failing receipts,
lost block rows and restarts, if no block is listed again after a restart
(`Relisted`) and no row of an opportunity is lost (`"rows"`); neither can be
dropped (section 4). Of the invariant, `HindsightInv` says that whatever the
scoring made, wherever it is by now, is of a block that will not be delivered
again; `WorkInv` that what the worker has left to match was decided live, for the
block it works on, and is not compared yet; `RowsInv` that the row of an
opportunity is in the table or in the queue ahead of its simulation's.

Flashblocks: `LossesAreCounted` (`[]LossIsCounted`), `EmittedOnce`
(`NothingEmittedTwice`) and `PinsStayExpired` (`ExpiredPinStaysExpired`), for any
blocks, frames and windows and any order of delivery. The parser and the tracker
both know the newest delivered frame (`NewestInv`); what was emitted is
remembered or far behind (`WindowInv`); without a replaced payload the frames are one
chain in which every link names the end of the block before (`ChainInv`), so without a
counted gap everything from the first block on was delivered (`LossInv`), but for the
tail of a block whose successor's first frame came without a link (`UnlinkedTail`). `FlashTypesHold`
counts what the tracker keeps (`TrackedBounded`): evicting brings it back to its limit, whichever
blocks it holds.

Alerts: `AlertsAreTruthful` (`[]AlertsTellTheTruth`). A pass appends what changed,
each rule at most once and on the side it was not on, and drops from the front of the
history (`TruthfulAppend`, `TruthfulCapped`, `PassIsTruthful`). The property states the alternation over
positions and the next one of the same rule (`NextOfRule`) instead of a filtered
sequence, since the library has no theorem about `SelectSeq`. `AlertsTypesHold` has to know how far a
pass has read: whole groups of signals, in their order (`ReadSoFar`).

`ServicesProofs`, CowTrader: `CowTracksLiveOrders` (`[]LiveOrderIsTracked`) and
`CowPegsAreCapped` (`[]PegsAreCapped`), for any orders, tasks and cap, with lost
answers and restarts. `LiveInv`: nobody holds an identity the book does not
know, and a `DELETE` on its way has been asked for. `PegInv`: the pegs a tick has
polled so far number at most what it has counted as open, so that the
placement after it fits the cap; every request in between only removes pegs.

`CowTypesHold` is a theorem of its own because a poll counts: `CountInv` says that the orders
it has counted and those it has not asked for yet are together no more than there are.

BlockFlow: `FlowAccountsForBlocks`, the refinement `FlowSpec => BlocksAreAccountedFor`:
every step of the pipeline is a step of DeliveredBlocks or leaves it as it is. Its
hypothesis is that the node never answers null for a block it has named, which
`services` excludes too (section 4 says what happens otherwise). The invariant
orders the whole line (`LineOrder`): replay queue, channel and the poller's
hand hold blocks in the order of the chain, above the last one scored and at most the
cursor, while the source names only blocks above it (`SourceOrder`). The
abstract `waiting` is a set: that its oldest block is scored first, and above the last
one, is a rule of `Score` and not of its representation. `FlowTypesHold` adds the types under
all faults, `"null"` answers included: queues within their bounds, and nothing but blocks in the
replay queue.

The inductive invariants were checked by TLC on the instances of section 3 while
they were being found; now that they are proved no run repeats them.

Model-checked only:

- Liveness, which is out of the prover's reach: `TripCancelsEverything`,
  `QueuedCandidateIsServed`, `EveryBundleIsSettled`, `DropIsNoted`,
  `ThresholdTakesEffect`, `TripClosesOrders`, `IngestionKeepsUp`.
- `PartsTypeOK`, which collects the types of the parts of `parts`; each part's own type
  invariant is a theorem.
- The three counterexamples of section 4.

## 7. Abstractions and assumptions

The lane, settlement and evidence:

- Relays hold nothing of a payload once they have acknowledged its cancellation
  and receive nothing after `submit` has returned; they may forget a payload at
  any time. A relay that breaks this cannot be defended against by the bot.
- In SubmissionLane the chain only grows. Reorganisations are Settlement's.
- Settlement assumes a finality depth of at least the depth of a reorg plus the
  time one of our transactions, made public by a discarded block, may still
  take to land (`ConstantsAssumption`). Victims may land at any time.
- A batch of receipts is of one moment of the node, and so is one call of a quote; the
  calls of a route may meet different blocks. A discarded block does not become canonical again.
- A sample's target is the block after the head it was captured at. Samples have
  distinct ids (`push` and the table collapse equal ones).
- In Qualification time does not outlast the window: an incident counts for good.
- Refusals that depend on amounts (funding, position, bribe, valuation, profit
  after the exact re-simulation) are arbitrary: the candidate may be refused or not.
- SQLite statements and transactions are atomic, and writes survive the process.
- A crash stops the whole process; there is no partial loss of tasks.
- Matching knows of an opportunity its block, its victim and where it came from.
  In `parts` no row is lost and no old block listed again, since with either
  `BlockEvidenceIsForesight` fails (section 4).

The other modules:

- RawSubmission: a leg whose answer was lost arrives before the next block or not
  at all. Fees are left out: a replacement always outbids, a leg of ours never
  outbids another. The sequencer mines in nonce order.
- BlockFlow: a block is its number, other events their kind; an evaluation may
  take for ever. `"null"` answers are left out of `services` (section 4).
- Flashblocks: a frame adds one transaction, frame 0 the system's deposit. A link is that
  of the frame before, or missing; one that does not parse is treated as missing by the code.
- CowTrader: a uid is a model value, being the digest of the whole order; amounts,
  prices and fees are left out, so what trades and at what price is arbitrary.
- Simulation: a fork is where it is pinned, whether the executor's code is on it,
  what waits in its pool and what an unreverted candidate left.
- Discovery: one factory at a time (`market`), since the lanes share nothing.
  Liquidations: one protocol at a time; health is arbitrary, and what is followed
  is who is asked for it and from which list. Morpho caps its markets and the
  borrowers of each market (`liquidation_morpho.rs` 202-250); the model has one market,
  so the two caps are one list.
- Routing: amounts of at most 25 and fees to match, so rounding matters more than
  in production. A V3 pool is followed inside one range of ticks, as virtual reserves in
  whole units; its fee is rounded up and stays outside of them.
- Alerts: severities, wording and the webhook, whose outcome nothing waits for, are
  left out; the signals move arbitrarily, a few of them in one behaviour (`Moving`).
- Executor: what the targets of a batch do is a transfer of at most one unit of each
  token; the recipient of a bribe is such a target, called once the balance has been read.
  The owner and the searchers are accounts with keys of their own, so no target is one. Deadlines and the cap on the base fee refuse a transaction before it has
  done anything and are left out.

## 8. Not modelled, and what is left

Not modelled, and why:

- `FeeRouter.sol`, bundle construction, RLP, signing and the decoding of
  calldata and logs: pure data, without state between calls.
- The floating-point sizing of just-in-time liquidity, the sizing of
  liquidations and the oracle front-run's calldata: numeric searches over values
  TLC cannot enumerate to any effect.
- Configuration and command line, the HTTP API's views, metrics and latency
  histograms, the statistics and the live feed, the dashboard: they read, format
  and serve. The API calls that change state (pause, resume, patch, reset, CoW
  orders) are actions of the components they change.
- The `replay` command, which runs the attribution of Matching offline over a
  range of blocks, and the sockets of `ingest.rs` below the level of an event.

What is left to do, in order of importance: an abstract ledger of nonce ranges
that SubmissionLane and RawSubmission both implement; BlockFlow with evaluations that time out; a Settlement of receipts that
fail one by one in a run of its own, once the code tells "no receipt" from "no answer".

## 9. Running it

    tlc -workers 2 -config lane_safety.cfg MCSubmissionLane
    tlapm SubmissionLaneProofs.tla

| Configurations | Module |
|---|---|
| `lane_*` | MCSubmissionLane |
| `risk_*` | MCRiskEngine |
| `settle_*` | MCSettlement |
| `comparisons_*` | MCStateComparisons |
| `qualification` | MCQualification |
| `services` | MCServices |
| `parts` | MCParts |
| `sim_timeout` | Simulation |
| `sandwich_back` | MCRouting |

The modules with proofs are listed at the head of section 6.
