# A TLA+ verification of the Endure subnet

Endure is a Bittensor subnet. Miners commit to forecasts and reveal them later;
validators score the forecasts against market data and put the resulting weights
on chain. This directory models the parts of validator and miner where a wrong
order of events costs money or credibility and where unit tests reach least:
**the emission of weights** (a durable ledger, an SDK that may time out, a chain
that decides late), **the life of a round** (concurrent requests, a tick
thread, SQLite transactions, restarts), **scoring across rounds** (passes that
resolve targets piecemeal, out of order, while miners come and go), and around
these three what feeds them and what watches them: market data, the making of a
vote, the RPC gate, the process, health, the read API and the miner.

## 1. The system

| Component | State it keeps | Operations | Interacts with | Hard behaviour | Correct when |
|---|---|---|---|---|---|
| Weight emission (`base/validator.py`, `neurons/validator.py`, `storage/repository.py`) | `weight_emission_batches`, `weight_emission_startup_fences`, scan cursor; in memory the position of the run loop | startup fence, plan, prepare, submit, transition, reconcile, scan reveals | RPC gate, SDK, chain, health API | SDK threads that outlive their call, crash around the SDK call, finality lag, CR4 reveals epochs later, re-registration | one attempt at a time *on chain*; `confirmed` is proof, `unconfirmed` is safe to retry; every attempt is decided |
| Round lifecycle (`protocol/validator_service.py`, `vertical.py`) | `rounds.state`, snapshots, consensus, resolution markers | open, publish consensus and reveal, resolve horizons, close | handlers through the rows, scoring pass, universe and market providers | failures contained per round and per horizon, truncated passes, restarts between transactions | the published, the scored and the eligible set are one; closed means fully resolved; every round closes |
| Submission handlers (`protocol/handlers.py`, `validation.py`) | none of their own; rows of `submissions` | `handle_commit`, `handle_reveal` | storage, tick thread | clock captured once, several storage calls per request, retries, closure in the middle | an acknowledgement is durable; caps hold; closure freezes admission |
| Scoring pass (`scoring/assessment_orchestrator.py`) | realized targets, output scores, EMA state, history, marker | `resolve_and_score`, `record_assessment_scoring_pass` | round lifecycle, market data | partial passes under a time budget, replay, rounds resolved out of order | a marker means done; the EMA observes a round once; absence costs, and never retroactively |
| Deregistration and archival (`scoring/eligibility.py`) | tracker in memory, EMA rows | seed, advance, confirm, archive, forget | metagraph refresh, unfinished rounds | a miner leaves or returns while a round waits or the process is down | archival takes nothing a pending forecast would continue, and leaves nothing behind |
| Market data (`live/alpha_market_data.py`, `scoring/market_sampling.py`, `scoring/risk/`) | four caches, samples in progress, cooldown and abandoned workers of the fetcher | find the window's blocks, sample, resolve or void | archive node, scoring pass, votes | an archive that lags, throttles, hangs, recovers in the middle of a series | what is recorded is what the finalized chain gives |
| Duplicate pools (`scoring/duplicates.py`) | cached groups and tie seeds | pool window, tie order | archive node | archive unavailable | copies earn as one; votes do not go back to an older window |
| Emission policy and encoding (`scoring/emission_policy.py`, `weight_processing.py`, `weights.py`) | none | owner vote, burn share, refusals, recheck, u16 form | chain snapshot, metagraph, scores | the chain moves between plan, vector and submission | what is sent is earned at the block it is sent for; honest votes are not refused |
| Health and confirmation cache (`neurons/validator.py`) | overdue clock, parked reason, summary cache and its generation | note, defer, block, judge, invalidate | run loop and API threads | two threads move one clock from facts read earlier | a due vote is reported in time, a waiting one never; no stale positive |
| RPC gate (`base/rate_gate.py`, `base/neuron.py`) | pacing, backoff, abandoned generations, transport | `call`, `replacement`, `close_generation`, reconnect | every chain read and write | timeouts, abandoned threads, late completions | bounded threads; no call on a poisoned transport |
| Shutdown and watchdog (`base/shutdown.py`, `base/validator.py`, `base/miner.py`) | events, heartbeat, long-operation marker, restart latch | signal, guard, watch, join, force | run loop, helper thread | a latch, a hang or a signal at any point from construction to exit | success is clean; only a hung loop is stale; what must end ends |
| Miner (`protocol/miner_service.py`, `neurons/miner.py`) | assembled bundle and nonce, ack sets, state file | assemble, commit, reveal, push | validators' handlers | crash between acks and persistence, lost answers | the nonce of a commitment is never lost |
| Read API and risk feed (`api/app.py`, `publication/risk_feed.py`) | none; rows of the tick thread | round endpoints, feed, health | SQLite beside the tick | several queries per response, without a transaction | nothing is disclosed early; what is published is derivable |
| CR4 schedule (`base/cr4_schedule.py`) | none | reveal deadline of a commitment | emission | owner-triggered epochs | never earlier than the chain's reveal |
| Aggregation consensus, admission | none | weighted median, verdicts of admission | round lifecycle, feed | | tests suffice beyond what the feed uses |
| Schemas, registry, version contract; runtime, configuration, scripts | none or read-only | declarations, wiring | | | tests suffice |

Two edges carry the interaction. The handlers (axon), the tick thread and the
read API never call one another: they meet in SQLite rows. The emission reads
scores the tick wrote, submits through the RPC gate, and learns what happened
only from finalized chain state, at the next metagraph sync.

## 2. Modules

| Module | Contents |
|---|---|
| `EmissionContract` | what emission promises, with no blocks, deadlines or SDK: attempts open one at a time, take effect only while open, and are confirmed only if they took effect |
| `WeightEmission` | the emission as the code does it; implements `EmissionContract` under a refinement mapping |
| `Totals` | the sum of a vector, which votes and consensus share |
| `EmissionVote` | what one vote is made of, as pure functions: pools, earned weights, owner's burn, chain limits, u16 encoding |
| `EmissionAttempt` | one vote from scores to extrinsic while the chain moves, with the parked faults and the cached summary of the ledger (EXTENDS `EmissionVote`) |
| `EmissionHealth` | the overdue clock of `/health`, moved by the run loop and the API threads |
| `RoundLifecycle` | handlers, tick thread and crashes over the rows of one round |
| `PublicReads` | the read API beside that round: `RoundLifecycle` composed with readers (EXTENDS it) |
| `AssessmentScoring` | scoring passes, EMA state, deregistration tracker and archival over several rounds |
| `MarketData` | how one horizon gets its realized values and a pool window its seed |
| `RpcGate` | the gate, its generations and the reconnection |
| `NeuronProcess` | the main thread, the run loop and a helper from construction to exit, in discrete time |
| `MinerPush` | the miner's service, its state file and its push to validators |
| `WeightEmissionProofs` | TLAPS proofs: the ledger, the settlement of what it decides, and the refinement of `EmissionContract` |
| `PublicReadsProofs` | TLAPS proofs about `RoundLifecycle` and, from its invariant, about `PublicReads` |
| `ScoringProofs` | TLAPS proofs about `AssessmentScoring` and `MarketData` |
| `RuntimeProofs` | TLAPS proofs about `RpcGate` and `NeuronProcess` |
| `EmissionAttemptProofs`, `EmissionHealthProofs`, `MinerPushProofs` | TLAPS proofs of the module each is named after |
| `TotalsProofs` | TLAPS proofs of the laws of finite sums, which `EmissionAttemptProofs` and `PublicReadsProofs` cite |
| `MC*` | instances for TLC, one `.cfg` each; two for `MCWeightEmission` and `MCMinerPush` |

`PROJECT.json` maps every definition that models code to its lines. The mutated
definitions that show what a property can catch stand beside the originals,
marked "mutant".

### 2.1 WeightEmission

State: `head`, `commitReveal`, `uids`, `roster` (which hotkeys hold the slots, by
block), `ext` are the chain (external, modelled from how the code reads it);
`ledger`, `count`, `fence` are the database and survive a crash; `pc`, `snap`,
`scanned`, `running` are the process and do not. A row of `ledger` has the columns
the verdicts depend on: `state` (`confirmation_state`), `mode`, `vec`, `hotkeys`
(`miner_hotkey` of its rows), `uid`, `sub` (`submission_block`), `deadline`
(`confirmation_deadline_block`), `revealDeadline`, `commitment`, `observed`,
`cursor`. `running` holds the attempts whose SDK thread may still sign: a timeout
ends the call, not the thread.

| Action | Code |
|---|---|
| `RecordStartupFence`, `PlanEmission` | `_weight_emission_ready`, `set_weights` |
| `AbandonPlan` | limit reads or the owner recheck fail before anything is sent |
| `PrepareIntent` | `_prepare_weight_intent` and `record_weight_emission` |
| `Sign` | the SDK thread signs and broadcasts (external) |
| `SdkRefuses`, `SdkAccepts`, `SdkOutcomeUnknown`, `SdkNeedsRestart` | the returns of `_submit_prepared_weights` with the `finally` of `_emit_weight_candidate`; the write of the outcome may fail and is swallowed |
| `SyncMetagraph` | `resync_metagraph` up to the finalized reads |
| `ResolveConfirmations`, `AdvanceCursor` | the two transactions of one turn of the scan loop |
| `ReconciliationFails`, `CrashAndRestart` | any read or write fails; the process ends anywhere |
| `NewBlock`, `ToggleCommitReveal`, `Reregister` | the chain (external) |

A batch is decided by `Resolution`: `DirectResolution` and `Cr4Resolution`
translate the two functions of the same name, `ForeignResolution` the branch for
batches of another identity.

Abstractions. A vector is a model value: it stands for its UIDs and weights, the
intent hash and the protocol key. The hotkeys at those UIDs are recorded with the
batch, as the metagraph had them, and compared on their own: `VectorMatches` asks
that finalized state shows the vector and that every target slot is still held by
the recorded hotkey, as `resolve_weight_emission_confirmations` does. Registrations
change the roster at the blocks of `RosterBlocks`. A UID is named by the block that
registered it. The legacy writer is extrinsic 0. `baseline_last_update` is never
later than the submission block on a live chain, so `max(submission, baseline)` is
`sub`; the metagraph it is read from may be arbitrarily stale, which matters for the
UID a batch is prepared under. The single open batch is enforced by the database
index, not assumed. The reveal schedule is regular (one tempo); the code's
simulation of owner-triggered epochs is left out (section 5). The checks
`record_weight_emission` makes of its own arguments (`SoundNumbers`,
`SoundEvidence`) are guards of `PrepareIntent`; on a subnet whose tempo put the
reveal deadline before the inclusion deadline they would refuse every attempt, which
no bound here reaches.

Assumed of the deployment, and needed (`DeploymentAssumption`): the SDK signs
within `SIGN_DELAY` blocks of the submission sample or not at all, and a reveal
comes within `REVEAL_JITTER` blocks of its epoch, both at most `MARGIN` (the
finality margin, 12 blocks in production); one mortality plus that delay fits in an
epoch (128 + a few blocks against a tempo of 360); and finality trails the head by
a block or more (`MIN_LAG`), else a commitment revealed in the block of the next
submission could confirm the next batch. Assumed of the environment in the actions
themselves: the SDK's `success = False` is truthful; and the owner does not flip
commit-reveal between the validator's read of it and the signature, nor before the
fence is recorded. The last one is a real limit of the design rather than of the
model: such a flip gives the batch a mode its extrinsic does not have.

### 2.2 RoundLifecycle

State: `round`, `sub`, `snapshot`, `consensus`, `resolved` are rows; `req` is
the set of requests in progress, `tick` the tick thread, both lost by `Crash`;
`acked` is history. Every storage call is one transaction in the code and one
action here, and anything may happen between two of them.

| Action | Code |
|---|---|
| `CommitArrives`, `RevealArrives` | the handlers up to their first row read; the clock is captured here and never read again |
| `CommitChecked`, `CommitRecorded` | cap and window of `handle_commit`, then `record_commit` |
| `RevealChecked` | `accepted_reveal` and `committed_hash`, the retry of an accepted reveal, refusals without a write |
| `RevealCharged`, `RevealReread`, `RevealClassified` | `_admit_reveal` |
| `RevealRecorded`, `RevealConfirmed` | `record_reveal` and the re-read after a write that changed nothing |
| `TickStarts`, `OpenActiveRound` | `tick`, `_open_active_round` |
| `Publish`, `PublishFails`, `AdvanceOneRound` | `_advance_one_round` and the containment in `_advance_rounds` |
| `PassOver`, `ResolveAndScore`, `ResolutionInterrupted`, `SettleRound` | the loop of `resolve_due` and its end |
| `AdvanceClock`, `Crash` | environment |

Abstractions. A payload is a (bundle, nonce) pair and also its hash, because the
hash covers both members and the hotkey. Whether it is well formed is a constant
set. Checks made before the first storage read (schema, canonical round id,
version, size) refuse without a trace and are left out. One round is modelled:
rounds share no row except the EMA state, and each is contained in its own
`try`. The outcome of a scoring pass is a marker, no marker, an exception or a
deferral. Storage and its tests promise safety under concurrent requests, while
the axon of today serves them on one event loop; `Slots` requests at once is
the stronger setting. An accepted bundle that no longer parses is skipped by the
published rows and by scoring alike, so `consensus` names the bundles the
computation was given.

Assumed: a commit that arrived inside its window ends before the reveals open
(the windows are half an hour or more apart; a handler makes a few local
queries). Without it `CommitsPrecedeReveals` says only that the *arrival* was
timely.

### 2.3 AssessmentScoring

Where `RoundLifecycle` follows one round through its requests, this module
follows several rounds through the scores, and keeps of a request only that it
was accepted. State: `stage`, `accepted`, `targets`, `history`, `ema`, `marked`
are rows; `metagraph`, `missing`, `lastSeen` (the `DeregistrationTracker`) and
`tick` are the process and do not survive `Restart`.

| Action | Code |
|---|---|
| `AcceptReveal` | `miner_admission` and an accepted reveal |
| `Resync`, `ResyncRaises`, `Restart` | `resync_metagraph` with `advance`; the same when the hook raises first; `seed` in a new process |
| `StartTick`, `OpenActiveRound` | `forward`, `tick`, `_open_active_round`, `unfinished_rounds` |
| `PublishRound`, `EnterRound` | `_advance_one_round` up to `resolve_due` |
| `PassOver`, `Defer`, `PassFails`, `ResolveAndScore`, `SettleRound` | the loop of `resolve_due` and its end |
| `StartArchival`, `ArchiveHorizon` | the archival at the end of `_advance_rounds` |
| `FinishTick` | `_prune_archived_deregistrations`, `forget_settled` |

`ResolveAndScore` is one pass. The resolvers answer for any part of the targets
still missing and void some of those; the scoring set is formed from the EMA rows
and the accepted reveals; EMA, history, pruning and the marker are written
together, since `record_assessment_scoring_pass` is one transaction and one
thread runs the reads before it. A second horizon or round of the same tick is a
step of its own, and a crash may fall between any two.

Abstractions. An EMA is its *level*, the number of further zero observations
that would take it below `ARCHIVE_EPSILON`, with its `resolved_rounds`: a zero
observation lowers the level, a good one sets it to `TOP`, and level 0 is what
`_fully_decayed_hotkeys` looks for. Whether a forecast was good is free, but the
same for the coordinates of one pass. The metagraph is a set of hotkeys, and any
set may follow any other; rounds are days, horizons are days after the reveals
close. `partially_scored` is `revealed`: the two are treated alike. `Faults`
says whether calls may raise.

### 2.4 MarketData

`RiskScoringOrchestrator.resolve_and_score` and the archive client under it, for
one horizon of one round, and the pool window of a vote. State:
`final`, `late`, `spent` are the archive and the clocks; `pc`, `tries`,
`sampling`, `passTargets` the pass in progress; `bounds`, `snapshots` (the reserves
that were answered, by the block asked for), `series`, `headCache` the caches of the
process; `misread` a history of the blocks it was answered wrongly about; `recorded`
the rows, each with whether that history was empty; `cooling`,
`abandoned` the fetcher; `seeds`, `window` the orchestrator's tie seeds.

| Action | Code |
|---|---|
| `StartPass`, `StartBoundary`, `EndBoundary`, `BoundaryFails`, `BoundaryDeferred` | the window's first and last block, by bisection of finalized timestamps |
| `NextOutput`, `HeadKnown`, `HeadFails`, `Sample`, `FinishSeries`, `FinishPass` | `_resolve_targets`, `price_series` with `SeriesSampling`, the single transaction at the end |
| `Retry` | `_with_retry` |
| `Vote` | `_seeded_window`, `_tie_seed` |
| `MoveHead`, `GraceEnds`, `SpendBudget`, `ExpireHead`, `Recover`, `Reveal`, `ProcessRestarts` | environment |

A read may fail (throttled, hung, cut off), answer with nothing, or answer. `Sample`
compares a block with the cached head only, as `_snapshot_at` does. What it is
answered is the state of that block if the answering node has it, and of the node's
own head if the node is behind (`AnsweredBlock`; a pool of nodes stands a block apart,
`MoveHead`); either way it is cached under the block asked for. An answer of nothing
at the last attempt is a definitive gap whether or not a pool exists (`Missing`). The
answering node's head is a block ahead of finality. After the
grace period a failed boundary voids all pending targets at once. The pool
history (`Reserves`) is a constant, since only final blocks are read. Decimal rounding is
integer division.

### 2.5 EmissionVote and EmissionAttempt

`EmissionVote` holds the pure steps: pools from groups of identical forecasts
(`DuplicatePools`), `LevelToBest` and `EarnedWeights`, the owner's share
(`OwnerBurnWeights`, `VoteNetworkWeights`), the chain's limits (`ProcessWeights`),
the u16 form with its per-pool rounding (`PoolUnits`, `Units`), and the tolerance
of the recheck. A vector holds natural numerators over a denominator of its own,
since every step depends on ratios; the 28-digit rounding of quotients is not
modelled.

`EmissionAttempt` runs one vote: `Resync`, `Reconcile`, `Refresh`, `Abstain`,
`AskLedger`, `ReadRaises`, `PlanRefused`, `PlanMade`, `Prepare` (the vector from
the *local* metagraph, then `recheck_owner_state` at the submission block),
`RecordRefused`, `NotePrepared`, `RecordOutcome`, `NoteWritten`, each of them one
stretch of `set_weights` between two reads; `MoveChain` changes slots, owner,
coldkeys, commitments and permits between any two of them. The ledger is one flag
here. `block` and `underlying` are the parked reason of a vote and the fault it
hides; `BeginRead`, `ReadLedger`, `Store`, `Expire` are an API thread and the
summary cache with its generation. Without an owner-vote network nothing is
rechecked at the submission block; `SentIsEarned` asks only for earned scores
there. A refused vector is recorded in the ledger without invalidating the cache,
so a summary may miss it for the cache's five seconds; the property is about the
open batch, which such a row is not.

`SentIsEarned` lets the owner be in the vector exactly when the burn rate is
positive, and asks that it be alone at the full rate. It asks no more, since near
the full rate every other weight may round to nothing, which the code accepts.
`AttemptAssumption` types the earnings a scoring pass can leave;
`SharpeningAssumption` says that `score ** GAMMA` is a number and 0 for a score of
0, which the prover, for which `^` has no arithmetic, cannot compute itself.
`ChainsAssumption` types the chains an attempt may find: a hotkey has one slot of the
subnet at most, which the chain guarantees and every change in `MoveChain` keeps.
`VoteAssumption` also says that the lowest rate is no less than half a unit
(`BPS <= 2 * U16_MAX`, 10000 against 131070 in the code): with a coarser unit the
owner's share could round to nothing and every honest vote would be refused.

### 2.6 EmissionHealth

The overdue clock (`em`) behind the emission lock. The run loop passes through
`Check`, `Resync`, `Reconcile`, `ReadScores`, `Ready`, `PlanRefused` or `PlanMade`,
`EmitFails` or `PrepareRow`, `Outcome`; a reader through `Ask`, `ReadSummary`,
`Answer`, and judges the clock by a block, a fence and an open batch read before it
took the lock. The monotonic clock is counted in blocks, and a response lasts at
most `RESPONSE` of them, a pass `PASS`. What is promised is in
`docs/validating.md` ("Once eligible, one window ...; repeated unsuccessful paced
attempts do not renew that deadline"). The history `owed` follows what the checks
find, not the clock itself: a vote is owed from the check that finds nothing to wait
for, until the loop defers, the mode changes or a row is prepared. A check whose gate
is not ready does not read the head, so when it finds the clock stopped by an older
response it cannot start it again: nothing is owed then, and the outage is the gate
alarm's to report.

`Slack` is what stale reads may add to a window: a response begun before the vote was
owed stops the clock within `RESPONSE`, the attempt then under way ends within `PASS`,
the next is due `EPOCH` blocks later, and its check comes within `PASS`.

Left out: the escalation of a transient block over epochs, the alarms of an open
batch past its deadline and of the RPC gate, reasons and burn rates in the
response, and the instant inside a resync in which scores are zeroed before they
are rebuilt.

### 2.7 PublicReads

`RoundLifecycle` with a reader beside it: `FIRST` is a round closed earlier, `LIVE`
the one running. Every query of a response is an action (`RoundMeta` and
`AnswerMeta`; `PassGate` and `AnswerRows`; `FeedLatest`, `FeedTiers`, `AnswerFeed`;
`HealthProgress`, `AnswerHealth`), and the tick may take any step between two.
Readers write nothing, so one request at a time shows every interleaving a client
can notice. Consensus rows and the universe of a listed round never change, so
they are read with the query that lists it. The next round's commit window closes
when `publication_available_at` says. The consensus is the weighted median as the
code computes it; the property compares it with the value of least weighted
distance. Values and tier limits are small integers.

### 2.8 RpcGate

Two callers go through `Begin`, `Defer`, `Admit`, `Submit`, `RejectPoisoned`,
`RejectFull`, `Complete`, `TimeOut`, `ClosePoisoned`, `RecordThrottle`,
`RecordSuccess`, each the stretch of `AdaptiveRpcGate.call` and `_call_bounded`
between two locks; `CompleteAbandoned` is the worker that ends after its call;
`BeginReconnect`, `Wrap`, `RetireOld` are `_reconnect_subtensor`. Instants are
kept as the time left until them. A deadline may pass whenever a worker is busy.
Generations nobody refers to are reused, so that reconnections can go on for ever.
In today's neurons nearly all calls come from one thread; the gate promises more.

### 2.9 NeuronProcess

The main thread (`Constructed` to `Exit`: construction, the startup guard, the
watch loop with its staleness check in separate reads, stop, joins, close, forced
exit), the run loop (`SyncEnds`, `AfterSync`, `Reconnect`, `Forward`, `Paused`,
`Hang`, ...) and a helper, for a validator and a miner. Time is discrete: `TimePasses`
moves every lapse, and is disabled while a timer is due, so timers are punctual;
operations last any time up to their bound unless they hang. A process ends, so
this run alone suppresses the deadlock check.

The code checks `MAX_AGE > TICK` only. That a reconnection with the two block
reads after it, which run outside the long-operation marker, fits in `MAX_AGE` holds for
the defaults (3 x 90 s in 300 s) and is assumed.

### 2.10 MinerPush

`Assemble`, `PushCommit`, `PushReveal`, `EndSend` are the ticks of
`MinerRoundService` and `Miner._send`; `Handle` is a validator (the part of the
handlers of `RoundLifecycle` a miner sees); `Crash`, `Corrupt`, `Restart` and a
write that fails in `Persist` are the faults. A bundle with its nonce is a fresh
number. A request may be taken late or never, and its answer may be lost; the
requests to one peer are taken in order, and the wire keeps the latest of them.
Were a late commit to overtake a newer one after a lost state file, the
validator would hold a hash the miner has no nonce of.

## 3. What is checked

| Run | Shows | Bounds | Distinct states |
|---|---|---|---|
| `emission_ledger` | `NoOverlap`, `ClosedIsSettled`, `LandedIsNotWrittenOff`, and `KeepsContract`: the ledger implements `EmissionContract` | 2 attempts, 2 interchangeable vectors, direct or commit-reveal from the start, a legacy write in the pool or applied (one that expires there is as good as none); 2 rosters, one change; 28 blocks, mortality 2, margin 1, tempo 2, reveals 2 epochs after the commit with jitter 1, scan batches of 3; submission at 3 blocks, sync at 4 | 3.5 million |
| `emission_liveness` | `EveryAttemptDecided` under `FairSpec`, and `LedgerHistory` | 1 attempt, both modes, 15 blocks, 1 flip of commit-reveal, 1 re-registration, 1 change of the target slots, sync at 2 blocks, a legacy write applied | 316 thousand |
| `round_lifecycle` | `TypeOK` (types and caps), `AckedIsScored`, `FrozenSetAgrees`, `AcceptedOpensCommit`, `RetryIsAcknowledged`, `AdmissionFrozen` | 2 miners, 2 payloads (one malformed), 2 requests at once, caps 2 and 1, one horizon, clock 0..5 | 2.9 million |
| `public_reads` | `OpenRoundCloses` under the round's fairness, `EmbargoHolds`, `TiersAreDerivable`, `FeedNeverGoesBack`, `HealthIsNotFalse` | 1 miner, 2 horizons, clock up to 5 from the last moment of the reveal window, 2 subnets (one retired), an earlier round with 3 forecasts, a reader of each kind | 45 thousand |
| `scoring` | `MarkedIsScored`, `NoRetroactiveCharge`, `CountsDistinctRounds`, `AbsenceIsCharged`, `ArchivedOwesNothing` | 2 miners, 2 overlapping rounds, 4 days, one horizon of a day, two assets of which one is retired after round 1, `TOP` 1, 2 missing resyncs | 3.6 million |
| `market_data` | `RecordedIsCanonical`, `WindowNeverGoesBack` | 7 blocks of 10 s, one sample without a pool, a volatility and a twap, 2 gaps in a row at most, 2 attempts a read, wrong answers about one sample, at which the pool moves, 1 abandoned worker, 3 rounds pooled two by two | 7.3 million |
| `emission_attempt` | `SentIsEarned`, `HonestVoteIsNotRefused`, `CopiesEarnAsOne`, `FaultStillPages`, `ServedIsCurrent` | 4 slots, 5 hotkeys, 2 coldkeys, 3 networks, 2 chain limits, 4 scoring outcomes, rates in tenths, units up to 16, 1 change of the chain, 1 API thread | 75 thousand |
| `emission_health` | `AlarmIsRight` | 9 blocks, epochs of 1, window 2, startup grace 3, fence 1, 1 API thread, a response and a pass of at most a block, no owner vote | 7.2 million |
| `rpc_gate` | `AbandonedAreCounted`, `NoTransportLeaks`, `AbandonedAreIsolated`, `SlotsAreKept` | 2 callers, 2 generations at a time, 1 abandoned at most, 2 rates | 845 thousand |
| `neuron_process` | `SuccessIsClean`, `OnlyHungIsStale`, `EndsWhenItMust` under `FairSpec` | validator and miner, tick and RPC of 1, long operations of 4, `MAX_AGE` 3, `MAX_DURATION` 4, grace 3 | 90 thousand |
| `miner_push` | `RevealsAreCommitted`, `AckedHold`, `DurableUnlessWriteFailed` | 2 validators and a peer that is none, 2 rounds of which 1 is kept, 2 assemblies, 2 faults | 2.0 million |
| `miner_push_durable` | violation of `NonceDurableBeforeSend` (below) | the same | |

Why the bounds are enough. An emission verdict relates one batch to the chain, to
the attempt before it and to the legacy writer: two attempts and extrinsic 0 are all
the parties there are, because single flight admits no third. The chain is long
enough for the fence, both attempts with every deadline, and the finality lag behind
the last verdict; `SubmissionBlocks` and `SyncBlocks` thin out the blocks where the
order of events, not the block, matters. Races between requests involve one row and
two requests; the third party is the tick. The clock has one point before each
window, in each window, and one beyond each due time. In `scoring`, two rounds
resolve in either order, or interleaved over truncated passes; two miners are the
one that reveals and the one that does not; with `TOP` 1 a single absence already
prunes, and the retired asset keeps memory that neither counts as activity nor pays.
In `market_data` a series has four samples that exist and one that does not, so that
it is thin or not depending on what an outage could take away, and the pool moves at
the one sample (`MisreadBlocks`) a wrong answer may be about, so that such an answer
shows in what is recorded. In `emission_attempt` the four slots are the owner's, the
validator's and two miners that copy each other or not, one of them possibly the
owner's by its coldkey; one change of the chain falls between any two reads. Two
changes pass too (813 thousand states), as do `OwnerVote` in `emission_health` (11.8
million), a concurrent request in `public_reads` (340 thousand, safety only) and the
drawdown and depth outputs in `market_data`; they are not in the runs because they
add time and no case. In `emission_health` every wait (fence, pacing, rate limit,
open batch) fits in a window and a half, and in `rpc_gate` a generation can be
current, abandoned, or neither, with another one beside it. In `neuron_process` each
bound exceeds the one it is compared with by the least amount. In `miner_push` the
second round shows pruning, the second assembly what a restart without a file does.

`LastRound`, `LastDay`, `LastTime`, `MaxAttempts`, `MaxBlock`, `LastFence`,
`SubmissionBlocks`, `SyncBlocks`, `RosterBlocks`, `MaxToggles`, `MaxMoves`,
`MisreadBlocks`, `MaxGen`, `MaxAssemblies`, `MaxFaults`, `Height` and `RESPONSE`,
`PASS` are bounds of the models; the code has none of them. Two runs carry a
`CONSTRAINT` that keeps two independent activities from multiplying:
`ReadersOrMoves` (API threads read the ledger's cache, chain moves change what a
plan sees) and `PassOrVotes` (a vote and a resolving pass share the archive only).

Fairness. `WeightEmission!FairSpec`: blocks are produced, the gate's timeout
ends every SDK call, the run loop keeps syncing (weak); evidence reads succeed
again and again although any of them may fail (strong, since failures and
crashes disable the step in between). `RoundLifecycle!Fairness`: requests are
served and ticks start (weak); each step of the tick happens if it is enabled
again and again, because failures and restarts recur but do not hit the same step
of every tick for ever; steps that exclude each other at one point of the tick
share one assumption. A horizon that raises at every tick does keep its round open
for ever, in the code as in the model. `PublicReads` adds none: readers need not
run. `NeuronProcess!Fairness`: main thread, run loop, time and the forced exit's
timer go on (weak); nothing makes construction end, and an operation that hangs
stays hung. The other modules have no liveness property.

Every property of a passing run has a mutant: a plausible bug in a mapped
definition (a fence of one mortality on a commit-reveal subnet, a missing
`last_update` check, a close on return instead of on the markers, a reveal
acknowledged without the re-read, a series with an outage taken as complete, an
overdue clock judged by a cached block, ...) that TLC finds under the run's own
bounds.

### Where document and code differ

Found by a run:

* `miner_push_durable`: `_assemble` puts the bundle in memory before it writes the
  state file (`miner_service.py:159` before `:162`). When the write raises, the
  next tick finds the round assembled and sends its commit without a write, where
  the comment at `:160` says "The nonce must be durable BEFORE any send". A restart
  before the next successful write then loses the nonce of a commitment validators
  hold. `DurableUnlessWriteFailed` shows that nothing else does.

Met while modelling, and not the subject of a run:

* The specification document (`docs/specs/2026-08-09-weight-emission-confirmation.md:130`)
  wants reveal evidence *after* the submission; the code (`repository.py:493`)
  also takes a reveal in the submission block. On a chain with instant finality a
  second attempt at the same vector would be confirmed by the first one's reveal. A
  finality lag of one block (`MIN_LAG`) excludes it.
* The same document (`:142`) closes an unobserved CR4 batch at its inclusion
  deadline; the code (`repository.py:528`) waits for the reveal deadline, which is
  the safe choice: `ClosedIsSettled` fails with the document's rule.
* `eligibility.py:24` says a restart only delays archival by one confirmation
  cycle. The tracker is seeded from the metagraph and the EMA rows; a hotkey
  deregistered while the process was down, with an accepted forecast in a round not
  scored yet, is in neither. It gets EMA rows when the round is scored and is never
  counted missing; they last until they decay or until another restart.
* `validating.md:248` says archival happens at the first scoring pass after two
  missing resyncs. The gate in `_advance_rounds` also waits for the marker of every
  other unfinished round, the round open today included, so with a round a day and
  horizons of several days it is closed at nearly every tick. `ArchivedOwesNothing`
  rests on the gate but asks for less: unfinished rounds in which the hotkey has a
  forecast would do.
* Who was "previously active" is read from the EMA rows and so depends on the order
  in which rounds resolved: a miner whose first round still waits is not charged for
  a later round that resolves first. `AbsenceIsCharged` is stated for miners that
  already have a level.
* An extrinsic may land inside its window and still be written off: when a target
  slot changes hands after the landing and before the next finalized resync, the
  recorded hotkey is no longer at its UID (`repository.py:2530-2533`) and the batch
  never matches again; it expires as unconfirmed although its weights are in effect.
  `LandedIsNotWrittenOff` is stated for batches whose UID and target slots kept their
  hotkeys. What the next attempt rests on does not need that: `ClosedIsSettled`,
  `NoOverlap` and the contract hold with the changes.
* The comment at `alpha_market_data.py:730` says that a block ahead of the node is
  answered with the node's own head, and that such blocks are skipped. The code
  compares the block with a head cached for a time, possibly of another node
  (`:732`): a node behind that head still answers with its own, and the reserves are
  cached and used as those of the block asked for. And a node that answers nothing
  for a block that has a pool makes a definitive gap after the last attempt
  (`market_sampling.py:66-90`), as if there were none. Two validators can then
  record different values for good. The run contains both; `RecordedIsCanonical` is
  stated for what a process recorded before any such answer.
* `/health` does not page when, after one transient refusal of a plan, further plans
  fail by an unexpected exception: the parked refusal makes the mode `abstain`, which
  has no clock, and such failures are no refusals of their own.
* When an archive operation has failed, the client's close is queued on the one
  worker of the fetcher. If it hangs, the next request is cancelled before it
  starts, and the hung worker is not counted as abandoned, although the comment at
  `alpha_market_data.py:425` says every one is.
* A horizon whose boundary search always exceeds the tick's budget is never voided,
  even past its grace.

## 4. What is proved

For every value of the constants that meets the modules' named assumptions.

`WeightEmissionProofs` (from `ChainAssumption`, `BoundAssumption`,
`VectorAssumption`). `LedgerInvariant` is the inductive invariant: types; rows
above `count` are absent; at most one row is open; while the loop is between
prepare and return, row `count` is the one it submits; the reconciliation and
the scan look at recorded batches only; running threads belong to recorded
batches. Single flight alone is not inductive: the unique index guards
`PrepareIntent`, but `AbandonPlan` and the transitions keep it only because they
touch rows that are absent or already open. From it follow `TypeCorrect`,
`SingleFlight` and the action property `HistoryIsKept` (`LedgerHistory`).

The first half of `PublicReadsProofs` (from `RoundAssumption`) is about
`RoundLifecycle`. `RoundInvariant` strengthens the
safety properties with what each request carries between two of its calls: a
request past its window check is timely, one that will record an accepted
verdict holds the hash its miner is still committed to, a request that reached
the confirmation found the round closed or the row accepted, and the tick holds
only horizons that are unmarked or flagged. With these the conjuncts are
inductive, and `AcknowledgedIsScored`, `ClosureFreezesOneSet`,
`AcceptedForecastsOpen`, `RetriesAreAcknowledged`, `ClosureIsComplete` and
`AdmissionIsFrozen` are corollaries, for any number of miners, payloads,
concurrent requests and horizons.

The first half of `ScoringProofs` (from `ScoringAssumption`) is about
`AssessmentScoring`. `ScoringInv` is inductive. To
the types and the three invariants of the run it adds that the round in front of the queue is
revealed while its horizons are visited; that nothing is marked or resolved in a
round whose reveals may still arrive; that the history of a round holds resolved
coordinates only and every accepted miner for each of them; and that an EMA with
no observation has level 0. `MarkedIsScored` needs the second and third, because
a marker may complete what earlier truncated passes began: it holds since the
accepted set is final before anything resolves. `CountsDistinctRounds` needs the
third: a coordinate resolved now is not in the history yet, so the count of
rounds grows with `resolved_rounds`. `AbsenceIsCharged` and `ArchivedOwesNothing`
follow from the invariant step by step, for any number of miners, rounds,
horizons and assets, any universe of each round and any EMA depth.

`WeightEmissionProofs` goes on from the ledger to the chain, with
`DeploymentAssumption`. `SettlementInv` ties four things together: where an
extrinsic is (in the pool, committed, applied) and by which block it must have left
there, counted from the submission block of its batch; what the batch stored of that
(`sub`, the two deadlines, the commitment and its observation); that every batch but
the newest is settled, its extrinsic unable to land any more and its landing before
the next submission; and that the startup fence outlasts the legacy writer.
`NoOverlap` is not inductive without the deadlines: what keeps a second extrinsic
out is that the first batch was closed, and a close rests on a deadline that lies
behind every block at which its extrinsic could still change the weights.
`NothingCompetes` and `NothingLandsLate` follow. `NothingIsOverlooked` adds that a
scan never examines a window twice and that a landing behind the cursor of an open
batch is lost: it belongs to a UID the hotkey no longer has (UIDs only grow, so it
never comes back), or a target slot has changed hands since it landed (`Displaced`,
a fact about past blocks, which stay as they are). A landing that is not lost
matches at every snapshot from its block on, whatever the roster is elsewhere.
`EmissionKeepsContract` shows that each action is a step of `EmissionContract` or a
stutter; a confirmation maps to the contract's only because the landing it saw is
that of its own batch, which is `SettlementInv` again.

`EmissionAttemptProofs` (from `VoteAssumption`, `AttemptAssumption`,
`SharpeningAssumption`, and `ChainsAssumption` for `CopiesShare`). `AttemptInv`
follows a vector from the scores to the extrinsic: a positive score is a positive
durable score of the hotkey in that slot of the *local* metagraph; a plan pays such
scores, and the owner's slot; a prepared vector has been compared with the chain of
the submission block. The step from planned to prepared goes through the chain's
limits and the u16 encoding, so it needs that a sum is positive exactly when a
summand is and that the largest weight stays the largest: `TotalsProofs` has the
lemmas on the fold of the community modules, by well-founded induction on the
subsets of its domain. `OnlyScoresAreSent` is about every vector, owner and burn
rate; `NoFaultIsMasked` needs that only a failed score read parks a fault below
itself; `CacheIsNotStale` that between a write to the ledger and the note of it
nobody can store a summary under the current generation.

`HonestVotesPass` is about the numbers. Its invariant, `HonestInv`, says of a plan
under decision that it pays all to the owner, or what hotkeys earned that hold
their slots and are not the owner's, with the owner's share at the exact rate; and
that pools have no member in common, so the encoder never refuses a UID as rounded
twice. The encoder changes each UID outside a pool, and each pool as a whole, by
half a unit at most; summed over a union of whole pools that is half a unit a UID
(`UnitsRound`, an induction on its pools), and scaled by the rate it is within
`ShareTolerance` (`ShareRounds`). The owner's unit is never zero because
`BPS <= 2 * U16_MAX`. It needs the sums of `Totals` in any order, split, scaled and
compared.

`CopiesShare` follows a pool of copies the whole way. `LevellingLeaves` is about
`_level_to_best`: the members that share are those with at least some value, a cut
of theirs leaves together what the best had alone, and nobody below that value has
more than the cut, so what the others lose is nothing (it needs that cuts are
numbers, which `CUT` is in the model for). Then the sum is carried from hotkeys to
slots, which are as many because no hotkey has two (`ChainsAssumption`, kept by
every change of the chain and by every resync); to the plan, which gives every paid
slot the same part of its score; and to the units, where a pool's members are
rounded as one entry with their sum (`PoolIsRoundedOnce`, exactly and not only to
half a unit). `CopiesInv` adds to `HonestInv` that while a vote is decided the
scores are the weights of the durable EMAs under the local metagraph.

`EmissionHealthProofs` (from `HealthAssumption`). Every thread of the API may restart or
stop the clock, from a block, a fence and an open batch it read before it took the
lock, so the clock itself says little. `HealthInv` says that a clock that runs was
started after the loop last waited, which is all the second half of `AlarmIsRight`
needs. And it says of a vote that is owed: by the facts of the loop nothing is in its
way but the pacing of the last attempt, and every response begun since then has read
facts by which nothing is either; and either its clock runs and was started at most
`Slack` blocks after it became due; or a response begun before has stopped the clock,
and the attempt whose pacing it waits for ended early enough for the next check to
start it again in time; or the permit was lost, which the next check of the loop meets
by a deferral. A failed attempt moves the pacing but not a clock that runs, and a stopped
clock meets at most one attempt more. `AlarmsAreRight` holds for any number of threads,
any epoch, window, grace and fence, and any bounds on responses and passes, a pass
longer than an epoch included.

The first half of `RuntimeProofs` (from `RpcGate`'s `CallersAssumption`,
`BoundsAssumption`) is about the gate. One caller waits for
the worker of a generation, and only while it is live; a generation under
construction is the run loop's alone; a slot still ahead is the latest reservation.
`AllowanceIsExact` relates the shared count of abandoned generations to the set of
stuck workers, across the late end of any of them; `TransportsAreClosed`,
`StalledWorkIsIsolated` and `LateSuccessKeepsSlots` complete the run's properties,
for any number of threads and generations.

`MinerPushProofs` (from `PeersAssumption`, `BoundsAssumption`). `MinerInv` says what
each request on the wire, each bundle held by a validator and each entry of the
state file may still become: the committed flag stands for a validator that holds
that very bundle, and no older commit under way can displace it. While the process
runs the file never says anything its memory does not, and without a failed write
or a lost file it says the same of the current round. `NothingIsDisclosedInVain`,
`AcknowledgedHold` and `SentIsDurable` follow for any peers, any metagraph, and any
number of faults.

The second half of `PublicReadsProofs` (with `PublicAssumption`) composes
`RoundInvariant` with what a request carries from one query to the next: a stage
read past the reveals is still past them, and its forecasts are the frozen ones;
whatever it goes on to disclose is under no embargo any more; what a feed named at
its clock it may name at every later one. `NothingIsShownEarly`, `HealthIsTrue` and
`FeedIsMonotone` hold with the tick at any point between two queries.

`TiersFollow` is `TiersAreDerivable`. An answer's tier round has every outcome and
some forecast on record when its query lists it and still when the answer is made,
and LIVE's consensus rows are the frozen forecasts by then. The rest is about the
median: moving away from it by `k` adds `k` times the weight of the miners it leaves
behind to their distances, at least half of all, and takes off at most `k` times the
weight of the others, so no value is nearer to the forecasts; and less than half of
all lies below it, so that a smaller value is farther. `WeightedMedian`, which
cumulates weights in ascending order, is thus `Balance`, which knows distances only
(`MedianBalances`), for any finite set of miners, integer forecasts and accuracies.

The second half of `RuntimeProofs` (from `KindsAssumption`, `TimesAssumption`) is about
the process. While nothing
hangs, the long-operation marker is as old as the operation under way, and without
one the heartbeat is at most as old as the short operations since the last beat,
which `TICK` or three RPC deadlines bound. The watchdog reads marker and heartbeat
one after the other; both are read at one moment of the model's time, so a
heartbeat that was young when no marker was there is young when it is read.
`NoFalseStaleness` follows, and `SuccessLeavesNothing` from what each join of the
main thread leaves behind. Both are proved of `FairSpec`, whose fairness the proofs
do not use.

The second half of `ScoringProofs` (from `MarketAssumption`) is about `MarketData`.
`MarketInvariant` says what a pass may rely on. A boundary that is known is the true
one: block times grow, so the blocks past a time are an upper set, and the bisection
finds its least member wherever finality was when it ran (its recursive function is
compared with the answer by the least range on which they would differ). A series
under way that met no outage and no block ahead of the cached head holds every
priced block among the canonical ones asked so far, in ascending order, and a cached
snapshot holds the reserves of its block, both as long as the process was not
answered wrongly about anything; each output reads the pool at the blocks of its
series only, so its value depends on the chain alone. An increasing sequence is
determined by its elements, so at the end it is the true series, and only such a
series is cached. A target is then unknown, void after the grace, or the true value,
on the same condition. `ResolvedIsCanonical` follows for any pool history, any
outputs, any lag of the node against finality and any number of outages, retries and
restarts; it says nothing of a target recorded after a wrong answer.
`WindowsMoveForward` needs that, while the newest revealed round is the last pool
window, its seed is known and kept: only an unknown seed sends a vote to the
previous round's window.

Proved for every instance and therefore in no run: `ClosedIsResolved` and
`CommitsPrecedeReveals` of `RoundLifecycle`, `TypeOK` of `WeightEmission` and
`AssessmentScoring`, `OneOpenBatch`.

Every safety and action property of a passing run is stated by a theorem. Only
model-checked are the three liveness properties (`EveryAttemptDecided`,
`OpenRoundCloses`, `EndsWhenItMust`): the prover has no reasoning about fairness.
What a recursive definition computes is proved here for sums, by induction on the
subsets of a finite set, and for the bisection, by its least counterexample; for the
other folds it is what TLC evaluates.

## 5. Not modelled, and the plan

What is planned next: an abstract specification of a round (one forecast of each
miner fixed before any is shown, published together, scored once), which
`RoundLifecycle` is to implement as `WeightEmission` implements `EmissionContract`.

Known limits of what is modelled:

* The owner may flip commit-reveal between the validator's read (`validator.py:612`)
  and the SDK's signature; `WeightEmission` excludes it (2.1).
* A storage call is one transaction. SQLite's locking, and a transaction that reads
  before it takes the writer lock, are not modelled.
* A process restart that meets an unfinished round has one hazard without a
  property, the tracker's seed (section 3).
* Wrong answers of the archive are those the code cannot tell from right ones because
  of a head or a missing value (2.4); a node that lies about a block it has is not
  modelled.
* Numbers are small: shares are tenths, units go up to 16, prices are single digits.

Left out:

* `base/cr4_schedule.py`: its simulation of owner-triggered epochs follows the
  chain's runtime, and nothing else in the repository says what it should return;
  `WeightEmission` uses its result for a regular schedule.
* The skill formulas of the scoring pass and the output score rows, the dispersion
  (MAD) of the consensus and `deviation_score`: arithmetic that unit tests reach.
* The bodies of responses, paging, the leaderboard of miners, signatures; the
  calendars behind the windows.
* `save_state` and `load_state` of the neuron, and the provenance columns of
  emission rows.
* Schemas and registry, the version contract, argument parsing, wiring, mock
  providers, migrations, log shipping and scripts: declarations and I/O.

## 6. Running

    tlc -workers 2 -config MCWeightEmissionLedger.cfg MCWeightEmission.tla
    tlc -workers 2 -config MCWeightEmissionLiveness.cfg MCWeightEmission.tla
    tlc -workers 2 -config MCMinerPushDurable.cfg MCMinerPush.tla
    tlc -workers 2 -config MCRoundLifecycle.cfg MCRoundLifecycle.tla

and likewise for the other `MC` modules, whose `.cfg` has the module's name. Every
run ends within four minutes.

    tlapm WeightEmissionProofs.tla
    tlapm PublicReadsProofs.tla
    tlapm ScoringProofs.tla
    tlapm EmissionAttemptProofs.tla
    tlapm EmissionHealthProofs.tla
    tlapm RuntimeProofs.tla
    tlapm MinerPushProofs.tla
    tlapm TotalsProofs.tla

Each takes from half a minute to two minutes.
